--------------------------- MODULE PollServerProofs ---------------------------
(* Proofs about PollServer, for every value of its constants. *)
EXTENDS PollServer, SocketsProofs

(* Erasing a position leaves a sequence one shorter, over the same set. *)
LEMMA EraseType ==
  ASSUME NEW S, NEW s \in Seq(S), NEW k \in 1 .. Len(s)
  PROVE  /\ Erase(s, k) \in Seq(S)
         /\ Len(Erase(s, k)) = Len(s) - 1
         /\ \A n \in 1 .. (Len(s) - 1) :
              Erase(s, k)[n] = IF n < k THEN s[n] ELSE s[n + 1]
<1>1. Len(s) - 1 \in Nat
  OBVIOUS
<1>2. \A n \in 1 .. (Len(s) - 1) : (IF n < k THEN s[n] ELSE s[n + 1]) \in S
  OBVIOUS
<1> QED
  BY <1>1, <1>2 DEF Erase

(* What is not at the erased position is still somewhere. *)
LEMMA EraseKeeps ==
  ASSUME NEW S, NEW s \in Seq(S), NEW k \in 1 .. Len(s),
         NEW j \in 1 .. Len(s), j # k
  PROVE  \E n \in 1 .. Len(Erase(s, k)) : Erase(s, k)[n] = s[j]
<1>1. CASE j < k
  <2>1. j \in 1 .. (Len(s) - 1)
    BY <1>1
  <2> QED
    BY <1>1, <2>1, EraseType
<1>2. CASE j > k
  <2>1. j - 1 \in 1 .. (Len(s) - 1) /\ ~(j - 1 < k) /\ (j - 1) + 1 = j
    BY <1>2
  <2> QED
    BY <2>1, EraseType
<1> QED
  BY <1>1, <1>2

-----------------------------------------------------------------------------
(* Pushing a fresh entry back keeps the vector one of entries. *)
LEMMA PushType ==
  ASSUME NEW f \in {NoFd, ServerFd} \cup ClientFds, poll_fds \in Seq(Entry)
  PROVE  Append(poll_fds, NewEntry(f)) \in Seq(Entry)
<1>1. NewEntry(f) \in Entry
  BY DEF NewEntry, Entry
<1> QED
  BY <1>1

(* What a position of the vector holds. *)
LEMMA PositionType ==
  ASSUME poll_fds \in Seq(Entry)
  PROVE  /\ Len(poll_fds) \in Nat
         /\ DOMAIN poll_fds = 1 .. Len(poll_fds)
         /\ \A k \in 1 .. Len(poll_fds) :
              poll_fds[k].fd \in {NoFd, ServerFd} \cup ClientFds
<1>1. \A k \in 1 .. Len(poll_fds) : poll_fds[k] \in Entry
  OBVIOUS
<1>2. \A e \in Entry : e.fd \in {NoFd, ServerFd} \cup ClientFds
  BY DEF Entry
<1> QED
  BY <1>1, <1>2

(* remove_socket keeps the types, whatever the descriptor. *)
LEMMA RemoveSocketType ==
  ASSUME TypeOK, NEW f, RemoveSocket(f)
  PROVE  /\ conn' \in [Conns -> {"new", "queued", "up", "down"}]
         /\ rx' \in [Conns -> Seq(Messages)]
         /\ eof' \in [Conns -> {"no", "fin", "rst"}]
         /\ port' \in {"none", "asked", "other"}
         /\ poll_fds' \in Seq(Entry)
<1>1. PICK k \in DOMAIN poll_fds : poll_fds' = Erase(poll_fds, k)
  BY DEF RemoveSocket
<1>2. poll_fds' \in Seq(Entry)
  BY <1>1, EraseType DEF TypeOK, SocketsType
<1>3. <<>> \in Seq(Messages)
  OBVIOUS
<1> QED
  BY <1>2, <1>3 DEF RemoveSocket, CloseFd, Shut, TypeOK, SocketsType

(* An accepted connection keeps the types. *)
LEMMA AcceptType ==
  ASSUME TypeOK, NEW c \in Conns, NEW f \in ClientFds,
         NEW status \in {"up", "down"}, NEW ans \in {"none", "http", "101"},
         Accept(c, f, status, ans),
         websocket_descriptor' \in SUBSET ClientFds
  PROVE  TypeOK'
<1>1. poll_fds' \in Seq(Entry)
  BY PushType DEF Accept, TakeNext, TypeOK, SocketsType
<1>2. backlog' \in Seq(Conns)
  BY DEF Accept, TakeNext, TypeOK, SocketsType
<1>3. rx' \in [Conns -> Seq(Messages)]
  BY DEF Accept, TakeNext, TypeOK, SocketsType
<1> QED
  BY <1>1, <1>2, <1>3 DEF Accept, TakeNext, TypeOK, SocketsType

(* Every variable of the server keeps its type. *)
THEOREM TypeCorrect == Spec => []TypeOK
<1>1. Init => TypeOK
  BY DEF Init, SocketsInit, TypeOK, SocketsType, NoFd
<1>2. TypeOK /\ [Next]_vars => TypeOK'
  <2> SUFFICES ASSUME TypeOK, [Next]_vars PROVE TypeOK'
    OBVIOUS
  <2>1. ASSUME NEW c \in Conns, Connect(c) PROVE TypeOK'
    BY <2>1 DEF Connect, Dial, TypeOK, SocketsType
  <2>2. ASSUME NEW c \in Conns, NEW m \in Messages, Send(c, m) PROVE TypeOK'
    <3>1. rx' \in [Conns -> Seq(Messages)]
      BY <2>2 DEF Send, Deliver, TypeOK, SocketsType
    <3> QED
      BY <2>2, <3>1 DEF Send, Deliver, TypeOK, SocketsType
  <2>3. ASSUME NEW c \in Conns, Leave(c) PROVE TypeOK'
    BY <2>3 DEF Leave, Depart, TypeOK, SocketsType
  <2>4. CASE CreateServer
    <3>1. \A f \in {NoFd, ServerFd} : Append(poll_fds, NewEntry(f)) \in Seq(Entry)
      BY PushType DEF TypeOK, SocketsType
    <3> QED
      BY <2>4, <3>1 DEF CreateServer, TypeOK, SocketsType, client, sockets
  <2>5. CASE Poll
    <3>1. \A f : Revents(f) \in SUBSET Events
      BY DEF Revents
    <3>2. \A k \in 1 .. Len(poll_fds) :
            [fd |-> poll_fds[k].fd, revents |-> Revents(poll_fds[k].fd)] \in Entry
      BY <3>1, PositionType DEF TypeOK, SocketsType, Entry
    <3>3. poll_fds' \in Seq(Entry)
      BY <2>5, <3>2, PositionType DEF Poll, TypeOK, SocketsType
    <3> QED
      BY <2>5, <3>3 DEF Poll, TypeOK, SocketsType, client, sockets
  <2>6. CASE PollFails
    BY <2>6 DEF PollFails, TypeOK, SocketsType, client, sockets
  <2>7. CASE EndScan
    <3>1. \A k \in 1 .. Len(poll_fds) : NewEntry(poll_fds[k].fd) \in Entry
      BY PositionType DEF TypeOK, SocketsType, Entry, NewEntry
    <3>2. poll_fds' \in Seq(Entry)
      BY <2>7, <3>1, PositionType DEF EndScan, TypeOK, SocketsType
    <3> QED
      BY <2>7, <3>2 DEF EndScan, TypeOK, SocketsType, client, sockets
  <2>8. CASE Skip
    BY <2>8 DEF Skip, TypeOK, SocketsType, client, sockets
  <2>9. CASE Hangup
    BY <2>9, RemoveSocketType
       DEF Hangup, TypeOK, SocketsType, RemoveSocket, CloseFd, Shut
  <2>10. CASE AcceptFails
    <3>1. Append(poll_fds, NewEntry(NoFd)) \in Seq(Entry)
      BY PushType DEF TypeOK, SocketsType
    <3> QED
      BY <2>10, <3>1 DEF AcceptFails, TypeOK, SocketsType, client, sockets
  <2>11. CASE ReadClosed
    BY <2>11, RemoveSocketType
       DEF ReadClosed, TypeOK, SocketsType, RemoveSocket, CloseFd, Shut
  <2>12. ASSUME NEW c \in Conns, NEW f \in ClientFds, AcceptSilent(c, f)
         PROVE TypeOK'
    BY <2>12, AcceptType DEF AcceptSilent, TypeOK, SocketsType
  <2>13. ASSUME NEW c \in Conns, NEW f \in ClientFds, AcceptHttp(c, f)
         PROVE TypeOK'
    BY <2>13, AcceptType DEF AcceptHttp, TypeOK, SocketsType
  <2>14. ASSUME NEW c \in Conns, NEW f \in ClientFds, AcceptUpgrade(c, f)
         PROVE TypeOK'
    BY <2>14, AcceptType DEF AcceptUpgrade, TypeOK, SocketsType
  <2>15. ASSUME NEW c \in Conns, AcceptDies(c) PROVE TypeOK'
    BY <2>15 DEF AcceptDies, Die, TypeOK, SocketsType, client, sockets
  <2>16. ASSUME NEW c \in Conns, Ignore(c) PROVE TypeOK'
    BY <2>16 DEF Ignore, TypeOK, SocketsType, client, sockets
  <2>17. ASSUME NEW c \in Conns, Broadcast(c) PROVE TypeOK'
    <3>1. rx[c] \in Seq(Messages) /\ rx[c] # <<>>
      BY <2>17 DEF Broadcast, Peeked, TypeOK, SocketsType
    <3>4. Tail(rx[c]) \in Seq(Messages)
      BY <3>1
    <3>2. rx' \in [Conns -> Seq(Messages)]
      BY <2>17, <3>4 DEF Broadcast, TypeOK, SocketsType
    <3>3. heard' \in [Conns -> BOOLEAN]
      BY <2>17 DEF Broadcast, TypeOK, SocketsType
    <3> QED
      BY <2>17, <3>2, <3>3 DEF Broadcast, TypeOK, SocketsType
  <2>18. ASSUME NEW c \in Conns, BroadcastDies(c) PROVE TypeOK'
    BY <2>18 DEF BroadcastDies, Die, TypeOK, SocketsType, client, sockets
  <2>19. CASE UNCHANGED vars
    BY <2>19 DEF TypeOK, SocketsType, vars, client, sockets
  <2> QED
    BY <2>1, <2>2, <2>3, <2>4, <2>5, <2>6, <2>7, <2>8, <2>9, <2>10, <2>11,
       <2>12, <2>13, <2>14, <2>15, <2>16, <2>17, <2>18, <2>19
       DEF Next, Server, Client, AcceptOne, Over
<1> QED
  BY <1>1, <1>2, PTL DEF Spec

-----------------------------------------------------------------------------
(* A vector that only grows lists what it listed. *)
LEMMA PushKeepsListed ==
  ASSUME TypeOK, NEW g \in {NoFd, ServerFd} \cup ClientFds,
         poll_fds' = Append(poll_fds, NewEntry(g))
  PROVE  /\ \A f : Listed(f) # {} => Listed(f)' # {}
         /\ Listed(g)' # {}
<1>1. /\ Len(poll_fds) \in Nat
      /\ DOMAIN poll_fds' = 1 .. (Len(poll_fds) + 1)
      /\ \A k \in 1 .. Len(poll_fds) : poll_fds'[k] = poll_fds[k]
      /\ poll_fds'[Len(poll_fds) + 1] = NewEntry(g)
  BY DEF TypeOK, SocketsType
<1>2. poll_fds'[Len(poll_fds) + 1].fd = g
  BY <1>1 DEF NewEntry
<1>3. Listed(g)' # {}
  BY <1>1, <1>2 DEF Listed
<1>4. ASSUME NEW f, NEW k \in 1 .. Len(poll_fds), poll_fds[k].fd = f
      PROVE  Listed(f)' # {}
  BY <1>1, <1>4 DEF Listed
<1> QED
  BY <1>1, <1>3, <1>4, PositionType DEF Listed, TypeOK, SocketsType

(* Rewriting revents leaves every descriptor where it is. *)
LEMMA RefreshKeepsListed ==
  ASSUME TypeOK, Poll \/ EndScan
  PROVE  \A f : Listed(f)' = Listed(f)
<1>1. /\ DOMAIN poll_fds' = DOMAIN poll_fds
      /\ \A k \in DOMAIN poll_fds : poll_fds'[k].fd = poll_fds[k].fd
  BY DEF Poll, EndScan, NewEntry
<1> QED
  BY <1>1 DEF Listed

(* remove_socket unlists no descriptor but its own. *)
LEMMA RemoveKeepsListed ==
  ASSUME TypeOK, NEW g, RemoveSocket(g), NEW f, f # g, Listed(f) # {}
  PROVE  Listed(f)' # {}
<1>1. PICK k \in 1 .. Len(poll_fds) :
        poll_fds[k].fd = g /\ poll_fds' = Erase(poll_fds, k)
  BY PositionType DEF RemoveSocket, FirstAt, TypeOK, SocketsType
<1>2. PICK j \in 1 .. Len(poll_fds) : poll_fds[j].fd = f
  BY PositionType DEF Listed, TypeOK, SocketsType
<1>3. \E n \in 1 .. Len(poll_fds') : poll_fds'[n] = poll_fds[j]
  BY <1>1, <1>2, EraseKeeps DEF TypeOK, SocketsType
<1>4. DOMAIN poll_fds' = 1 .. Len(poll_fds')
  BY <1>1, EraseType DEF TypeOK, SocketsType
<1> QED
  BY <1>2, <1>3, <1>4 DEF Listed

(* remove_socket forgets no connection that stays open. *)
LEMMA RemoveKeepsWatched ==
  ASSUME TypeOK, Watched, NEW g, RemoveSocket(g), fd' = fd
  PROVE  Watched'
<1> SUFFICES ASSUME NEW c \in Conns, conn'[c] = "up"
             PROVE  Listed(fd[c])' # {}
  BY DEF Watched, Listed
<1>1. conn[c] = "up" /\ fd[c] # g
  BY DEF RemoveSocket, CloseFd, Shut, Holds
<1> QED
  BY <1>1, RemoveKeepsListed DEF Watched

(* An accepted connection is pushed with its own descriptor. *)
LEMMA AcceptKeepsWatched ==
  ASSUME TypeOK, Watched, NEW c \in Conns, NEW f \in ClientFds,
         NEW status, NEW ans, Accept(c, f, status, ans)
  PROVE  Watched'
<1>1. /\ \A g : Listed(g) # {} => Listed(g)' # {}
      /\ Listed(f)' # {}
  BY PushKeepsListed DEF Accept, TakeNext
<1> SUFFICES ASSUME NEW d \in Conns, conn'[d] = "up"
             PROVE  Listed(fd[d])' # {}
  BY DEF Watched, Listed
<1>2. CASE d = c
  <2>1. fd'[d] = f
    BY <1>2 DEF Accept, TakeNext, TypeOK, SocketsType
  <2> QED
    BY <1>1, <2>1 DEF Listed
<1>3. CASE d # c
  <2>1. conn[d] = "up" /\ fd'[d] = fd[d]
    BY <1>3 DEF Accept, TakeNext, TypeOK, SocketsType
  <2> QED
    BY <1>1, <2>1 DEF Watched, Listed
<1> QED
  BY <1>2, <1>3

(* The poll server never forgets a connection it accepted: its descriptor  *)
(* stays in poll_fds until it is closed, although entries are erased by    *)
(* descriptor and descriptors are reused.                                  *)
THEOREM NeverForgotten == Spec => []Watched
<1>1. Init => Watched
  BY DEF Init, SocketsInit, Watched
<1>2. TypeOK /\ Watched /\ [Next]_vars => Watched'
  <2> SUFFICES ASSUME TypeOK, Watched, [Next]_vars PROVE Watched'
    OBVIOUS
  <2>1. ASSUME NEW c \in Conns, Connect(c) PROVE Watched'
    BY <2>1 DEF Connect, Dial, Watched, Listed, TypeOK, SocketsType
  <2>2. ASSUME NEW c \in Conns, NEW m \in Messages, Send(c, m) PROVE Watched'
    BY <2>2 DEF Send, Deliver, Watched, Listed
  <2>3. ASSUME NEW c \in Conns, Leave(c) PROVE Watched'
    BY <2>3 DEF Leave, Depart, Watched, Listed
  <2>4. CASE CreateServer
    <3>1. \A f : Listed(f) # {} => Listed(f)' # {}
      BY <2>4, PushKeepsListed DEF CreateServer
    <3> QED
      BY <2>4, <3>1 DEF CreateServer, client, sockets, Watched, Listed
  <2>5. CASE Poll \/ EndScan
    <3>1. \A f : Listed(f)' = Listed(f)
      BY <2>5, RefreshKeepsListed
    <3>2. UNCHANGED <<conn, fd>>
      BY <2>5 DEF Poll, EndScan, client, sockets
    <3> QED
      BY <3>1, <3>2 DEF Watched
  <2>6. CASE PollFails
    BY <2>6 DEF PollFails, client, sockets, Watched, Listed
  <2>7. CASE Skip
    BY <2>7 DEF Skip, client, sockets, Watched, Listed
  <2>8. CASE Hangup
    BY <2>8, RemoveKeepsWatched DEF Hangup, RemoveSocket, CloseFd, Shut
  <2>9. CASE AcceptFails
    <3>1. \A f : Listed(f) # {} => Listed(f)' # {}
      BY <2>9, PushKeepsListed DEF AcceptFails
    <3> QED
      BY <2>9, <3>1 DEF AcceptFails, client, sockets, Watched, Listed
  <2>10. CASE ReadClosed
    BY <2>10, RemoveKeepsWatched DEF ReadClosed, RemoveSocket, CloseFd, Shut
  <2>11. ASSUME NEW c \in Conns, AcceptOne(c) PROVE Watched'
    <3>1. CASE AcceptDies(c)
      BY <3>1 DEF AcceptDies, Die, client, sockets, Watched, Listed
    <3>2. ASSUME NEW f \in ClientFds,
                 AcceptSilent(c, f) \/ AcceptHttp(c, f) \/ AcceptUpgrade(c, f)
          PROVE  Watched'
      BY <3>2, AcceptKeepsWatched DEF AcceptSilent, AcceptHttp, AcceptUpgrade
    <3> QED
      BY <2>11, <3>1, <3>2 DEF AcceptOne
  <2>12. ASSUME NEW c \in Conns, Ignore(c) PROVE Watched'
    BY <2>12 DEF Ignore, client, sockets, Watched, Listed
  <2>13. ASSUME NEW c \in Conns, Broadcast(c) PROVE Watched'
    BY <2>13 DEF Broadcast, Watched, Listed
  <2>14. ASSUME NEW c \in Conns, BroadcastDies(c) PROVE Watched'
    BY <2>14 DEF BroadcastDies, Die, client, sockets, Watched, Listed
  <2>15. CASE UNCHANGED vars
    BY <2>15 DEF vars, client, sockets, Watched, Listed
  <2> QED
    BY <2>1, <2>2, <2>3, <2>4, <2>5, <2>6, <2>7, <2>8, <2>9, <2>10, <2>11,
       <2>12, <2>13, <2>14, <2>15
       DEF Next, Server, Client, Over
<1> QED
  BY <1>1, <1>2, TypeCorrect, PTL DEF Spec

-----------------------------------------------------------------------------
(* What misdelivery rests on: the facts about sockets, that only accepted  *)
(* connections were answered or written to, and that every registered      *)
(* descriptor was registered by a handshake of its own.                    *)
TouchedAccepted ==
  \A c \in Conns :
    heard[c] \/ answer[c] = "101" => conn[c] \in {"up", "down"}

RegisteredJoined ==
  \A f \in websocket_descriptor :
    \E d \in Conns : answer[d] = "101" /\ fd[d] = f

DeliveryInv == /\ SocketsInv
               /\ TouchedAccepted
               /\ RegisteredJoined
               /\ MisdeliveryNeedsReuse

(* Steps that touch neither connections nor registrations. *)
LEMMA QuietKeepsDelivery ==
  ASSUME DeliveryInv,
         UNCHANGED <<conn, fd, backlog, answer, heard, websocket_descriptor>>
  PROVE  DeliveryInv'
BY BuffersKeepSockets DEF DeliveryInv, TouchedAccepted, RegisteredJoined,
                          MisdeliveryNeedsReuse

(* A close turns connections that were up, and only those, down. *)
LEMMA CloseKeepsDelivery ==
  ASSUME TypeOK, DeliveryInv, NEW g, CloseFd(g),
         UNCHANGED <<fd, backlog, answer, heard, websocket_descriptor>>
  PROVE  DeliveryInv'
<1>1. \A c \in Conns : /\ conn'[c] = conn[c] \/ (conn[c] = "up" /\ conn'[c] = "down")
                       /\ conn'[c] = "up" => conn[c] = "up"
  BY DEF CloseFd, Shut, Holds
<1>3. SocketsInv'
  BY ShutKeepsSockets DEF CloseFd, DeliveryInv, TypeOK
<1>4. TouchedAccepted' /\ RegisteredJoined'
  BY <1>1 DEF DeliveryInv, TouchedAccepted, RegisteredJoined
<1>5. MisdeliveryNeedsReuse'
  BY <1>1 DEF DeliveryInv, MisdeliveryNeedsReuse
<1> QED
  BY <1>3, <1>4, <1>5 DEF DeliveryInv

(* A connection that joins the queue was never in it. *)
LEMMA ConnectKeepsDelivery ==
  ASSUME TypeOK, DeliveryInv, NEW c \in Conns, Connect(c)
  PROVE  DeliveryInv'
<1>1. SocketsInv'
  BY DialKeepsSockets DEF Connect, DeliveryInv, TypeOK
<1>2. /\ conn[c] = "new"
      /\ conn'[c] = "queued"
      /\ \A d \in Conns : d # c => conn'[d] = conn[d]
  BY DEF Connect, Dial, TypeOK, SocketsType
<1>6. TouchedAccepted' /\ RegisteredJoined'
  BY <1>2 DEF DeliveryInv, TouchedAccepted, RegisteredJoined, Connect, Dial
<1>7. MisdeliveryNeedsReuse'
  BY <1>2 DEF DeliveryInv, MisdeliveryNeedsReuse, Connect, Dial
<1> QED
  BY <1>1, <1>6, <1>7 DEF DeliveryInv

(* An accepted connection leaves the queue with a descriptor nobody holds. *)
LEMMA AcceptKeepsDelivery ==
  ASSUME TypeOK, DeliveryInv, NEW c \in Conns, NEW f \in ClientFds,
         NEW status \in {"up", "down"}, NEW ans, Accept(c, f, status, ans),
         \/ UNCHANGED websocket_descriptor
         \/ /\ ans = "101"
            /\ websocket_descriptor' = websocket_descriptor \cup {f}
  PROVE  DeliveryInv'
<1>1. SocketsInv' /\ conn[c] = "queued"
  BY TakeNextKeepsSockets DEF Accept, DeliveryInv, TypeOK
<1>2. /\ conn'[c] = status /\ fd'[c] = f /\ answer'[c] = ans /\ heard' = heard
      /\ \A d \in Conns : d # c => /\ conn'[d] = conn[d]
                                    /\ fd'[d] = fd[d]
                                    /\ answer'[d] = answer[d]
  BY DEF Accept, TakeNext, TypeOK, SocketsType
<1>6. TouchedAccepted'
  BY <1>2 DEF DeliveryInv, TouchedAccepted
<1>7. ~heard[c] /\ answer[c] # "101"
  BY <1>1 DEF DeliveryInv, TouchedAccepted
<1>8. RegisteredJoined'
  <2>1. \A g \in websocket_descriptor : \E d \in Conns :
          answer[d] = "101" /\ fd[d] = g /\ d # c
    BY <1>7 DEF DeliveryInv, RegisteredJoined
  <2> QED
    BY <1>2, <2>1 DEF RegisteredJoined
<1>9. MisdeliveryNeedsReuse'
  <2>1. ASSUME NEW d \in Conns, heard[d], d # c, answer[d] # "101"
        PROVE  \E e \in Conns : answer[e] = "101" /\ conn[e] = "down"
                                 /\ fd[e] = fd[d] /\ e # c
    BY <2>1, <1>7 DEF DeliveryInv, MisdeliveryNeedsReuse
  <2> QED
    BY <1>2, <1>7, <2>1 DEF MisdeliveryNeedsReuse
<1> QED
  BY <1>1, <1>6, <1>8, <1>9 DEF DeliveryInv

(* A frame is written to the holders of registered descriptors: those that *)
(* did not register them themselves hold a descriptor another one left.    *)
LEMMA BroadcastKeepsDelivery ==
  ASSUME TypeOK, DeliveryInv, NEW c \in Conns, Broadcast(c)
  PROVE  DeliveryInv'
<1>1. /\ UNCHANGED <<conn, fd, backlog, answer, websocket_descriptor>>
      /\ \A d \in Conns : heard'[d] <=> (heard[d] \/ d \in Audience)
  BY DEF Broadcast, TypeOK, SocketsType
<1>2. \A d \in Audience : conn[d] = "up" /\ fd[d] \in websocket_descriptor
  BY DEF Audience
<1>3. SocketsInv' /\ RegisteredJoined'
  BY <1>1, BuffersKeepSockets DEF DeliveryInv, RegisteredJoined
<1>4. TouchedAccepted'
  BY <1>1, <1>2 DEF DeliveryInv, TouchedAccepted
<1>5. ASSUME NEW d \in Conns, d \in Audience, answer[d] # "101"
      PROVE  \E e \in Conns : /\ answer[e] = "101"
                              /\ conn[e] = "down"
                              /\ fd[e] = fd[d]
  <2>1. PICK e \in Conns : answer[e] = "101" /\ fd[e] = fd[d]
    BY <1>2, <1>5 DEF DeliveryInv, RegisteredJoined
  <2>2. conn[e] # "up"
    BY <1>2, <1>5, <2>1 DEF DeliveryInv, SocketsInv, OneHolder
  <2> QED
    BY <2>1, <2>2 DEF DeliveryInv, TouchedAccepted
<1>6. MisdeliveryNeedsReuse'
  BY <1>1, <1>5 DEF DeliveryInv, MisdeliveryNeedsReuse
<1> QED
  BY <1>3, <1>4, <1>6 DEF DeliveryInv

(* Whatever happens, the facts misdelivery rests on hold. *)
LEMMA DeliveryInvariant == Spec => []DeliveryInv
<1>1. Init => DeliveryInv
  BY SocketsInitially DEF Init, SocketsInit, DeliveryInv, TouchedAccepted,
                          RegisteredJoined, MisdeliveryNeedsReuse
<1>2. TypeOK /\ DeliveryInv /\ [Next]_vars => DeliveryInv'
  <2> SUFFICES ASSUME TypeOK, DeliveryInv, [Next]_vars PROVE DeliveryInv'
    OBVIOUS
  <2>1. ASSUME NEW c \in Conns, Client(c) PROVE DeliveryInv'
    <3>1. CASE Connect(c)
      BY <3>1, ConnectKeepsDelivery
    <3>2. CASE Leave(c) \/ \E m \in Messages : Send(c, m)
      BY <3>2, QuietKeepsDelivery DEF Leave, Depart, Send, Deliver
    <3> QED
      BY <2>1, <3>1, <3>2 DEF Client
  <2>2. CASE CreateServer \/ Poll \/ PollFails \/ EndScan \/ Skip \/ AcceptFails
    BY <2>2, QuietKeepsDelivery
       DEF CreateServer, Poll, PollFails, EndScan, Skip, AcceptFails, client,
           sockets
  <2>3. CASE Hangup \/ ReadClosed
    BY <2>3, CloseKeepsDelivery DEF Hangup, ReadClosed, RemoveSocket, CloseFd, Shut
  <2>4. ASSUME NEW c \in Conns, AcceptOne(c) PROVE DeliveryInv'
    <3>1. CASE AcceptDies(c)
      BY <3>1, QuietKeepsDelivery DEF AcceptDies, Die, client, sockets
    <3>2. ASSUME NEW f \in ClientFds,
                 AcceptSilent(c, f) \/ AcceptHttp(c, f) \/ AcceptUpgrade(c, f)
          PROVE  DeliveryInv'
      BY <3>2, AcceptKeepsDelivery DEF AcceptSilent, AcceptHttp, AcceptUpgrade
    <3> QED
      BY <2>4, <3>1, <3>2 DEF AcceptOne
  <2>5. ASSUME NEW c \in Conns, Ignore(c) \/ BroadcastDies(c) PROVE DeliveryInv'
    BY <2>5, QuietKeepsDelivery DEF Ignore, BroadcastDies, Die, client, sockets
  <2>6. ASSUME NEW c \in Conns, Broadcast(c) PROVE DeliveryInv'
    BY <2>6, BroadcastKeepsDelivery
  <2>7. CASE UNCHANGED vars
    BY <2>7, QuietKeepsDelivery DEF vars, client, sockets
  <2> QED
    BY <2>1, <2>2, <2>3, <2>4, <2>5, <2>6, <2>7 DEF Next, Server, Over
<1> QED
  BY <1>1, <1>2, TypeCorrect, PTL DEF Spec

(* A WebSocket frame reaches a connection that never upgraded only because *)
(* websocket_descriptor still holds the number a closed WebSocket had.     *)
THEOREM MisdeliveryOnlyByReuse == Spec => []MisdeliveryNeedsReuse
<1>1. DeliveryInv => MisdeliveryNeedsReuse
  BY DEF DeliveryInv
<1> QED
  BY <1>1, DeliveryInvariant, PTL

-----------------------------------------------------------------------------
(* What the snapshot rests on: the listening socket is polled first, so    *)
(* that connections are accepted before the scan has closed anything, and  *)
(* at that moment every client entry that reports something names an open  *)
(* connection.                                                             *)
ServerFirst == /\ pc = "create" => poll_fds = <<>>
               /\ \A k \in 1 .. Len(poll_fds) : poll_fds[k].fd = ServerFd => k = 1

FreshAtStart ==
  pc = "scan" /\ i = 1 =>
    \A k \in 1 .. Len(poll_fds) :
      /\ poll_fds[k].fd \in ClientFds
      /\ "IN" \in poll_fds[k].revents \/ "HUP" \in poll_fds[k].revents
      => ~Free(poll_fds[k].fd)

ScanInv == /\ ServerFirst
           /\ pc = "scan" => i >= 1
           /\ FreshAtStart
           /\ ReadinessHolds

(* Where remove_socket leaves the entries. *)
RemovedAt(g, j) ==
  /\ poll_fds[j].fd = g
  /\ \A n \in 1 .. (j - 1) : poll_fds[n].fd # g
  /\ Len(poll_fds') = Len(poll_fds) - 1
  /\ DOMAIN poll_fds' = 1 .. (Len(poll_fds) - 1)
  /\ \A n \in 1 .. (Len(poll_fds) - 1) :
       poll_fds'[n] = IF n < j THEN poll_fds[n] ELSE poll_fds[n + 1]

LEMMA RemovePositions ==
  ASSUME TypeOK, NEW g, RemoveSocket(g)
  PROVE  \E j \in 1 .. Len(poll_fds) : RemovedAt(g, j)
<1>1. PICK j \in 1 .. Len(poll_fds) : /\ FirstAt(poll_fds, g, j)
                                     /\ poll_fds' = Erase(poll_fds, j)
  BY PositionType DEF RemoveSocket, TypeOK, SocketsType
<1>2. /\ poll_fds' \in Seq(Entry)
      /\ Len(poll_fds') = Len(poll_fds) - 1
      /\ \A n \in 1 .. (Len(poll_fds) - 1) :
           poll_fds'[n] = IF n < j THEN poll_fds[n] ELSE poll_fds[n + 1]
  BY <1>1, EraseType DEF TypeOK, SocketsType
<1>3. DOMAIN poll_fds' = 1 .. (Len(poll_fds) - 1)
  BY <1>2
<1> QED
  BY <1>1, <1>2, <1>3 DEF FirstAt, RemovedAt

(* An erased entry is at or before the index of the scan; the entries      *)
(* still ahead are those that were ahead, one place further down.          *)
LEMMA RemoveKeepsScan ==
  ASSUME TypeOK, ScanInv, AtEntry, NEW g, g = poll_fds[i].fd, RemoveSocket(g),
         i' = i + 1, UNCHANGED <<fd, pc>>
  PROVE  ScanInv'
<1>0. PICK j \in 1 .. Len(poll_fds) : RemovedAt(g, j)
  BY RemovePositions, Zenon
<1>1. /\ poll_fds[j].fd = g
      /\ \A n \in 1 .. (j - 1) : poll_fds[n].fd # g
      /\ Len(poll_fds') = Len(poll_fds) - 1
      /\ DOMAIN poll_fds' = 1 .. (Len(poll_fds) - 1)
      /\ \A n \in 1 .. (Len(poll_fds) - 1) :
           poll_fds'[n] = IF n < j THEN poll_fds[n] ELSE poll_fds[n + 1]
  BY <1>0, Zenon DEF RemovedAt
<1>2. /\ pc = "scan" /\ i \in 1 .. Len(poll_fds) /\ Len(poll_fds) \in Nat
      /\ DOMAIN poll_fds = 1 .. Len(poll_fds)
  BY PositionType DEF AtEntry, ScanInv, TypeOK, SocketsType
<1>3. j <= i
  BY <1>1, <1>2
<1>4. ServerFirst'
  BY <1>1, <1>2 DEF ScanInv, ServerFirst
<1>5. (pc = "scan" => i >= 1)' /\ FreshAtStart'
  BY <1>2 DEF FreshAtStart
<1>6. ReadinessHolds'
  <2> SUFFICES ASSUME NEW k \in i' .. Len(poll_fds'), NEW c \in Conns,
                      Holds(c, poll_fds[k].fd)'
               PROVE  /\ "HUP" \in poll_fds'[k].revents => eof'[c] = "rst"
                      /\ "IN" \in poll_fds'[k].revents =>
                           Readable(c)' \/ Listed(poll_fds[k].fd)' # {k}
    BY DEF ReadinessHolds
  <2>1. /\ k + 1 \in i .. Len(poll_fds)
        /\ k \in 1 .. (Len(poll_fds) - 1)
        /\ poll_fds'[k] = poll_fds[k + 1]
    BY <1>1, <1>2, <1>3
  <2> DEFINE f == poll_fds[k + 1].fd
  <2>2. /\ conn[c] = "up" /\ fd[c] = f /\ f # g
        /\ rx'[c] = rx[c] /\ eof'[c] = eof[c]
    BY <2>1 DEF Holds, RemoveSocket, CloseFd, Shut
  <2>3. /\ "HUP" \in poll_fds[k + 1].revents => eof[c] = "rst"
        /\ "IN" \in poll_fds[k + 1].revents =>
             Readable(c) \/ Listed(f) # {k + 1}
    BY <1>2, <2>1, <2>2 DEF ScanInv, ReadinessHolds, Holds
  <2>4. ASSUME Listed(f) # {k + 1} PROVE Listed(poll_fds[k].fd)' # {k}
    <3>1. PICK m \in 1 .. Len(poll_fds) : poll_fds[m].fd = f /\ m # k + 1
      BY <2>1, <2>4, <1>2 DEF Listed
    <3>2. m # j
      BY <3>1, <2>2, <1>1
    <3>3. CASE m < j
      <4>1. /\ m \in 1 .. (Len(poll_fds) - 1)
            /\ m # k
            /\ poll_fds'[m].fd = poll_fds'[k].fd
        BY <1>1, <1>2, <1>3, <2>1, <3>1, <3>3
      <4> QED
        BY <1>1, <4>1 DEF Listed
    <3>4. CASE m > j
      <4>1. /\ m - 1 \in 1 .. (Len(poll_fds) - 1)
            /\ m - 1 # k
            /\ ~(m - 1 < j)
            /\ (m - 1) + 1 = m
        BY <1>1, <1>2, <3>1, <3>4
      <4>2. poll_fds'[m - 1].fd = poll_fds'[k].fd
        BY <1>1, <2>1, <3>1, <4>1
      <4> QED
        BY <1>1, <4>1, <4>2 DEF Listed
    <3> QED
      BY <3>1, <3>2, <3>3, <3>4
  <2> QED
    BY <2>1, <2>2, <2>3, <2>4 DEF Readable
<1> QED
  BY <1>4, <1>5, <1>6 DEF ScanInv

(* A scan that only moves its index on has less ahead of it. *)
LEMMA AdvanceKeepsScan ==
  ASSUME TypeOK, ScanInv, AtEntry, i' = i + 1,
         UNCHANGED <<client, poll_fds, pc>>
  PROVE  ScanInv'
<1>1. pc = "scan" /\ i \in 1 .. Len(poll_fds) /\ Len(poll_fds) \in Nat
  BY PositionType DEF AtEntry, ScanInv, TypeOK, SocketsType
<1>2. ServerFirst' /\ (pc = "scan" => i >= 1)' /\ FreshAtStart'
  BY <1>1 DEF ScanInv, ServerFirst, FreshAtStart
<1>3. i' .. Len(poll_fds') \subseteq i .. Len(poll_fds)
  BY <1>1
<1>4. ReadinessHolds'
  BY <1>1, <1>3 DEF ScanInv, ReadinessHolds, Holds, Readable, Listed, client,
                    sockets
<1> QED
  BY <1>2, <1>4 DEF ScanInv

(* Clients only add to what a socket has to report. *)
LEMMA ClientKeepsScan ==
  ASSUME TypeOK, ScanInv, UNCHANGED <<fd, poll_fds, pc, i>>,
         \A d \in Conns : /\ conn'[d] = "up" <=> conn[d] = "up"
                          /\ Readable(d) => Readable(d)'
                          /\ eof[d] = "rst" => eof'[d] = "rst"
  PROVE  ScanInv'
<1>1. \A d \in Conns : \A f : Holds(d, f)' <=> Holds(d, f)
  BY DEF Holds
<1>2. ServerFirst' /\ (pc = "scan" => i >= 1)'
  BY DEF ScanInv, ServerFirst
<1>3. FreshAtStart'
  BY <1>1 DEF ScanInv, FreshAtStart, Free
<1>4. ReadinessHolds'
  <2> SUFFICES ASSUME pc = "scan", NEW k \in i .. Len(poll_fds), NEW c \in Conns,
                      Holds(c, poll_fds[k].fd)'
               PROVE  /\ "HUP" \in poll_fds[k].revents => eof'[c] = "rst"
                      /\ "IN" \in poll_fds[k].revents =>
                           Readable(c)' \/ Listed(poll_fds[k].fd)' # {k}
    BY DEF ReadinessHolds
  <2>1. Holds(c, poll_fds[k].fd)
    BY DEF Holds
  <2>2. /\ "HUP" \in poll_fds[k].revents => eof[c] = "rst"
        /\ "IN" \in poll_fds[k].revents =>
             Readable(c) \/ Listed(poll_fds[k].fd) # {k}
    BY <2>1 DEF ScanInv, ReadinessHolds
  <2> QED
    BY <2>2 DEF Listed
<1> QED
  BY <1>2, <1>3, <1>4 DEF ScanInv

(* An exception, a failed poll and the end of a scan leave nothing ahead. *)
LEMMA EndKeepsScan ==
  ASSUME TypeOK, ScanInv, Die \/ PollFails \/ EndScan
  PROVE  ScanInv'
<1>1. pc' \notin {"create", "scan"}
  BY DEF Die, PollFails, EndScan
<1>2. CASE Die \/ PollFails
  BY <1>1, <1>2 DEF Die, PollFails, ScanInv, ServerFirst, FreshAtStart,
                    ReadinessHolds
<1>3. CASE EndScan
  <2>1. /\ Len(poll_fds') = Len(poll_fds)
        /\ \A k \in 1 .. Len(poll_fds) : poll_fds'[k].fd = poll_fds[k].fd
    BY <1>3, PositionType DEF EndScan, NewEntry, TypeOK, SocketsType
  <2> QED
    BY <1>1, <2>1 DEF ScanInv, ServerFirst, FreshAtStart, ReadinessHolds
<1> QED
  BY <1>2, <1>3

(* Entries pushed under a scan report nothing, and unlist nothing. *)
LEMMA PushPositions ==
  ASSUME TypeOK, NEW g \in {NoFd, ServerFd} \cup ClientFds,
         poll_fds' = Append(poll_fds, NewEntry(g))
  PROVE  /\ Len(poll_fds) \in Nat
         /\ Len(poll_fds') = Len(poll_fds) + 1
         /\ \A k \in 1 .. Len(poll_fds) : poll_fds'[k] = poll_fds[k]
         /\ poll_fds'[Len(poll_fds) + 1].fd = g
         /\ poll_fds'[Len(poll_fds) + 1].revents = {}
         /\ \A f : Listed(f) \subseteq Listed(f)'
<1>1. /\ Len(poll_fds) \in Nat
      /\ Len(poll_fds') = Len(poll_fds) + 1
      /\ DOMAIN poll_fds' = 1 .. (Len(poll_fds) + 1)
      /\ DOMAIN poll_fds = 1 .. Len(poll_fds)
      /\ \A k \in 1 .. Len(poll_fds) : poll_fds'[k] = poll_fds[k]
      /\ poll_fds'[Len(poll_fds) + 1] = NewEntry(g)
  BY DEF TypeOK, SocketsType
<1>2. \A f : Listed(f) \subseteq Listed(f)'
  BY <1>1 DEF Listed
<1> QED
  BY <1>1, <1>2 DEF NewEntry

(* What may be pushed under a scan: a failed accept, or a connection whose *)
(* descriptor was free; connections accepted before stay as they are.      *)
LEMMA PushKeepsScan ==
  ASSUME TypeOK, ScanInv, AtEntry, AtServer, NEW g \in {NoFd} \cup ClientFds,
         poll_fds' = Append(poll_fds, NewEntry(g)), i' = i + 1, pc' = pc,
         \A d \in Conns : \A f : Holds(d, f)' =>
           \/ Holds(d, f) /\ rx'[d] = rx[d] /\ eof'[d] = eof[d]
           \/ f = g /\ f \in ClientFds /\ Free(f)
  PROVE  ScanInv'
<1>1. /\ Len(poll_fds) \in Nat
      /\ Len(poll_fds') = Len(poll_fds) + 1
      /\ \A k \in 1 .. Len(poll_fds) : poll_fds'[k] = poll_fds[k]
      /\ poll_fds'[Len(poll_fds) + 1].fd = g
      /\ poll_fds'[Len(poll_fds) + 1].revents = {}
      /\ \A f : Listed(f) \subseteq Listed(f)'
  BY PushPositions
<1>2. pc = "scan" /\ i = 1 /\ i' = 2
  BY <1>1 DEF AtEntry, AtServer, ScanInv, ServerFirst, TypeOK, SocketsType
<1>3. g # ServerFd
  BY NumFdsAssumption DEF NoFd, ServerFd, ClientFds
<1>4. ServerFirst'
  BY <1>1, <1>2, <1>3 DEF ScanInv, ServerFirst
<1>5. ReadinessHolds'
  <2> SUFFICES ASSUME NEW k \in 2 .. (Len(poll_fds) + 1), NEW c \in Conns,
                      Holds(c, poll_fds[k].fd)'
               PROVE  /\ "HUP" \in poll_fds'[k].revents => eof'[c] = "rst"
                      /\ "IN" \in poll_fds'[k].revents =>
                           Readable(c)' \/ Listed(poll_fds[k].fd)' # {k}
    BY <1>1, <1>2 DEF ReadinessHolds
  <2>1. CASE k = Len(poll_fds) + 1
    BY <1>1, <2>1
  <2>2. CASE k \in 2 .. Len(poll_fds)
    <3>1. poll_fds'[k] = poll_fds[k] /\ k \in 1 .. Len(poll_fds)
      BY <1>1, <2>2
    <3>2. PICK f : f = poll_fds[k].fd
      OBVIOUS
    <3>3. Holds(c, f)'
      BY <3>1, <3>2 DEF Holds
    <3>4. CASE f \in ClientFds /\ Free(f)
      BY <1>2, <3>1, <3>4, <3>2 DEF ScanInv, FreshAtStart
    <3>5. CASE Holds(c, f) /\ rx'[c] = rx[c] /\ eof'[c] = eof[c]
      <4>1. /\ "HUP" \in poll_fds[k].revents => eof[c] = "rst"
            /\ "IN" \in poll_fds[k].revents => Readable(c) \/ Listed(f) # {k}
        BY <1>2, <2>2, <3>5, <3>2 DEF ScanInv, ReadinessHolds
      <4>2. Listed(f) # {k} => Listed(poll_fds[k].fd)' # {k}
        <5>1. k \in Listed(f)
          BY <3>1, <3>2, PositionType DEF Listed, TypeOK, SocketsType
        <5>2. Listed(f)' = Listed(poll_fds[k].fd)'
          BY <3>1, <3>2 DEF Listed
        <5> QED
          BY <1>1, <5>1, <5>2
      <4> QED
        BY <3>1, <3>5, <4>1, <4>2 DEF Readable
    <3> QED
      BY <3>3, <3>4, <3>5
  <2> QED
    BY <1>1, <2>1, <2>2
<1>6. (pc = "scan" => i >= 1)' /\ FreshAtStart'
  BY <1>2 DEF FreshAtStart
<1> QED
  BY <1>4, <1>5, <1>6 DEF ScanInv

(* The connection at the head of the queue gets a descriptor nobody holds. *)
LEMMA AcceptKeepsScan ==
  ASSUME TypeOK, ScanInv, NEW c \in Conns, NEW f \in ClientFds,
         NEW status, NEW ans, Accept(c, f, status, ans)
  PROVE  ScanInv'
<1>1. /\ fd'[c] = f
      /\ \A d \in Conns : d # c => /\ conn'[d] = conn[d]
                                    /\ fd'[d] = fd[d]
                                    /\ rx'[d] = rx[d]
                                    /\ eof'[d] = eof[d]
  BY DEF Accept, TakeNext, TypeOK, SocketsType
<1>2. Free(f)
  BY DEF Accept, TakeNext, LowestFree
<1>3. \A d \in Conns : \A g : Holds(d, g)' =>
        \/ Holds(d, g) /\ rx'[d] = rx[d] /\ eof'[d] = eof[d]
        \/ g = f /\ g \in ClientFds /\ Free(g)
  BY <1>1, <1>2 DEF Holds
<1>4. /\ AtEntry /\ AtServer
      /\ poll_fds' = Append(poll_fds, NewEntry(f)) /\ i' = i + 1 /\ pc' = pc
  BY DEF Accept, Ready
<1>5. f \in {NoFd} \cup ClientFds
  OBVIOUS
<1> QED
  BY <1>3, <1>4, <1>5, PushKeepsScan, Zenon

(* The one entry whose bytes a broadcast takes is the one the scan is at.  *)
LEMMA BroadcastKeepsScan ==
  ASSUME TypeOK, ScanInv, NEW c \in Conns, Broadcast(c)
  PROVE  ScanInv'
<1>1. /\ pc = "scan" /\ i \in 1 .. Len(poll_fds) /\ Len(poll_fds) \in Nat
      /\ i' = i + 1
      /\ UNCHANGED <<conn, fd, eof, poll_fds, pc>>
      /\ fd[c] = poll_fds[i].fd
  BY PositionType DEF Broadcast, Ready, AtEntry, Peeked, Holds, ScanInv,
                      TypeOK, SocketsType
<1>2. \A d \in Conns : d # c => rx'[d] = rx[d]
  BY DEF Broadcast, TypeOK, SocketsType
<1>3. ServerFirst' /\ (pc = "scan" => i >= 1)' /\ FreshAtStart'
  BY <1>1 DEF ScanInv, ServerFirst, FreshAtStart
<1>4. ReadinessHolds'
  <2> SUFFICES ASSUME NEW k \in (i + 1) .. Len(poll_fds), NEW d \in Conns,
                      Holds(d, poll_fds[k].fd)
               PROVE  /\ "HUP" \in poll_fds[k].revents => eof[d] = "rst"
                      /\ "IN" \in poll_fds[k].revents =>
                           Readable(d)' \/ Listed(poll_fds[k].fd) # {k}
    BY <1>1 DEF ReadinessHolds, Holds, Listed
  <2>1. /\ k \in i .. Len(poll_fds) /\ i # k
        /\ "HUP" \in poll_fds[k].revents => eof[d] = "rst"
        /\ "IN" \in poll_fds[k].revents =>
             Readable(d) \/ Listed(poll_fds[k].fd) # {k}
    BY <1>1 DEF ScanInv, ReadinessHolds
  <2>2. CASE d = c
    <3>1. i \in Listed(poll_fds[k].fd)
      BY <1>1, <2>2, PositionType DEF Holds, Listed, TypeOK, SocketsType
    <3> QED
      BY <2>1, <3>1
  <2>3. CASE d # c
    BY <1>1, <1>2, <2>1, <2>3 DEF Readable
  <2> QED
    BY <2>2, <2>3
<1> QED
  BY <1>3, <1>4 DEF ScanInv

(* poll reports what is so at that moment, of the one holder there is. *)
LEMMA PollKeepsScan ==
  ASSUME TypeOK, DeliveryInv, ScanInv, Poll
  PROVE  ScanInv'
<1>1. /\ pc = "poll" /\ pc' = "scan" /\ i' = 1
      /\ UNCHANGED <<conn, fd, rx, eof>>
      /\ Len(poll_fds) \in Nat
      /\ Len(poll_fds') = Len(poll_fds)
      /\ \A k \in 1 .. Len(poll_fds) :
           /\ poll_fds'[k].fd = poll_fds[k].fd
           /\ poll_fds'[k].revents = Revents(poll_fds[k].fd)
  BY PositionType DEF Poll, client, sockets, TypeOK, SocketsType
<1>2. ServerFirst' /\ (pc = "scan" => i >= 1)'
  BY <1>1 DEF ScanInv, ServerFirst
<1>3. FreshAtStart'
  <2> SUFFICES ASSUME NEW k \in 1 .. Len(poll_fds), poll_fds[k].fd \in ClientFds,
                      \/ "IN" \in Revents(poll_fds[k].fd)
                      \/ "HUP" \in Revents(poll_fds[k].fd)
               PROVE  ~Free(poll_fds[k].fd)
    BY <1>1 DEF FreshAtStart, Free, Holds
  <2>1. poll_fds[k].fd # ServerFd
    BY NumFdsAssumption DEF ServerFd, ClientFds
  <2> QED
    BY <2>1 DEF Revents, Raised, Free
<1>4. ReadinessHolds'
  <2> SUFFICES ASSUME NEW k \in 1 .. Len(poll_fds), NEW c \in Conns,
                      Holds(c, poll_fds[k].fd)
               PROVE  /\ "HUP" \in Revents(poll_fds[k].fd) => eof[c] = "rst"
                      /\ "IN" \in Revents(poll_fds[k].fd) => Readable(c)
    BY <1>1 DEF ReadinessHolds, Holds, Readable
  <2>1. poll_fds[k].fd # ServerFd
    <3>1. fd[c] \in {NoFd} \cup ClientFds
      BY DEF TypeOK, SocketsType
    <3> QED
      BY <3>1, NumFdsAssumption DEF Holds, NoFd, ServerFd, ClientFds
  <2>2. \A d \in Conns : Holds(d, poll_fds[k].fd) => d = c
    BY DEF DeliveryInv, SocketsInv, OneHolder, Holds
  <2> QED
    BY <2>1, <2>2 DEF Revents, Raised
<1> QED
  BY <1>2, <1>3, <1>4 DEF ScanInv

(* create_server pushes the first entry there is. *)
LEMMA CreateKeepsScan ==
  ASSUME TypeOK, ScanInv, CreateServer
  PROVE  ScanInv'
<1>1. poll_fds = <<>> /\ pc' = "poll"
  BY DEF CreateServer, ScanInv, ServerFirst
<1>2. Len(poll_fds') = 1
  BY <1>1, PushPositions DEF CreateServer
<1> QED
  BY <1>1, <1>2 DEF ScanInv, ServerFirst, FreshAtStart, ReadinessHolds

-----------------------------------------------------------------------------
(* Whatever happens, the facts the snapshot rests on hold. *)
LEMMA ScanInvariant == Spec => []ScanInv
<1>1. Init => ScanInv
  BY DEF Init, SocketsInit, ScanInv, ServerFirst, FreshAtStart, ReadinessHolds
<1>2. TypeOK /\ DeliveryInv /\ ScanInv /\ [Next]_vars => ScanInv'
  <2> SUFFICES ASSUME TypeOK, DeliveryInv, ScanInv, [Next]_vars PROVE ScanInv'
    OBVIOUS
  <2>1. ASSUME NEW c \in Conns, Connect(c) PROVE ScanInv'
    BY <2>1, ClientKeepsScan DEF Connect, Dial, Readable, TypeOK, SocketsType
  <2>2. ASSUME NEW c \in Conns, NEW m \in Messages, Send(c, m) PROVE ScanInv'
    <3>1. \A d \in Conns : rx[d] # <<>> => rx'[d] # <<>>
      <4>1. Append(rx[c], m) # <<>>
        <5>1. rx[c] \in Seq(Messages)
          BY DEF TypeOK, SocketsType
        <5>2. Len(Append(rx[c], m)) = Len(rx[c]) + 1 /\ Len(rx[c]) \in Nat
          BY <5>1
        <5> QED
          BY <5>2
      <4> QED
        BY <2>2, <4>1 DEF Send, Deliver, TypeOK, SocketsType
    <3> QED
      BY <2>2, <3>1, ClientKeepsScan DEF Send, Deliver, Readable
  <2>3. ASSUME NEW c \in Conns, Leave(c) PROVE ScanInv'
    <3>1. \A d \in Conns : /\ eof[d] # "no" => eof'[d] # "no"
                           /\ eof[d] = "rst" => eof'[d] = "rst"
      BY <2>3 DEF Leave, Depart, TypeOK, SocketsType
    <3> QED
      BY <2>3, <3>1, ClientKeepsScan DEF Leave, Depart, Readable
  <2>4. CASE CreateServer
    BY <2>4, CreateKeepsScan
  <2>5. CASE Poll
    BY <2>5, PollKeepsScan
  <2>6. CASE PollFails \/ EndScan
    BY <2>6, EndKeepsScan
  <2>7. CASE Skip
    BY <2>7, AdvanceKeepsScan DEF Skip
  <2>8. CASE Hangup
    BY <2>8, RemoveKeepsScan DEF Hangup, Hung, RemoveSocket, CloseFd, Shut
  <2>9. CASE AcceptFails
    BY <2>9, PushKeepsScan DEF AcceptFails, Ready, client, sockets, Holds
  <2>10. CASE ReadClosed
    BY <2>10, RemoveKeepsScan DEF ReadClosed, Ready, RemoveSocket, CloseFd, Shut
  <2>11. ASSUME NEW c \in Conns, AcceptOne(c) PROVE ScanInv'
    <3>1. CASE AcceptDies(c)
      BY <3>1, EndKeepsScan DEF AcceptDies
    <3>2. ASSUME NEW f \in ClientFds,
                 AcceptSilent(c, f) \/ AcceptHttp(c, f) \/ AcceptUpgrade(c, f)
          PROVE  ScanInv'
      BY <3>2, AcceptKeepsScan DEF AcceptSilent, AcceptHttp, AcceptUpgrade
    <3> QED
      BY <2>11, <3>1, <3>2 DEF AcceptOne
  <2>12. ASSUME NEW c \in Conns, Ignore(c) PROVE ScanInv'
    BY <2>12, AdvanceKeepsScan DEF Ignore, Ready
  <2>13. ASSUME NEW c \in Conns, Broadcast(c) PROVE ScanInv'
    BY <2>13, BroadcastKeepsScan
  <2>14. ASSUME NEW c \in Conns, BroadcastDies(c) PROVE ScanInv'
    BY <2>14, EndKeepsScan DEF BroadcastDies
  <2>15. CASE UNCHANGED vars
    BY <2>15 DEF vars, client, sockets, ScanInv, ServerFirst, FreshAtStart,
                 ReadinessHolds, Free, Holds, Readable, Listed
  <2> QED
    BY <2>1, <2>2, <2>3, <2>4, <2>5, <2>6, <2>7, <2>8, <2>9, <2>10, <2>11,
       <2>12, <2>13, <2>14, <2>15
       DEF Next, Server, Client, Over
<1> QED
  BY <1>1, <1>2, TypeCorrect, DeliveryInvariant, PTL DEF Spec

(* What poll reported is still true of whoever holds the descriptor when   *)
(* the scan reaches the entry: a reused descriptor inherits no hang-up.    *)
THEOREM SnapshotStaysTrue == Spec => []ReadinessHolds
<1>1. ScanInv => ReadinessHolds
  BY DEF ScanInv
<1> QED
  BY <1>1, ScanInvariant, PTL

(* The scan closes a connection its client has left alone only when an     *)
(* entry left behind by an earlier HTTP close names the same descriptor.   *)
THEOREM LiveDropOnlyByDuplicate == Spec => LiveDropNeedsDuplicate
<1> DEFINE Dropped(c) == conn[c] = "up" /\ conn'[c] = "down" /\ eof[c] = "no"
           Twice(c) == \E j, k \in Listed(fd[c]) : j # k
<1>1. ASSUME TypeOK, DeliveryInv, ScanInv, [Next]_vars, NEW c \in Conns, Dropped(c)
      PROVE  Twice(c)
  <2>1. conn' # conn
    BY <1>1
  <2>2. \A d \in Conns : ~Connect(d)
    BY <1>1 DEF Connect, Dial, TypeOK, SocketsType
  <2>3. \A d \in Conns : ~AcceptOne(d)
    <3>1. ASSUME NEW d \in Conns, AcceptOne(d) PROVE FALSE
      <4>1. PICK f, status, ans : Accept(d, f, status, ans)
        BY <2>1, <3>1
           DEF AcceptOne, AcceptDies, Die, client, sockets, AcceptSilent,
               AcceptHttp, AcceptUpgrade
      <4>2. d = backlog[1] /\ 1 \in 1 .. Len(backlog)
        BY <1>1, <4>1 DEF Accept, TakeNext, TypeOK, SocketsType
      <4>3. conn[d] = "queued"
        BY <1>1, <4>2 DEF DeliveryInv, SocketsInv, QueueInv
      <4> QED
        BY <1>1, <4>1, <4>3 DEF Accept, TakeNext, TypeOK, SocketsType
    <3> QED
      BY <3>1
  <2>4. Hangup \/ ReadClosed
    BY <1>1, <2>1, <2>2, <2>3
       DEF Next, Server, Client, Over, vars, client, sockets, CreateServer,
           Poll, PollFails, EndScan, Skip, AcceptFails, Ignore, Broadcast,
           BroadcastDies, Die, Send, Deliver, Leave, Depart
  <2>5. /\ i \in i .. Len(poll_fds) /\ i \in 1 .. Len(poll_fds)
        /\ pc = "scan"
        /\ Holds(c, poll_fds[i].fd)
    BY <1>1, <2>4, PositionType
       DEF Hangup, Hung, ReadClosed, Ready, AtEntry, RemoveSocket, CloseFd,
           Shut, ScanInv, TypeOK, SocketsType
  <2>6. /\ "HUP" \in poll_fds[i].revents => eof[c] = "rst"
        /\ "IN" \in poll_fds[i].revents =>
             Readable(c) \/ Listed(poll_fds[i].fd) # {i}
    BY <1>1, <2>5 DEF ScanInv, ReadinessHolds
  <2>7. CASE Hangup
    BY <1>1, <2>6, <2>7 DEF Hangup, Hung, Event
  <2>8. CASE ReadClosed
    <3>1. Listed(fd[c]) # {i} /\ i \in Listed(fd[c])
      BY <1>1, <2>5, <2>6, <2>8, PositionType
         DEF ReadClosed, Ready, Event, Peeked, Readable, Holds, Listed, TypeOK,
             SocketsType
    <3> QED
      BY <3>1
  <2> QED
    BY <2>4, <2>7, <2>8
<1>2. TypeOK /\ DeliveryInv /\ ScanInv /\ [Next]_vars =>
        [\A c \in Conns :
           /\ conn[c] = "up" /\ conn'[c] = "down" /\ eof[c] = "no"
           => \E j, k \in Listed(fd[c]) : j # k]_vars
  BY <1>1
<1> QED
  BY <1>2, TypeCorrect, DeliveryInvariant, ScanInvariant, PTL
     DEF Spec, LiveDropNeedsDuplicate
-----------------------------------------------------------------------------
(* The poll server implements Connections.  Nothing waits between a recv   *)
(* and its answer, so that unread is what the socket holds.                *)
Asked == [c \in Conns |-> rx[c] # <<>>]

Hidden == <<conn, Asked, answer, heard>>

(* Only the callback of an accept answers, and it runs once. *)
QueuedUnanswered ==
  \A c \in Conns : conn[c] \in {"new", "queued"} => answer[c] = "none"

(* What Accept does to the connection it takes, in all its uses. *)
LEMMA AcceptsOne ==
  ASSUME TypeOK, DeliveryInv, NEW c \in Conns, NEW f \in ClientFds,
         NEW status \in {"up", "down"}, NEW ans, Accept(c, f, status, ans)
  PROVE  /\ conn[c] = "queued"
         /\ conn' = [conn EXCEPT ![c] = status]
         /\ rx' = [rx EXCEPT ![c] = <<>>]
         /\ answer' = [answer EXCEPT ![c] = ans]
         /\ heard' = heard
<1>1. conn[c] = "queued"
  BY TakeNextKeepsSockets DEF Accept, DeliveryInv, TypeOK
<1> QED
  BY <1>1 DEF Accept

LEMMA AcceptForms ==
  ASSUME NEW c \in Conns, AcceptOne(c), ~AcceptDies(c)
  PROVE  \E f \in ClientFds, status \in {"up", "down"}, ans \in {"none", "http", "101"} :
           /\ Accept(c, f, status, ans)
           /\ ans # "none" => rx[c] # <<>>
<1>1. PICK f \in ClientFds : AcceptSilent(c, f) \/ AcceptHttp(c, f) \/ AcceptUpgrade(c, f)
  BY DEF AcceptOne
<1>2. CASE AcceptSilent(c, f)
  BY <1>2 DEF AcceptSilent
<1>3. CASE AcceptHttp(c, f)
  BY <1>3 DEF AcceptHttp, Asks
<1>4. CASE AcceptUpgrade(c, f)
  BY <1>4 DEF AcceptUpgrade, Asks
<1> QED
  BY <1>1, <1>2, <1>3, <1>4

(* A close takes the one holder of the descriptor down, or nobody. *)
LEMMA ClosesOne ==
  ASSUME TypeOK, DeliveryInv, Hangup \/ ReadClosed
  PROVE  /\ UNCHANGED <<answer, heard>>
         /\ \/ UNCHANGED <<conn, rx>>
            \/ \E c \in Conns : /\ conn[c] = "up"
                                /\ conn' = [conn EXCEPT ![c] = "down"]
                                /\ rx' = [rx EXCEPT ![c] = <<>>]
<1> DEFINE f == poll_fds[i].fd
<1>1. Shut(f) /\ UNCHANGED <<answer, heard>>
  BY DEF Hangup, ReadClosed, RemoveSocket, CloseFd
<1> HIDE DEF f
<1>2. CASE \A c \in Conns : ~Holds(c, f)
  BY <1>1, <1>2 DEF Shut, TypeOK, SocketsType
<1>3. ASSUME NEW c \in Conns, Holds(c, f)
      PROVE  /\ conn[c] = "up"
             /\ conn' = [conn EXCEPT ![c] = "down"]
             /\ rx' = [rx EXCEPT ![c] = <<>>]
  <2>1. \A d \in Conns : Holds(d, f) <=> d = c
    BY <1>3 DEF DeliveryInv, SocketsInv, OneHolder, Holds
  <2> QED
    BY <1>1, <1>3, <2>1 DEF Shut, Holds, TypeOK, SocketsType
<1> QED
  BY <1>1, <1>2, <1>3

LEMMA QueuedUnansweredInvariant == Spec => []QueuedUnanswered
<1>1. Init => QueuedUnanswered
  BY DEF Init, QueuedUnanswered
<1>2. TypeOK /\ DeliveryInv /\ QueuedUnanswered /\ [Next]_vars => QueuedUnanswered'
  <2> SUFFICES ASSUME TypeOK, DeliveryInv, QueuedUnanswered, [Next]_vars
               PROVE  QueuedUnanswered'
    OBVIOUS
  <2>1. ASSUME NEW c \in Conns, Client(c) PROVE QueuedUnanswered'
    BY <2>1 DEF Client, Connect, Dial, Leave, Depart, Send, Deliver, QueuedUnanswered,
                TypeOK, SocketsType
  <2>2. CASE CreateServer \/ Poll \/ PollFails \/ EndScan \/ Skip \/ AcceptFails
    BY <2>2 DEF CreateServer, Poll, PollFails, EndScan, Skip, AcceptFails, client,
                sockets, QueuedUnanswered
  <2>3. CASE Hangup \/ ReadClosed
    BY <2>3, ClosesOne DEF QueuedUnanswered, TypeOK, SocketsType
  <2>4. ASSUME NEW c \in Conns, AcceptOne(c), ~AcceptDies(c) PROVE QueuedUnanswered'
    <3>1. PICK f \in ClientFds, status \in {"up", "down"}, ans \in {"none", "http", "101"} :
            Accept(c, f, status, ans)
      BY <2>4, AcceptForms
    <3>2. conn' = [conn EXCEPT ![c] = status] /\ answer' = [answer EXCEPT ![c] = ans]
      BY <3>1, AcceptsOne
    <3> QED
      BY <3>2 DEF QueuedUnanswered, TypeOK, SocketsType
  <2>5. ASSUME NEW c \in Conns,
               AcceptDies(c) \/ Ignore(c) \/ Broadcast(c) \/ BroadcastDies(c)
        PROVE  QueuedUnanswered'
    BY <2>5 DEF AcceptDies, Ignore, Broadcast, BroadcastDies, Die, client, sockets,
                QueuedUnanswered
  <2>6. CASE UNCHANGED vars
    BY <2>6 DEF vars, client, sockets, QueuedUnanswered
  <2> QED
    BY <2>1, <2>2, <2>3, <2>4, <2>5, <2>6 DEF Next, Server, Over
<1> QED
  BY <1>1, <1>2, TypeCorrect, DeliveryInvariant, PTL DEF Spec

LEMMA ClientRefines ==
  ASSUME TypeOK, NEW c \in Conns, Client(c)
  PROVE  Abstract!Next \/ UNCHANGED Hidden
<1>1. CASE Connect(c)
  <2>1. Abstract!Connect(c)
    BY <1>1 DEF Connect, Dial, Abstract!Connect
  <2> QED
    BY <2>1 DEF Abstract!Next
<1>2. ASSUME NEW m \in Messages, Send(c, m) PROVE Abstract!Next
  <2>1. /\ conn[c] \in {"queued", "up"} /\ UNCHANGED <<conn, answer, heard>>
        /\ rx' = [rx EXCEPT ![c] = Append(rx[c], m)] /\ rx[c] \in Seq(Messages)
    BY <1>2 DEF Send, Deliver, TypeOK, SocketsType
  <2>2. Append(rx[c], m) # <<>>
    BY <2>1
  <2>3. Asked' = [Asked EXCEPT ![c] = TRUE]
    BY <2>1, <2>2 DEF Asked, TypeOK, SocketsType
  <2>4. Abstract!Ask(c)
    BY <2>1, <2>3 DEF Abstract!Ask, Asked
  <2> QED
    BY <2>4 DEF Abstract!Next
<1>3. CASE Leave(c)
  BY <1>3 DEF Leave, Depart, Asked, Hidden
<1> QED
  BY <1>1, <1>2, <1>3 DEF Client

(* A connection served to the end of what it sent. *)
LEMMA ServeRefines ==
  ASSUME TypeOK, NEW c \in Conns, conn[c] \in {"queued", "up"},
         NEW status \in {"up", "down"}, NEW ans \in {"none", "http", "101"},
         ans # answer[c] => answer[c] = "none" /\ rx[c] # <<>>,
         conn' = [conn EXCEPT ![c] = status],
         rx' = [rx EXCEPT ![c] = <<>>],
         answer' = [answer EXCEPT ![c] = ans],
         heard' = heard
  PROVE  Abstract!Next
<1>1. Asked' = [Asked EXCEPT ![c] = FALSE]
  BY DEF Asked, TypeOK, SocketsType
<1>2. Abstract!Serve(c)
  BY <1>1 DEF Abstract!Serve, Asked
<1> QED
  BY <1>2 DEF Abstract!Next

LEMMA BroadcastRefines ==
  ASSUME TypeOK, NEW c \in Conns, Broadcast(c)
  PROVE  Abstract!Next
<1> DEFINE left == rx'[c] # <<>>
<1>1. conn[c] = "up" /\ rx[c] # <<>>
  BY DEF Broadcast, Peeked, Holds
<1>2. Asked' = [Asked EXCEPT ![c] = left]
  BY DEF Broadcast, Asked, TypeOK, SocketsType
<1>3. /\ Audience \in SUBSET {d \in Conns : conn[d] = "up"}
      /\ heard' = [d \in Conns |-> heard[d] \/ d \in Audience]
      /\ UNCHANGED <<conn, answer>>
  BY DEF Broadcast, Audience
<1>4. left \in BOOLEAN
  OBVIOUS
<1> HIDE DEF left
<1>5. Abstract!Relay(c)
  BY <1>1, <1>2, <1>3, <1>4 DEF Abstract!Relay, Asked
<1> QED
  BY <1>5 DEF Abstract!Next

(* The poll server keeps the promise every handler makes. *)
THEOREM Implements == Spec => ImplementsConnections
<1>1. ASSUME Init PROVE Abstract!Init
  <2>1. \A c \in Conns : rx[c] = <<>>
    BY <1>1 DEF Init, SocketsInit
  <2>2. Asked = [c \in Conns |-> FALSE]
    BY <2>1, Zenon DEF Asked
  <2>3. /\ conn = [c \in Conns |-> "new"] /\ answer = [c \in Conns |-> "none"]
        /\ heard = [c \in Conns |-> FALSE]
    BY <1>1 DEF Init, SocketsInit
  <2> QED
    BY <2>2, <2>3, Zenon DEF Asked, Abstract!Init
<1>2. TypeOK /\ DeliveryInv /\ QueuedUnanswered /\ [Next]_vars
        => [Abstract!Next]_Abstract!cvars
  <2> SUFFICES ASSUME TypeOK, DeliveryInv, QueuedUnanswered, [Next]_vars
               PROVE  Abstract!Next \/ UNCHANGED Hidden
    BY DEF Abstract!cvars, Asked, Hidden
  <2>1. CASE CreateServer \/ Poll \/ PollFails \/ EndScan \/ Skip \/ AcceptFails
    BY <2>1 DEF CreateServer, Poll, PollFails, EndScan, Skip, AcceptFails, client,
                sockets, Hidden, Asked
  <2>2. CASE Hangup \/ ReadClosed
    <3>1. CASE UNCHANGED <<conn, rx>>
      BY <2>2, <3>1, ClosesOne DEF Hidden, Asked
    <3>2. ASSUME NEW c \in Conns, conn[c] = "up",
                 conn' = [conn EXCEPT ![c] = "down"], rx' = [rx EXCEPT ![c] = <<>>]
          PROVE  Abstract!Next
      <4>1. /\ answer' = [answer EXCEPT ![c] = answer[c]] /\ heard' = heard
            /\ answer[c] \in {"none", "http", "101"}
        BY <2>2, ClosesOne DEF TypeOK
      <4> QED
        BY <3>2, <4>1, ServeRefines
    <3> QED
      BY <2>2, <3>1, <3>2, ClosesOne
  <2>3. ASSUME NEW c \in Conns, AcceptOne(c), ~AcceptDies(c) PROVE Abstract!Next
    <3>1. PICK f \in ClientFds, status \in {"up", "down"}, ans \in {"none", "http", "101"} :
            Accept(c, f, status, ans) /\ (ans # "none" => rx[c] # <<>>)
      BY <2>3, AcceptForms
    <3>2. /\ conn[c] = "queued"
          /\ conn' = [conn EXCEPT ![c] = status]
          /\ rx' = [rx EXCEPT ![c] = <<>>]
          /\ answer' = [answer EXCEPT ![c] = ans]
          /\ heard' = heard
      BY <3>1, AcceptsOne
    <3>3. answer[c] = "none"
      BY <3>2 DEF QueuedUnanswered
    <3> QED
      BY <3>1, <3>2, <3>3, ServeRefines
  <2>4. ASSUME NEW c \in Conns, AcceptDies(c) \/ Ignore(c) \/ BroadcastDies(c)
        PROVE  UNCHANGED Hidden
    BY <2>4 DEF AcceptDies, Ignore, BroadcastDies, Die, client, sockets, Hidden, Asked
  <2>5. CASE UNCHANGED vars
    BY <2>5 DEF vars, client, sockets, Hidden, Asked
  <2> QED
    BY <2>1, <2>2, <2>3, <2>4, <2>5, ClientRefines, BroadcastRefines DEF Next, Server, Over
<1> QED
  BY <1>1, <1>2, TypeCorrect, DeliveryInvariant, QueuedUnansweredInvariant, PTL
     DEF Spec, ImplementsConnections, Abstract!Spec
=============================================================================
