--------------------------- MODULE ThreadServerProofs ---------------------------
(* Proofs about ThreadServer, for every value of its constants. *)
EXTENDS ThreadServer, SocketsProofs, FiniteSetTheorems

(* A thread that was asked for is one the system may have. *)
LEMMA SpawnBound ==
  ASSUME strays \in Nat, CanSpawn
  PROVE  strays + 1 \in 0 .. MaxThreads
<1>1. IsFiniteSet(InFlight)
  <2>1. InFlight \subseteq Conns
    BY DEF InFlight
  <2> QED
    BY <2>1, ConnsAssumption, FS_Subset
<1>2. Cardinality(InFlight) \in Nat
  BY <1>1, FS_CardinalityType
<1> QED
  BY <1>2, MaxThreadsAssumption DEF CanSpawn

(* A thread holds the descriptor it works on, and answers on it only.     *)
ThreadInv == SocketsInv /\ ThreadOwnsFd

LEMMA InsertType ==
  ASSUME TypeOK, ThreadInv, NEW c \in Conns, At(c, "insert"),
         registered' = [registered EXCEPT ![mine[c]] = @ \cup {fd[c]}]
  PROVE  registered' \in Seq(SUBSET ClientFds)
<1>1. fd[c] \in ClientFds
  BY DEF At, ThreadInv, ThreadOwnsFd, InFlight, Holds, SocketsInv, UpHasFd
<1>2. registered \in [1 .. Len(registered) -> SUBSET ClientFds] /\ Len(registered) \in Nat
  BY DEF TypeOK
<1>3. registered' \in [1 .. Len(registered) -> SUBSET ClientFds]
  BY <1>1, <1>2
<1> QED
  BY <1>2, <1>3

(* Every step of a client keeps the types and the ownership. *)
LEMMA ClientKeeps ==
  ASSUME TypeOK, ThreadInv, NEW c \in Conns, Client(c)
  PROVE  TypeOK' /\ ThreadInv'
<1>1. CASE Connect(c)
  <2>1. SocketsType(Kinds)' /\ SocketsInv'
    BY <1>1, DialKeepsSockets DEF Connect, manager, TypeOK, ThreadInv
  <2>2. ThreadOwnsFd'
    BY <1>1 DEF Connect, Dial, ThreadInv, ThreadOwnsFd, InFlight, Holds, TypeOK, SocketsType
  <2> QED
    BY <1>1, <2>1, <2>2 DEF Connect, manager, TypeOK, ThreadInv
<1>2. ASSUME NEW m \in Kinds, Send(c, m) PROVE TypeOK' /\ ThreadInv'
  <2>1. SocketsType(Kinds)' /\ SocketsInv'
    BY <1>2, DeliverType, BuffersKeepSockets DEF Send, Deliver, TypeOK, ThreadInv
  <2>2. ThreadOwnsFd'
    BY <1>2 DEF Send, Deliver, ThreadInv, ThreadOwnsFd, InFlight, Holds
  <2> QED
    BY <1>2, <2>1, <2>2 DEF Send, manager, TypeOK, ThreadInv
<1>3. CASE Leave(c)
  <2>1. SocketsType(Kinds)' /\ SocketsInv'
    BY <1>3, DepartType, BuffersKeepSockets DEF Leave, Depart, TypeOK, ThreadInv
  <2>2. ThreadOwnsFd'
    BY <1>3 DEF Leave, Depart, ThreadInv, ThreadOwnsFd, InFlight, Holds
  <2> QED
    BY <1>3, <2>1, <2>2 DEF Leave, manager, TypeOK, ThreadInv
<1> QED
  BY <1>1, <1>2, <1>3 DEF Client

(* Every step of the main thread does. *)
LEMMA MainKeeps ==
  ASSUME TypeOK, ThreadInv, Main
  PROVE  TypeOK' /\ ThreadInv'
<1>1. CASE CreateServer \/ SpawnFails
  <2>1. SocketsInv'
    BY <1>1, BuffersKeepSockets DEF CreateServer, SpawnFails, Die, sockets, ThreadInv
  <2>2. ThreadOwnsFd'
    BY <1>1 DEF CreateServer, SpawnFails, Die, sockets, ThreadInv, ThreadOwnsFd, InFlight,
                Holds
  <2> QED
    BY <1>1, <2>1, <2>2
       DEF CreateServer, SpawnFails, Die, sockets, manager, TypeOK, SocketsType, ThreadInv
<1>2. CASE AcceptFails
  <2>1. SocketsInv'
    BY <1>2, BuffersKeepSockets DEF AcceptFails, sockets, ThreadInv
  <2>2. ThreadOwnsFd'
    BY <1>2 DEF AcceptFails, sockets, ThreadInv, ThreadOwnsFd, InFlight, Holds
  <2>3. strays' \in 0 .. MaxThreads
    BY <1>2, SpawnBound, MaxThreadsAssumption DEF AcceptFails, TypeOK
  <2> QED
    BY <1>2, <2>1, <2>2, <2>3
       DEF AcceptFails, sockets, manager, TypeOK, SocketsType, ThreadInv
<1>3. ASSUME NEW c \in Conns, NEW f \in ClientFds, Accept(c, f)
      PROVE  TypeOK' /\ ThreadInv'
  <2>1. SocketsType(Kinds)' /\ SocketsInv'
    BY <1>3, TakeNextKeepsSockets DEF Accept, TypeOK, ThreadInv
  <2>2. ThreadOwnsFd'
    BY <1>3 DEF Accept, TakeNext, Goes, ThreadInv, ThreadOwnsFd, InFlight, Holds, TypeOK,
                SocketsType
  <2> QED
    BY <1>3, <2>1, <2>2 DEF Accept, Goes, manager, TypeOK, ThreadInv
<1> QED
  BY <1>1, <1>2, <1>3 DEF Main

(* A thread that closes its descriptor closes its own connection only. *)
LEMMA CloseKeeps ==
  ASSUME TypeOK, ThreadInv, NEW c \in Conns, Close(c)
  PROVE  TypeOK' /\ ThreadInv'
<1>1. SocketsType(Kinds)' /\ SocketsInv'
  BY ShutKeepsSockets DEF Close, TypeOK, ThreadInv
<1>2. Holds(c, fd[c])
  BY DEF Close, At, ThreadInv, ThreadOwnsFd, InFlight
<1>3. \A d \in Conns : Holds(d, fd[c]) => d = c
  BY <1>2 DEF ThreadInv, SocketsInv, OneHolder, Holds
<1>4. ThreadOwnsFd'
  <2> SUFFICES ASSUME NEW d \in Conns, thread'[d] \notin {"none", "done"}
               PROVE  conn'[d] = "up"
    BY DEF ThreadOwnsFd, InFlight, Holds
  <2>1. d # c /\ thread[d] \notin {"none", "done"}
    BY DEF Close, Goes, TypeOK
  <2> QED
    BY <1>3, <2>1 DEF Close, Shut, ThreadInv, ThreadOwnsFd, InFlight, Holds
<1> QED
  BY <1>1, <1>4 DEF Close, Goes, manager, TypeOK, ThreadInv

(* A thread that moves on leaving the connections as they are. *)
LEMMA QuietThreadKeeps ==
  ASSUME TypeOK, ThreadInv, NEW c \in Conns, NEW to, Goes(c, to),
         thread[c] \notin {"none", "done"}, UNCHANGED <<conn, fd, backlog>>
  PROVE  ThreadInv'
<1>1. SocketsInv'
  BY BuffersKeepSockets DEF ThreadInv
<1>2. ThreadOwnsFd'
  BY DEF Goes, ThreadInv, ThreadOwnsFd, InFlight, Holds, TypeOK
<1> QED
  BY <1>1, <1>2 DEF ThreadInv

(* Every step of a request thread keeps the types and the ownership. *)
LEMMA ThreadKeeps ==
  ASSUME TypeOK, ThreadInv, NEW c \in Conns, Thread(c)
  PROVE  TypeOK' /\ ThreadInv'
<1>1. CASE Receive(c)
  <2>1. SocketsType(Kinds)'
    BY <1>1, TakeType DEF Receive, TypeOK
  <2>2. Head(rx[c]) \in Kinds
    <3>1. rx[c] \in Seq(Kinds) /\ rx[c] # <<>>
      BY <1>1 DEF Receive, TypeOK, SocketsType
    <3> QED
      BY <3>1
  <2>3. ThreadInv'
    BY <1>1, QuietThreadKeeps DEF Receive, At, Take
  <2> QED
    BY <1>1, <2>1, <2>2, <2>3 DEF Receive, Goes, manager, TypeOK
<1>2. CASE ReceiveDies(c) \/ InsertDies(c) \/ SendDies(c)
  <2>1. SocketsInv'
    BY <1>2, BuffersKeepSockets DEF ReceiveDies, InsertDies, SendDies, Die, sockets, ThreadInv
  <2>2. ThreadOwnsFd'
    BY <1>2 DEF ReceiveDies, InsertDies, SendDies, Die, sockets, ThreadInv, ThreadOwnsFd,
                InFlight, Holds
  <2> QED
    BY <1>2, <2>1, <2>2
       DEF ReceiveDies, InsertDies, SendDies, Die, sockets, manager, TypeOK, SocketsType,
           ThreadInv
<1>3. CASE ReceiveNothing(c)
  <2>1. ThreadInv'
    BY <1>3, QuietThreadKeeps DEF ReceiveNothing, At, sockets
  <2> QED
    BY <1>3, <2>1 DEF ReceiveNothing, Goes, sockets, manager, TypeOK, SocketsType
<1>4. CASE Echo(c)
  <2>1. SocketsType(Kinds)'
    BY <1>4, TakeType DEF Echo, TypeOK
  <2>2. ThreadInv'
    BY <1>4, QuietThreadKeeps DEF Echo, At, Take
  <2> QED
    BY <1>4, <2>1, <2>2 DEF Echo, Goes, manager, TypeOK
<1>5. CASE GetTests(c) \/ GetCreates(c)
  <2>1. ThreadInv'
    BY <1>5, QuietThreadKeeps DEF GetTests, GetCreates, At, sockets
  <2>2. Append(registered, {}) \in Seq(SUBSET ClientFds)
    BY DEF TypeOK
  <2>3. Dispatched(c) \in {"join", "respond"}
    BY DEF Dispatched
  <2>4. TypeOK' /\ UNCHANGED strays
    <3>1. /\ registered' \in Seq(SUBSET ClientFds)
          /\ \E to \in {"new", "join", "respond"} : Goes(c, to)
      BY <1>5, <2>2, <2>3 DEF GetTests, GetCreates, manager, TypeOK
    <3>2. thread' \in [Conns -> {"none", "recv", "get", "new", "join", "handshake",
                                 "register", "insert", "respond", "close", "done"}]
      BY <3>1 DEF Goes, TypeOK
    <3>3. UNCHANGED <<sockets, answer, port, callback, pc, strays, request, mine, overlapped>>
      BY <1>5 DEF GetTests, GetCreates, manager
    <3> QED
      BY <3>1, <3>2, <3>3 DEF sockets, TypeOK, SocketsType
  <2> QED
    BY <2>1, <2>4
<1>6. CASE Join(c)
  <2>1. ThreadInv'
    BY <1>6, QuietThreadKeeps DEF Join, At, sockets
  <2>2. Len(registered) \in Nat
    BY DEF TypeOK
  <2> QED
    BY <1>6, <2>1, <2>2 DEF Join, Goes, sockets, TypeOK, SocketsType
<1>7. CASE Handshake(c)
  <2>1. ThreadInv'
    BY <1>7, QuietThreadKeeps DEF Handshake, At, sockets
  <2> QED
    BY <1>7, <2>1 DEF Handshake, Goes, sockets, manager, TypeOK, SocketsType
<1>8. CASE InsertBegins(c)
  <2>1. ThreadInv'
    BY <1>8, QuietThreadKeeps DEF InsertBegins, At, sockets
  <2>2. overlapped' \in SUBSET Conns
    BY <1>8 DEF InsertBegins, Inserting, TypeOK
  <2> QED
    BY <1>8, <2>1, <2>2 DEF InsertBegins, Goes, sockets, TypeOK, SocketsType
<1>9. CASE InsertEnds(c)
  <2>1. ThreadInv'
    BY <1>9, QuietThreadKeeps DEF InsertEnds, At, sockets
  <2>2. registered' \in Seq(SUBSET ClientFds)
    BY <1>9, InsertType DEF InsertEnds, TypeOK
  <2> QED
    BY <1>9, <2>1, <2>2 DEF InsertEnds, Goes, sockets, TypeOK, SocketsType
<1>10. CASE Respond(c)
  <2>1. ThreadInv'
    BY <1>10, QuietThreadKeeps DEF Respond, At, sockets
  <2>2. answer' \in [Conns -> {"none", "http", "101"}]
    BY <1>10 DEF Respond, Answered, TypeOK
  <2> QED
    BY <1>10, <2>1, <2>2 DEF Respond, Goes, sockets, manager, TypeOK, SocketsType
<1>11. CASE Close(c)
  BY <1>11, CloseKeeps
<1> QED
  BY <1>1, <1>2, <1>3, <1>4, <1>5, <1>6, <1>7, <1>8, <1>9, <1>10, <1>11 DEF Thread

LEMMA StepKeeps == TypeOK /\ ThreadInv /\ [Next]_vars => TypeOK' /\ ThreadInv'
<1> SUFFICES ASSUME TypeOK, ThreadInv, [Next]_vars PROVE TypeOK' /\ ThreadInv'
  OBVIOUS
<1>1. CASE StrayEnds
  <2>1. SocketsInv' /\ ThreadOwnsFd'
    BY <1>1, BuffersKeepSockets
       DEF StrayEnds, sockets, ThreadInv, ThreadOwnsFd, InFlight, Holds
  <2>2. strays' \in 0 .. MaxThreads
    BY <1>1, MaxThreadsAssumption DEF StrayEnds, TypeOK
  <2> QED
    BY <1>1, <2>1, <2>2 DEF StrayEnds, sockets, manager, TypeOK, SocketsType, ThreadInv
<1>2. CASE UNCHANGED vars
  <2>1. SocketsInv' /\ ThreadOwnsFd'
    BY <1>2, BuffersKeepSockets
       DEF vars, sockets, ThreadInv, ThreadOwnsFd, InFlight, Holds
  <2> QED
    BY <1>2, <2>1 DEF vars, sockets, manager, TypeOK, SocketsType, ThreadInv
<1> QED
  BY <1>1, <1>2, ClientKeeps, MainKeeps, ThreadKeeps DEF Next

LEMMA Initially == Init => TypeOK /\ ThreadInv
<1> SUFFICES ASSUME Init PROVE TypeOK /\ ThreadInv
  OBVIOUS
<1>1. SocketsType(Kinds) /\ SocketsInv
  BY SocketsInitially DEF Init
<1>2. ThreadOwnsFd
  BY DEF Init, ThreadOwnsFd, InFlight
<1> QED
  BY <1>1, <1>2, MaxThreadsAssumption DEF Init, TypeOK, ThreadInv

(* Every variable of the thread server keeps its type. *)
THEOREM TypeCorrect == Spec => []TypeOK
  BY Initially, StepKeeps, PTL DEF Spec

(* No thread of the thread server ever writes to or closes a descriptor    *)
(* that is not its own connection's, although descriptors are reused.      *)
THEOREM OwnDescriptorOnly == Spec => []ThreadOwnsFd
<1>1. ThreadInv => ThreadOwnsFd
  BY DEF ThreadInv
<1> QED
  BY <1>1, Initially, StepKeeps, PTL DEF Spec


-----------------------------------------------------------------------------
(* What a thread has done follows from where it is: the answer it gave and *)
(* the manager it joined.                                                  *)
QueuedIdle == \A c \in Conns : conn[c] \in {"new", "queued"} => thread[c] = "none"

AnswerByPlace ==
  \A c \in Conns :
    /\ thread[c] \in {"none", "recv", "get", "new", "join", "handshake", "respond"} =>
         answer[c] = "none"
    /\ thread[c] \in {"register", "insert"} => answer[c] = "101"
    /\ thread[c] = "close" => answer[c] = "http"

ManagerByPlace ==
  \A c \in Conns :
    /\ thread[c] = "join" => Len(registered) > 0
    /\ \/ thread[c] \in {"handshake", "register", "insert"}
       \/ thread[c] = "done" /\ answer[c] = "101"
       => mine[c] \in 1 .. Len(registered)

PlaceInv == /\ QueuedIdle
            /\ AnswerByPlace
            /\ ManagerByPlace
            /\ RegistrationLostOnlyByRace
            /\ AbandonedOnlyWhenSilent

(* Answering a descriptor answers the connection of the thread alone. *)
LEMMA AnswersItself ==
  ASSUME TypeOK, ThreadInv, NEW c \in Conns, thread[c] \notin {"none", "done"}
  PROVE  \A d \in Conns : Answered(fd[c])[d] = IF d = c THEN "http" ELSE answer[d]
<1>1. Holds(c, fd[c])
  BY DEF ThreadInv, ThreadOwnsFd, InFlight
<1>2. \A d \in Conns : Holds(d, fd[c]) => d = c
  BY <1>1 DEF ThreadInv, SocketsInv, OneHolder, Holds
<1> QED
  BY <1>1, <1>2 DEF Answered

(* Steps that change nothing but the main thread and the strays. *)
LEMMA ElsewhereKeepsPlace ==
  ASSUME PlaceInv, UNCHANGED <<sockets, answer, thread, request, manager>>
  PROVE  PlaceInv'
BY DEF PlaceInv, QueuedIdle, AnswerByPlace, ManagerByPlace, RegistrationLostOnlyByRace,
       AbandonedOnlyWhenSilent, sockets, manager

(* Clients: nothing arrives from one that has left. *)
LEMMA ClientKeepsPlace ==
  ASSUME TypeOK, PlaceInv, NEW c \in Conns, Client(c)
  PROVE  PlaceInv'
<1>1. CASE Connect(c)
  BY <1>1 DEF Connect, Dial, manager, TypeOK, SocketsType, PlaceInv, QueuedIdle,
              AnswerByPlace, ManagerByPlace, RegistrationLostOnlyByRace,
              AbandonedOnlyWhenSilent
<1>2. ASSUME NEW m \in Kinds, Send(c, m) PROVE PlaceInv'
  BY <1>2 DEF Send, Deliver, manager, TypeOK, SocketsType, PlaceInv, QueuedIdle,
              AnswerByPlace, ManagerByPlace, RegistrationLostOnlyByRace,
              AbandonedOnlyWhenSilent
<1>3. CASE Leave(c)
  BY <1>3 DEF Leave, Depart, manager, TypeOK, SocketsType, PlaceInv, QueuedIdle,
              AnswerByPlace, ManagerByPlace, RegistrationLostOnlyByRace,
              AbandonedOnlyWhenSilent
<1> QED
  BY <1>1, <1>2, <1>3 DEF Client

(* An accepted connection was queued, hence never served before. *)
LEMMA AcceptKeepsPlace ==
  ASSUME TypeOK, ThreadInv, PlaceInv, NEW c \in Conns, NEW f \in ClientFds, Accept(c, f)
  PROVE  PlaceInv'
<1>1. conn[c] = "queued"
  BY TakeNextKeepsSockets DEF Accept, TypeOK, ThreadInv
<1>2. thread[c] = "none" /\ answer[c] = "none"
  BY <1>1 DEF PlaceInv, QueuedIdle, AnswerByPlace
<1> QED
  BY <1>2 DEF Accept, TakeNext, Goes, manager, TypeOK, SocketsType, PlaceInv, QueuedIdle,
              AnswerByPlace, ManagerByPlace, RegistrationLostOnlyByRace,
              AbandonedOnlyWhenSilent

(* A thread at work is of a connection that is open. *)
LEMMA AtWork ==
  ASSUME ThreadInv, NEW c \in Conns, NEW where, where \notin {"none", "done"}, At(c, where)
  PROVE  thread[c] = where /\ conn[c] = "up" /\ fd[c] \in ClientFds
BY DEF At, ThreadInv, ThreadOwnsFd, InFlight, Holds, SocketsInv, UpHasFd

(* Up to its answer a thread touches neither answers nor managers but its  *)
(* own, and creates a manager only at the end.                             *)
LEMMA RequestKeepsPlace ==
  ASSUME TypeOK, ThreadInv, PlaceInv, NEW c \in Conns,
         \/ Receive(c) \/ ReceiveNothing(c) \/ Echo(c)
         \/ GetTests(c) \/ Join(c) \/ Handshake(c)
  PROVE  PlaceInv'
<1>1. Len(registered) \in Nat
  BY DEF TypeOK
<1>2. conn[c] = "up"
  BY AtWork DEF Receive, ReceiveNothing, Echo, GetTests, Join, Handshake
<1>3. UNCHANGED <<conn, fd, eof, registered, overlapped>>
  BY DEF Receive, ReceiveNothing, Echo, GetTests, Join, Handshake, Take, sockets, manager
<1>4. QueuedIdle'
  BY <1>2, <1>3 DEF Receive, ReceiveNothing, Echo, GetTests, Join, Handshake, At, Goes,
                    TypeOK, PlaceInv, QueuedIdle
<1>5. AnswerByPlace'
  BY <1>3 DEF Receive, ReceiveNothing, Echo, GetTests, Dispatched, Join, Handshake, At,
              Goes, TypeOK, PlaceInv, AnswerByPlace
<1>6. ManagerByPlace'
  <2>1. registered # <<>> => Len(registered) > 0
    BY DEF TypeOK
  <2> QED
    BY <1>1, <1>3, <2>1
       DEF Receive, ReceiveNothing, Echo, GetTests, Dispatched, Join, Handshake, At, Goes,
           manager, TypeOK, PlaceInv, ManagerByPlace, AnswerByPlace
<1>7. RegistrationLostOnlyByRace'
  BY <1>3 DEF Receive, ReceiveNothing, Echo, GetTests, Dispatched, Join, Handshake, At,
              Goes, manager, TypeOK, PlaceInv, AnswerByPlace, RegistrationLostOnlyByRace
<1>8. AbandonedOnlyWhenSilent'
  BY <1>3 DEF Receive, ReceiveNothing, Echo, GetTests, Dispatched, Join, Handshake, At,
              Goes, Take, sockets, TypeOK, SocketsType, PlaceInv, AbandonedOnlyWhenSilent
<1> QED
  BY <1>4, <1>5, <1>6, <1>7, <1>8 DEF PlaceInv

(* A new manager takes the place of the last; those who joined another one *)
(* joined one that is not the last any more.                               *)
LEMMA CreateKeepsPlace ==
  ASSUME TypeOK, ThreadInv, PlaceInv, NEW c \in Conns, GetCreates(c)
  PROVE  PlaceInv'
<1>1. Len(registered) \in Nat /\ Len(registered') = Len(registered) + 1
  BY DEF GetCreates, TypeOK
<1>2. conn[c] = "up" /\ thread[c] = "new"
  BY AtWork DEF GetCreates
<1>3. UNCHANGED <<conn, fd, eof, rx, answer, mine, overlapped>>
  BY DEF GetCreates, sockets
<1>4. \A d \in Conns : thread'[d] = IF d = c THEN Dispatched(c) ELSE thread[d]
  BY DEF GetCreates, Goes, TypeOK
<1>5. QueuedIdle' /\ AnswerByPlace' /\ AbandonedOnlyWhenSilent'
  BY <1>2, <1>3, <1>4 DEF Dispatched, PlaceInv, QueuedIdle, AnswerByPlace,
                          AbandonedOnlyWhenSilent
<1>6. ManagerByPlace'
  BY <1>1, <1>2, <1>3, <1>4 DEF Dispatched, PlaceInv, ManagerByPlace
<1>7. RegistrationLostOnlyByRace'
  <2> SUFFICES ASSUME NEW d \in Conns, answer[d] = "101", thread'[d] = "done"
               PROVE  mine[d] < Len(registered')
    BY <1>3 DEF RegistrationLostOnlyByRace
  <2>1. thread[d] = "done"
    BY <1>4 DEF Dispatched
  <2>2. mine[d] \in 1 .. Len(registered)
    BY <2>1 DEF PlaceInv, ManagerByPlace
  <2> QED
    BY <1>1, <2>2
<1> QED
  BY <1>5, <1>6, <1>7 DEF PlaceInv

(* An insert that did not overlap another leaves its element there. *)
LEMMA InsertKeepsPlace ==
  ASSUME TypeOK, ThreadInv, PlaceInv, NEW c \in Conns, InsertBegins(c) \/ InsertEnds(c)
  PROVE  PlaceInv'
<1>1. /\ registered \in [1 .. Len(registered) -> SUBSET ClientFds]
      /\ Len(registered) \in Nat
  BY DEF TypeOK
<1>2. /\ conn[c] = "up"
      /\ answer[c] = "101"
      /\ mine[c] \in 1 .. Len(registered)
  BY AtWork DEF InsertBegins, InsertEnds, At, PlaceInv, AnswerByPlace, ManagerByPlace
<1>3. UNCHANGED <<conn, fd, eof, rx, answer, mine>>
  BY DEF InsertBegins, InsertEnds, sockets
<1>4. CASE InsertBegins(c)
  <2>1. \A d \in Conns : thread'[d] = IF d = c THEN "insert" ELSE thread[d]
    BY <1>4 DEF InsertBegins, Goes, TypeOK
  <2>2. UNCHANGED registered /\ overlapped \subseteq overlapped'
    BY <1>4 DEF InsertBegins
  <2> QED
    BY <1>2, <1>3, <2>1, <2>2
       DEF PlaceInv, QueuedIdle, AnswerByPlace, ManagerByPlace,
           RegistrationLostOnlyByRace, AbandonedOnlyWhenSilent
<1>5. CASE InsertEnds(c)
  <2>1. \A d \in Conns : thread'[d] = IF d = c THEN "done" ELSE thread[d]
    BY <1>5 DEF InsertEnds, Goes, TypeOK
  <2>2. /\ DOMAIN registered' = 1 .. Len(registered)
        /\ Len(registered') = Len(registered)
        /\ \A m \in 1 .. Len(registered) : registered[m] \subseteq registered'[m]
        /\ fd[c] \in registered'[mine[c]] \/ c \in overlapped
        /\ overlapped' = overlapped
    BY <1>1, <1>2, <1>5 DEF InsertEnds
  <2>3. RegistrationLostOnlyByRace'
    <3> SUFFICES ASSUME NEW d \in Conns, answer[d] = "101", thread'[d] = "done",
                        ~(mine[d] < Len(registered)), d \notin overlapped
                 PROVE  fd[d] \in registered'[Len(registered)]
      BY <1>3, <2>2 DEF RegistrationLostOnlyByRace
    <3>1. CASE d = c
      <4>1. mine[c] = Len(registered)
        BY <1>1, <1>2, <3>1
      <4> QED
        BY <2>2, <3>1, <4>1
    <3>2. CASE d # c
      <4>1. thread[d] = "done"
        BY <2>1, <3>2
      <4>2. fd[d] \in registered[Len(registered)] /\ mine[d] \in 1 .. Len(registered)
        BY <4>1 DEF PlaceInv, RegistrationLostOnlyByRace, ManagerByPlace
      <4>3. Len(registered) \in 1 .. Len(registered)
        BY <1>1, <4>2
      <4> QED
        BY <2>2, <4>2, <4>3
    <3> QED
      BY <3>1, <3>2
  <2>4. QueuedIdle' /\ AnswerByPlace' /\ AbandonedOnlyWhenSilent'
    BY <1>2, <1>3, <2>1 DEF PlaceInv, QueuedIdle, AnswerByPlace, AbandonedOnlyWhenSilent
  <2>5. ManagerByPlace'
    BY <1>2, <1>3, <2>1, <2>2 DEF PlaceInv, ManagerByPlace
  <2> QED
    BY <2>3, <2>4, <2>5 DEF PlaceInv
<1> QED
  BY <1>4, <1>5

(* The answer, and the close. *)
LEMMA AnswerKeepsPlace ==
  ASSUME TypeOK, ThreadInv, PlaceInv, NEW c \in Conns, Respond(c) \/ Close(c)
  PROVE  PlaceInv'
<1>1. CASE Respond(c)
  <2>1. conn[c] = "up" /\ thread[c] = "respond"
    BY <1>1, AtWork DEF Respond
  <2>2. /\ UNCHANGED <<conn, fd, eof, rx, registered, mine, overlapped>>
        /\ \A d \in Conns : answer'[d] = IF d = c THEN "http" ELSE answer[d]
    BY <1>1, <2>1, AnswersItself DEF Respond, sockets, manager
  <2>3. \E to \in {"close", "done"} :
          \A d \in Conns : thread'[d] = IF d = c THEN to ELSE thread[d]
    BY <1>1 DEF Respond, Goes, TypeOK
  <2> QED
    BY <2>1, <2>2, <2>3
       DEF PlaceInv, QueuedIdle, AnswerByPlace, ManagerByPlace,
           RegistrationLostOnlyByRace, AbandonedOnlyWhenSilent
<1>2. CASE Close(c)
  <2>1. conn[c] = "up" /\ thread[c] = "close"
    BY <1>2, AtWork DEF Close
  <2>2. /\ UNCHANGED <<fd, answer, registered, mine, overlapped>>
        /\ \A d \in Conns :
             \/ conn'[d] = conn[d] /\ eof'[d] = eof[d] /\ rx'[d] = rx[d]
             \/ conn[d] = "up" /\ conn'[d] = "down"
    BY <1>2 DEF Close, Shut, Holds, manager, TypeOK, SocketsType
  <2>3. \A d \in Conns : thread'[d] = IF d = c THEN "done" ELSE thread[d]
    BY <1>2 DEF Close, Goes, TypeOK
  <2>4. answer[c] = "http"
    BY <2>1 DEF PlaceInv, AnswerByPlace
  <2> QED
    BY <2>1, <2>2, <2>3, <2>4
       DEF PlaceInv, QueuedIdle, AnswerByPlace, ManagerByPlace,
           RegistrationLostOnlyByRace, AbandonedOnlyWhenSilent
<1> QED
  BY <1>1, <1>2

(* Whatever happens, where a thread is tells what it has done. *)
LEMMA PlaceInvariant == Spec => []PlaceInv
<1>1. Init => PlaceInv
  BY DEF Init, SocketsInit, PlaceInv, QueuedIdle, AnswerByPlace, ManagerByPlace,
         RegistrationLostOnlyByRace, AbandonedOnlyWhenSilent
<1>2. TypeOK /\ ThreadInv /\ PlaceInv /\ [Next]_vars => PlaceInv'
  <2> SUFFICES ASSUME TypeOK, ThreadInv, PlaceInv, [Next]_vars PROVE PlaceInv'
    OBVIOUS
  <2>1. CASE CreateServer \/ AcceptFails \/ SpawnFails \/ StrayEnds
    BY <2>1, ElsewhereKeepsPlace DEF CreateServer, AcceptFails, SpawnFails, Die, StrayEnds
  <2>2. ASSUME NEW c \in Conns, ReceiveDies(c) \/ InsertDies(c) \/ SendDies(c)
        PROVE  PlaceInv'
    BY <2>2, ElsewhereKeepsPlace DEF ReceiveDies, InsertDies, SendDies, Die
  <2>3. CASE UNCHANGED vars
    BY <2>3, ElsewhereKeepsPlace DEF vars
  <2> QED
    BY <2>1, <2>2, <2>3, ClientKeepsPlace, AcceptKeepsPlace, RequestKeepsPlace,
       CreateKeepsPlace, InsertKeepsPlace, AnswerKeepsPlace DEF Next, Main, Thread
<1> QED
  BY <1>1, <1>2, Initially, StepKeeps, PTL DEF Spec

(* A WebSocket the current manager does not know was registered in one a   *)
(* second thread had created, or its insert overlapped another.            *)
THEOREM OnlyRacesLose == Spec => []RegistrationLostOnlyByRace
<1>1. PlaceInv => RegistrationLostOnlyByRace
  BY DEF PlaceInv
<1> QED
  BY <1>1, PlaceInvariant, PTL

(* A connection left open without an answer is of a client that left       *)
(* without having sent anything.                                           *)
THEOREM OnlySilentAbandoned == Spec => []AbandonedOnlyWhenSilent
<1>1. PlaceInv => AbandonedOnlyWhenSilent
  BY DEF PlaceInv
<1> QED
  BY <1>1, PlaceInvariant, PTL

-----------------------------------------------------------------------------
(* The thread server implements Connections.  A request its thread has     *)
(* taken is unread there until the answer, so that answering is one step.  *)
Asked == [c \in Conns |->
  rx[c] # <<>> \/ thread[c] \in {"get", "new", "join", "handshake", "respond"}]

Unheard == [c \in Conns |-> FALSE]

LEMMA ServeStep ==
  ASSUME NEW c \in Conns, conn[c] \in {"queued", "up"},
         NEW status \in {"up", "down"}, NEW left \in BOOLEAN,
         NEW ans \in {"none", "http", "101"},
         ans # answer[c] => answer[c] = "none" /\ Asked[c],
         left => Asked[c] /\ status = "up",
         conn' = [conn EXCEPT ![c] = status],
         Asked' = [Asked EXCEPT ![c] = left],
         answer' = [answer EXCEPT ![c] = ans]
  PROVE  Abstract!Next
<1>1. Abstract!Serve(c)
  BY DEF Abstract!Serve, Asked
<1> QED
  BY <1>1 DEF Abstract!Next

LEMMA ClientRefines ==
  ASSUME TypeOK, NEW c \in Conns, Client(c)
  PROVE  Abstract!Next \/ UNCHANGED <<conn, Asked, answer, Unheard>>
<1>1. CASE Connect(c)
  <2>1. Abstract!Connect(c)
    BY <1>1 DEF Connect, Dial, Abstract!Connect
  <2> QED
    BY <2>1 DEF Abstract!Next
<1>2. ASSUME NEW m \in Kinds, Send(c, m) PROVE Abstract!Next
  <2>1. /\ conn[c] \in {"queued", "up"} /\ UNCHANGED <<conn, answer, thread>>
        /\ rx' = [rx EXCEPT ![c] = Append(rx[c], m)] /\ rx[c] \in Seq(Kinds)
    BY <1>2 DEF Send, Deliver, TypeOK, SocketsType
  <2>2. Append(rx[c], m) # <<>>
    BY <2>1
  <2>3. Asked' = [Asked EXCEPT ![c] = TRUE]
    BY <2>1, <2>2 DEF Asked, TypeOK, SocketsType
  <2>4. Abstract!Ask(c)
    BY <2>1, <2>3 DEF Abstract!Ask, Asked
  <2> QED
    BY <2>4 DEF Abstract!Next
<1>3. CASE Leave(c)
  BY <1>3 DEF Leave, Depart, Asked, Unheard
<1> QED
  BY <1>1, <1>2, <1>3 DEF Client

LEMMA AcceptRefines ==
  ASSUME TypeOK, ThreadInv, PlaceInv, NEW c \in Conns, NEW f \in ClientFds, Accept(c, f)
  PROVE  Abstract!Next
<1>1. conn[c] = "queued"
  BY TakeNextKeepsSockets DEF Accept, TypeOK, ThreadInv
<1>2. thread[c] = "none"
  BY <1>1 DEF PlaceInv, QueuedIdle
<1>3. /\ conn' = [conn EXCEPT ![c] = "up"] /\ UNCHANGED <<rx, answer>>
      /\ thread' = [thread EXCEPT ![c] = "recv"]
  BY DEF Accept, Goes
<1>4. Asked' = [Asked EXCEPT ![c] = Asked[c]]
  BY <1>2, <1>3 DEF Asked, TypeOK
<1>5. answer' = [answer EXCEPT ![c] = answer[c]] /\ answer[c] \in {"none", "http", "101"}
  BY <1>3 DEF TypeOK
<1>6. Asked[c] \in BOOLEAN
  BY DEF Asked
<1> QED
  BY <1>1, <1>3, <1>4, <1>5, <1>6, ServeStep

(* What a thread does between its recv and its answer shows to nobody.     *)
LEMMA ThreadInside ==
  ASSUME TypeOK, NEW c \in Conns,
         \/ Receive(c) \/ ReceiveDies(c) \/ ReceiveNothing(c) \/ GetTests(c)
         \/ GetCreates(c) \/ Join(c) \/ InsertBegins(c) \/ InsertEnds(c)
         \/ InsertDies(c) \/ SendDies(c)
  PROVE  UNCHANGED <<conn, Asked, answer, Unheard>>
<1>1. UNCHANGED <<conn, answer>>
  BY DEF Receive, ReceiveDies, ReceiveNothing, GetTests, GetCreates, Join, InsertBegins,
         InsertEnds, InsertDies, SendDies, Die, Take, sockets
<1>2. CASE ReceiveDies(c) \/ InsertDies(c) \/ SendDies(c)
  BY <1>2 DEF ReceiveDies, InsertDies, SendDies, Die, sockets, Asked
<1>3. CASE Receive(c)
  BY <1>3 DEF Receive, Take, Goes, At, Asked, TypeOK, SocketsType
<1>4. CASE \/ ReceiveNothing(c) \/ GetTests(c) \/ GetCreates(c) \/ Join(c)
           \/ InsertBegins(c) \/ InsertEnds(c)
  BY <1>4 DEF ReceiveNothing, GetTests, GetCreates, Join, InsertBegins, InsertEnds,
              Dispatched, Goes, At, sockets, Asked, TypeOK
<1> QED
  BY <1>1, <1>2, <1>3, <1>4 DEF Unheard

LEMMA AnswerRefines ==
  ASSUME TypeOK, ThreadInv, PlaceInv, NEW c \in Conns,
         Echo(c) \/ Handshake(c) \/ Respond(c)
  PROVE  Abstract!Next
<1> DEFINE left == IF Echo(c) THEN FALSE ELSE rx[c] # <<>>
           ans == IF Handshake(c) THEN "101" ELSE "http"
<1>1. conn[c] = "up" /\ answer[c] = "none" /\ Asked[c]
  BY AtWork DEF Echo, Handshake, Respond, At, PlaceInv, AnswerByPlace, Asked
<1>2. conn' = [conn EXCEPT ![c] = "up"]
  BY <1>1 DEF Echo, Handshake, Respond, Take, sockets, TypeOK, SocketsType
<1>3. Asked' = [Asked EXCEPT ![c] = left]
  <2>1. CASE Echo(c)
    <3>1. rx' = [rx EXCEPT ![c] = <<>>] /\ thread' = [thread EXCEPT ![c] = "done"]
      BY <2>1 DEF Echo, Take, Goes
    <3> QED
      BY <2>1, <3>1 DEF Asked, TypeOK, SocketsType
  <2>2. CASE ~Echo(c)
    <3>1. /\ rx' = rx
          /\ \E to \in {"register", "close", "done"} : thread' = [thread EXCEPT ![c] = to]
      BY <2>2 DEF Handshake, Respond, sockets, Goes
    <3> QED
      BY <2>2, <3>1 DEF Asked, TypeOK
  <2> QED
    BY <2>1, <2>2
<1>4. answer' = [answer EXCEPT ![c] = ans]
  <2>1. CASE Respond(c)
    <3>1. /\ thread[c] = "respond"
          /\ answer' = Answered(fd[c])
      BY <2>1 DEF Respond, At
    <3>2. answer' = [answer EXCEPT ![c] = "http"]
      BY <3>1, AnswersItself DEF Answered, TypeOK
    <3>3. ~Handshake(c)
      BY <3>1 DEF Handshake, At
    <3> QED
      BY <3>2, <3>3
  <2>2. CASE Echo(c)
    BY <2>2 DEF Echo, Handshake, At
  <2>3. CASE Handshake(c)
    BY <2>3 DEF Handshake
  <2> QED
    BY <2>1, <2>2, <2>3
<1>5. left \in BOOLEAN /\ ans \in {"http", "101"}
  OBVIOUS
<1> HIDE DEF left, ans
<1> QED
  BY <1>1, <1>2, <1>3, <1>4, <1>5, ServeStep

LEMMA CloseRefines ==
  ASSUME TypeOK, ThreadInv, PlaceInv, NEW c \in Conns, Close(c)
  PROVE  Abstract!Next
<1>1. conn[c] = "up" /\ thread[c] = "close" /\ Holds(c, fd[c])
  BY AtWork DEF Close, Holds
<1>2. \A d \in Conns : Holds(d, fd[c]) => d = c
  BY <1>1 DEF ThreadInv, SocketsInv, OneHolder, Holds
<1>3. /\ conn' = [conn EXCEPT ![c] = "down"]
      /\ rx' = [rx EXCEPT ![c] = <<>>]
      /\ thread' = [thread EXCEPT ![c] = "done"]
      /\ UNCHANGED answer
  BY <1>1, <1>2 DEF Close, Shut, Goes, TypeOK, SocketsType
<1>4. Asked' = [Asked EXCEPT ![c] = FALSE]
  BY <1>3 DEF Asked, TypeOK, SocketsType
<1>5. answer' = [answer EXCEPT ![c] = answer[c]] /\ answer[c] \in {"none", "http", "101"}
  BY <1>3 DEF TypeOK
<1> QED
  BY <1>1, <1>3, <1>4, <1>5, ServeStep

(* The thread server keeps the promise every handler makes, whatever its   *)
(* threads race for.                                                       *)
THEOREM Implements == Spec => ImplementsConnections
<1>1. ASSUME Init PROVE Abstract!Init
  <2>1. \A c \in Conns : rx[c] = <<>> /\ thread[c] = "none"
    BY <1>1 DEF Init, SocketsInit
  <2>2. Asked = [c \in Conns |-> FALSE]
    BY <2>1, Zenon DEF Asked
  <2>3. conn = [c \in Conns |-> "new"] /\ answer = [c \in Conns |-> "none"]
    BY <1>1 DEF Init, SocketsInit
  <2> QED
    BY <2>2, <2>3, Zenon DEF Asked, Abstract!Init
<1>2. TypeOK /\ ThreadInv /\ PlaceInv /\ [Next]_vars => [Abstract!Next]_Abstract!cvars
  <2> SUFFICES ASSUME TypeOK, ThreadInv, PlaceInv, [Next]_vars
               PROVE  Abstract!Next \/ UNCHANGED <<conn, Asked, answer, Unheard>>
    BY DEF Abstract!cvars, Asked, Unheard
  <2>1. CASE CreateServer \/ AcceptFails \/ SpawnFails \/ StrayEnds
    BY <2>1 DEF CreateServer, AcceptFails, SpawnFails, Die, StrayEnds, sockets, Asked, Unheard
  <2>2. CASE UNCHANGED vars
    BY <2>2 DEF vars, sockets, Asked, Unheard
  <2> QED
    BY <2>1, <2>2, ClientRefines, AcceptRefines, ThreadInside, AnswerRefines, CloseRefines
       DEF Next, Main, Thread
<1> QED
  BY <1>1, <1>2, Initially, StepKeeps, PlaceInvariant, PTL
     DEF Spec, ImplementsConnections, Abstract!Spec
=============================================================================
