-------------------------- MODULE EpollServerProofs --------------------------
(* What EpollServer keeps, for every set of connections, number of          *)
(* descriptors and size of the event array: types, that edge-triggered      *)
(* delivery loses nothing, that no event ahead in a batch is stale, that    *)
(* create_server cleans up, and that the server implements Connections.     *)
EXTENDS EpollServer, TLAPS

Fds == {ServerFd} \cup ClientFds

(* No descriptor is on a list twice. *)
Once(list) == \A j, k \in DOMAIN list : list[j] = list[k] => j = k

-----------------------------------------------------------------------------
(* The lists of descriptors, by what is on them *)

LEMMA ListOf ==
  ASSUME NEW S, NEW n \in Nat, NEW f \in [1 .. n -> S]
  PROVE  f \in Seq(S) /\ Len(f) = n
OBVIOUS

LEMMA WokenList ==
  ASSUME ready \in Seq(Fds), Once(ready), NEW f \in Fds
  PROVE  /\ Woken(f) \in Seq(Fds)
         /\ Once(Woken(f))
         /\ \A g : Among(g, Woken(f)) <=> Among(g, ready) \/ g = f
<1>1. CASE Among(f, ready)
  BY <1>1 DEF Woken
<1>2. CASE ~Among(f, ready)
  <2>1. Woken(f) = Append(ready, f)
    BY <1>2 DEF Woken
  <2>2. /\ Append(ready, f) \in Seq(Fds)
        /\ Len(ready) \in Nat
        /\ DOMAIN ready = 1 .. Len(ready)
        /\ DOMAIN Append(ready, f) = 1 .. (Len(ready) + 1)
        /\ \A k \in 1 .. Len(ready) : Append(ready, f)[k] = ready[k]
        /\ Append(ready, f)[Len(ready) + 1] = f
    OBVIOUS
  <2>3. \A k \in 1 .. (Len(ready) + 1) : k \in 1 .. Len(ready) \/ k = Len(ready) + 1
    BY <2>2
  <2>4. \A k \in 1 .. Len(ready) : k \in 1 .. (Len(ready) + 1) /\ ready[k] # f
    BY <1>2, <2>2 DEF Among
  <2>5. Once(Append(ready, f))
    BY <2>2, <2>3, <2>4 DEF Once
  <2>6. Len(ready) + 1 \in 1 .. (Len(ready) + 1)
    BY <2>2
  <2>7. \A g : Among(g, Append(ready, f)) <=> Among(g, ready) \/ g = f
    BY <2>2, <2>3, <2>4, <2>6 DEF Among
  <2> QED
    BY <2>1, <2>2, <2>5, <2>7
<1> QED
  BY <1>1, <1>2

LEMMA WithoutList ==
  ASSUME ready \in Seq(Fds), Once(ready), NEW f
  PROVE  /\ Without(f) \in Seq(Fds)
         /\ Once(Without(f))
         /\ \A g : Among(g, ready) /\ g # f => Among(g, Without(f))
<1>1. CASE ~Among(f, ready)
  BY <1>1 DEF Without
<1>2. CASE Among(f, ready)
  <2> DEFINE at == CHOOSE k \in DOMAIN ready : ready[k] = f
             rest == [k \in 1 .. (Len(ready) - 1) |-> IF k < at THEN ready[k] ELSE ready[k + 1]]
  <2>1. Without(f) = rest
    BY <1>2 DEF Without
  <2>2. Len(ready) \in Nat /\ DOMAIN ready = 1 .. Len(ready)
    OBVIOUS
  <2>3. at \in 1 .. Len(ready) /\ ready[at] = f
    BY <1>2, <2>2 DEF Among
  <2> HIDE DEF at
  <2>4. /\ Len(ready) - 1 \in Nat
        /\ \A k \in 1 .. (Len(ready) - 1) : k \in 1 .. Len(ready) /\ k + 1 \in 1 .. Len(ready)
    BY <2>2, <2>3
  <2>5. \A k \in 1 .. Len(ready) : ready[k] \in Fds
    BY <2>2
  <2>6. rest \in Seq(Fds) /\ DOMAIN rest = 1 .. (Len(ready) - 1)
    BY <2>4, <2>5
  <2>7. \A k \in 1 .. (Len(ready) - 1) :
          rest[k] = IF k < at THEN ready[k] ELSE ready[k + 1]
    OBVIOUS
  <2> HIDE DEF rest
  <2>8. ASSUME NEW j \in 1 .. (Len(ready) - 1), NEW k \in 1 .. (Len(ready) - 1),
               rest[j] = rest[k]
        PROVE  j = k
    <3> DEFINE J == IF j < at THEN j ELSE j + 1
               K == IF k < at THEN k ELSE k + 1
    <3>1. J \in 1 .. Len(ready) /\ K \in 1 .. Len(ready)
      BY <2>4
    <3>2. ready[J] = ready[K]
      BY <2>7, <2>8
    <3>3. J = K
      BY <2>2, <3>1, <3>2 DEF Once
    <3> QED
      BY <3>3, <2>3
  <2>9. ASSUME NEW g, Among(g, ready), g # f
        PROVE  Among(g, rest)
    <3>1. PICK k \in 1 .. Len(ready) : ready[k] = g
      BY <2>2, <2>9 DEF Among
    <3>2. k # at
      BY <2>3, <2>9, <3>1
    <3>3. CASE k < at
      <4>1. k \in 1 .. (Len(ready) - 1)
        BY <2>2, <2>3, <3>3
      <4> QED
        BY <4>1, <3>1, <3>3, <2>6, <2>7 DEF Among
    <3>4. CASE k > at
      <4>1. k - 1 \in 1 .. (Len(ready) - 1) /\ ~(k - 1 < at) /\ (k - 1) + 1 = k
        BY <2>2, <2>3, <3>4
      <4> QED
        BY <4>1, <3>1, <2>6, <2>7 DEF Among
    <3> QED
      BY <2>3, <3>2, <3>3, <3>4
  <2> QED
    BY <2>1, <2>6, <2>8, <2>9 DEF Once
<1> QED
  BY <1>1, <1>2

LEMMA TailList ==
  ASSUME batch \in Seq(Fds), batch # <<>>, Once(batch)
  PROVE  /\ Tail(batch) \in Seq(Fds)
         /\ Once(Tail(batch))
         /\ Head(batch) \in Fds
         /\ Among(Head(batch), batch)
         /\ \A g : Among(g, Tail(batch)) <=> Among(g, batch) /\ g # Head(batch)
<1>1. /\ Len(batch) \in Nat \ {0}
      /\ DOMAIN batch = 1 .. Len(batch)
      /\ Head(batch) = batch[1]
      /\ Tail(batch) \in Seq(Fds)
      /\ Head(batch) \in Fds
      /\ DOMAIN Tail(batch) = 1 .. (Len(batch) - 1)
      /\ \A k \in 1 .. (Len(batch) - 1) : Tail(batch)[k] = batch[k + 1]
  OBVIOUS
<1>2. \A k \in 1 .. (Len(batch) - 1) : k + 1 \in 1 .. Len(batch) /\ k + 1 # 1
  BY <1>1
<1>3. 1 \in 1 .. Len(batch)
  BY <1>1
<1>4. Once(Tail(batch))
  <2> SUFFICES ASSUME NEW j \in 1 .. (Len(batch) - 1), NEW k \in 1 .. (Len(batch) - 1),
                      Tail(batch)[j] = Tail(batch)[k]
               PROVE  j = k
    BY <1>1 DEF Once
  <2>1. batch[j + 1] = batch[k + 1]
    BY <1>1
  <2>2. j + 1 = k + 1
    BY <1>1, <1>2, <2>1 DEF Once
  <2> QED
    BY <2>2
<1>5. ASSUME NEW g, Among(g, Tail(batch))
      PROVE  Among(g, batch) /\ g # Head(batch)
  <2>1. PICK k \in 1 .. (Len(batch) - 1) : batch[k + 1] = g
    BY <1>1, <1>5 DEF Among
  <2> QED
    BY <1>1, <1>2, <1>3, <2>1 DEF Among, Once
<1>6. ASSUME NEW g, Among(g, batch), g # Head(batch)
      PROVE  Among(g, Tail(batch))
  <2>1. PICK k \in 1 .. Len(batch) : batch[k] = g
    BY <1>1, <1>6 DEF Among
  <2>2. k # 1
    BY <1>1, <1>6, <2>1
  <2>3. k - 1 \in 1 .. (Len(batch) - 1) /\ (k - 1) + 1 = k
    BY <1>1, <2>2
  <2> QED
    BY <1>1, <2>1, <2>3 DEF Among
<1>7. Among(Head(batch), batch)
  BY <1>1, <1>3 DEF Among
<1> QED
  BY <1>1, <1>4, <1>5, <1>6, <1>7

(* One epoll_wait: what it delivers holds and is delivered once, and what   *)
(* it goes through without delivering did not hold.                         *)
LEMMA DeliveredLists ==
  ASSUME ready \in Seq(Fds), Once(ready),
         NEW n \in DOMAIN ready, NEW m \in DOMAIN ready,
         NEW hit \in [1 .. m -> 1 .. n], Delivers(n, m, hit)
  PROVE  LET taken == [k \in 1 .. m |-> ready[hit[k]]] IN
         /\ taken \in Seq(Fds) /\ Once(taken)
         /\ Beyond(n) \in Seq(Fds) /\ Once(Beyond(n))
         /\ \A g : Among(g, taken) => Raised(g) /\ ~Among(g, Beyond(n))
         /\ \A g : Among(g, ready) /\ Raised(g) => Among(g, taken) \/ Among(g, Beyond(n))
<1> DEFINE taken == [k \in 1 .. m |-> ready[hit[k]]]
           rest == [k \in 1 .. (Len(ready) - n) |-> ready[n + k]]
<1>0. Beyond(n) = rest
  BY DEF Beyond
<1>1. Len(ready) \in Nat /\ DOMAIN ready = 1 .. Len(ready)
  OBVIOUS
<1>2. n \in 1 .. Len(ready) /\ m \in 1 .. Len(ready)
  BY <1>1
<1>3. \A k \in 1 .. Len(ready) : ready[k] \in Fds
  BY <1>1
<1>4. \A k \in 1 .. m : hit[k] \in 1 .. n /\ hit[k] \in 1 .. Len(ready)
  <2>1. \A k \in 1 .. m : hit[k] \in 1 .. n
    OBVIOUS
  <2>2. \A l \in 1 .. n : l \in 1 .. Len(ready)
    BY <1>2
  <2> QED
    BY <2>1, <2>2
<1>5. taken \in Seq(Fds) /\ DOMAIN taken = 1 .. m
  <2>1. \A k \in 1 .. m : ready[hit[k]] \in Fds
    BY <1>3, <1>4
  <2>2. m \in Nat
    BY <1>2
  <2>3. taken \in [1 .. m -> Fds]
    BY <2>1
  <2> HIDE DEF taken
  <2> QED
    BY <2>2, <2>3, ListOf
<1>6. /\ Len(ready) - n \in Nat
      /\ \A k \in 1 .. (Len(ready) - n) : n + k \in 1 .. Len(ready) /\ n + k \notin 1 .. n
  BY <1>2
<1>7. rest \in Seq(Fds) /\ DOMAIN rest = 1 .. (Len(ready) - n)
  <2>1. \A k \in 1 .. (Len(ready) - n) : ready[n + k] \in Fds
    BY <1>3, <1>6
  <2>2. rest \in [1 .. (Len(ready) - n) -> Fds]
    BY <2>1
  <2> HIDE DEF rest
  <2> QED
    BY <1>6, <2>2, ListOf
<1>8. \A k \in 1 .. m : taken[k] = ready[hit[k]]
  OBVIOUS
<1>9. \A k \in 1 .. (Len(ready) - n) : rest[k] = ready[n + k]
  OBVIOUS
<1> HIDE DEF taken, rest
<1>10. Once(taken)
  <2> SUFFICES ASSUME NEW j \in 1 .. m, NEW k \in 1 .. m, taken[j] = taken[k]
               PROVE  j = k
    BY <1>5 DEF Once
  <2>1. hit[j] = hit[k]
    BY <1>1, <1>4, <1>8 DEF Once
  <2>2. ~(j < k) /\ ~(k < j)
    BY <1>2, <1>4, <2>1 DEF Delivers
  <2> QED
    BY <2>2, <1>2
<1>11. Once(rest)
  <2> SUFFICES ASSUME NEW j \in 1 .. (Len(ready) - n), NEW k \in 1 .. (Len(ready) - n),
                      rest[j] = rest[k]
               PROVE  j = k
    BY <1>7 DEF Once
  <2>1. n + j = n + k
    BY <1>1, <1>6, <1>9 DEF Once
  <2> QED
    BY <2>1, <1>2
<1>12. ASSUME NEW g, Among(g, taken)
       PROVE  Raised(g) /\ ~Among(g, rest)
  <2>1. PICK k \in 1 .. m : g = ready[hit[k]]
    BY <1>5, <1>8, <1>12 DEF Among
  <2>2. Raised(g)
    BY <1>4, <2>1 DEF Delivers
  <2>3. \A j \in 1 .. (Len(ready) - n) : rest[j] # g
    BY <1>1, <1>4, <1>6, <1>9, <2>1 DEF Once
  <2> QED
    BY <1>7, <2>2, <2>3 DEF Among
<1>13. ASSUME NEW g, Among(g, ready), Raised(g)
       PROVE  Among(g, taken) \/ Among(g, rest)
  <2>1. PICK k \in 1 .. Len(ready) : ready[k] = g
    BY <1>1, <1>13 DEF Among
  <2>2. CASE k \in 1 .. n
    <3>1. PICK j \in 1 .. m : hit[j] = k
      BY <1>13, <2>1, <2>2 DEF Delivers
    <3> QED
      BY <1>5, <1>8, <2>1, <3>1 DEF Among
  <2>3. CASE k \notin 1 .. n
    <3>1. k - n \in 1 .. (Len(ready) - n) /\ n + (k - n) = k
      BY <1>2, <2>3
    <3> QED
      BY <1>7, <1>9, <2>1, <3>1 DEF Among
  <2> QED
    BY <2>2, <2>3
<1> QED
  BY <1>0, <1>5, <1>7, <1>10, <1>11, <1>12, <1>13 DEF taken
-----------------------------------------------------------------------------
(* What holds in every state, besides the properties themselves *)

(* The listen queue holds each waiting connection once; an open descriptor *)
(* has one holder and is one of those the process has.                     *)
QueueInv ==
  /\ \A k \in 1 .. Len(backlog) : conn[backlog[k]] = "queued"
  /\ \A j, k \in 1 .. Len(backlog) : backlog[j] = backlog[k] => j = k

OneHolder ==
  \A c, d \in Conns :
    conn[c] = "up" /\ conn[d] = "up" /\ fd[c] = fd[d] => c = d

UpHasFd == \A c \in Conns : conn[c] = "up" => fd[c] \in ClientFds

SocketsInv == QueueInv /\ OneHolder /\ UpHasFd

ListsInv == Once(ready) /\ Once(batch)

(* create_server opens one descriptor after the other, before any client.  *)
CreateInv ==
  /\ pc \in Creating => \A c \in Conns : conn[c] = "new"
  /\ pc \in Creating \cup {"wait"} => batch = <<>>
  /\ pc = "socket" => open = {}
  /\ pc \in {"bind", "listen", "epoll_create"} => open = {"server"}
  /\ pc = "epoll_add" => open = {"server", "epoll"}
  /\ CleanFailure

(* An answered connection is closed in the same step. *)
AnsweredDown == \A c \in Conns : answer[c] # "none" => conn[c] = "down"

EpollInv == /\ SocketsInv
            /\ ListsInv
            /\ CreateInv
            /\ AnsweredDown
            /\ NoLostEdge
            /\ EventsAreFresh

(* Freshness by what is on the batch, not by position. *)
LEMMA FreshByContent == EventsAreFresh <=> (Running => \A f : Among(f, batch) => Raised(f))
BY DEF EventsAreFresh, Among

LEMMA FreshByContentNext ==
  EventsAreFresh' <=> (Running' => \A f : Among(f, batch)' => Raised(f)')
BY DEF EventsAreFresh, Among

-----------------------------------------------------------------------------
(* Types *)

LEMMA CreateType ==
  ASSUME TypeOK, CreateServer \/ CreateFails \/ WaitFails \/ EndBatch
  PROVE  TypeOK'
<1>1. /\ UNCHANGED <<client, count, ready, batch>>
      /\ open' \in SUBSET {"server", "epoll"}
      /\ pc' \in Creating \cup {"wait", "failed", "stopped"}
  BY DEF CreateServer, CreateStep, CreateFails, WaitFails, EndBatch, Creating, Closed, TypeOK
<1> QED
  BY <1>1 DEF TypeOK, client

LEMMA WaitType == ASSUME TypeOK, ListsInv, Wait PROVE TypeOK'
<1>1. ready \in Seq(Fds) /\ Once(ready)
  BY DEF TypeOK, Fds, ListsInv
<1>2. PICK n \in DOMAIN ready, m \in DOMAIN ready : \E hit \in [1 .. m -> 1 .. n] :
        /\ Delivers(n, m, hit)
        /\ batch' = [k \in 1 .. m |-> ready[hit[k]]]
        /\ ready' = IF Among(ServerFd, batch') THEN Append(Beyond(n), ServerFd)
                                               ELSE Beyond(n)
  BY DEF Wait
<1>3. batch' \in Seq(Fds) /\ Beyond(n) \in Seq(Fds)
  BY <1>1, <1>2, DeliveredLists
<1>4. ServerFd \in Fds
  BY DEF Fds
<1>5. ready' \in Seq(Fds)
  BY <1>2, <1>3, <1>4
<1> QED
  BY <1>3, <1>5 DEF Wait, TypeOK, client, Fds

LEMMA ClientType ==
  ASSUME TypeOK, ListsInv, UpHasFd, NEW c \in Conns, Client(c)
  PROVE  TypeOK'
<1>1. ready \in Seq(Fds) /\ Once(ready) /\ ServerFd \in Fds
  BY DEF TypeOK, Fds, ListsInv
<1>2. ready' \in Seq(Fds)
  <2>1. CASE Connect(c)
    BY <1>1, <2>1, WokenList DEF Connect
  <2>2. CASE Arrive(c)
    <3>1. CASE conn[c] = "up"
      <4>1. fd[c] \in Fds /\ ready' = Woken(fd[c])
        BY <2>2, <3>1 DEF Arrive, UpHasFd, Fds
      <4> QED
        BY <1>1, <4>1, WokenList
    <3> QED
      BY <1>1, <2>2, <3>1 DEF Arrive
  <2> QED
    BY <2>1, <2>2 DEF Client, Send, Leave
<1>3. /\ conn' \in [Conns -> {"new", "queued", "up", "down"}]
      /\ unread' \in [Conns -> BOOLEAN]
      /\ eof' \in [Conns -> {"no", "fin", "rst"}]
  BY DEF Client, Connect, Send, Leave, TypeOK
<1>4. backlog' \in Seq(Conns)
  <2>1. backlog \in Seq(Conns) /\ (backlog' = backlog \/ backlog' = Append(backlog, c))
    BY DEF Client, Connect, Send, Leave, TypeOK
  <2> QED
    BY <2>1
<1>5. UNCHANGED <<fd, answer, count, batch, open, pc>>
  BY DEF Client, Connect, Send, Leave
<1> QED
  BY <1>2, <1>3, <1>4, <1>5 DEF TypeOK, Fds

LEMMA AcceptType ==
  ASSUME TypeOK, ListsInv, NEW c \in Conns,
         (\E f \in ClientFds : Accept(c, f)) \/ AcceptDrops(c)
  PROVE  TypeOK'
<1>1. ready \in Seq(Fds) /\ batch \in Seq(Fds) /\ Once(ready) /\ Once(batch)
  BY DEF TypeOK, Fds, ListsInv
<1>2. /\ batch # <<>> /\ backlog # <<>> /\ pc = "batch"
      /\ batch' = Tail(batch) /\ backlog' = Tail(backlog)
      /\ UNCHANGED <<answer, count, open, pc>>
      /\ conn' = [conn EXCEPT ![c] = "up"] \/ conn' = [conn EXCEPT ![c] = "down"]
  BY DEF Accept, AcceptDrops, Dequeue, At
<1>3. batch' \in Seq(Fds) /\ backlog' \in Seq(Conns)
  BY <1>1, <1>2 DEF TypeOK
<1>4. ready' \in Seq(Fds)
  <2>1. ASSUME NEW f \in ClientFds, Accept(c, f) PROVE ready' \in Seq(Fds)
    <3>1. f \in Fds
      BY DEF Fds
    <3> QED
      BY <1>1, <2>1, <3>1, WokenList DEF Accept
  <2> QED
    BY <1>1, <2>1 DEF AcceptDrops
<1>5. /\ fd' \in [Conns -> {NoFd} \cup ClientFds]
      /\ unread' \in [Conns -> BOOLEAN]
      /\ eof' \in [Conns -> {"no", "fin", "rst"}]
  <2>1. /\ fd \in [Conns -> {NoFd} \cup ClientFds]
        /\ unread \in [Conns -> BOOLEAN]
        /\ eof \in [Conns -> {"no", "fin", "rst"}]
    BY DEF TypeOK
  <2>2. CASE \E f \in ClientFds : Accept(c, f)
    BY <2>1, <2>2 DEF Accept
  <2>3. CASE AcceptDrops(c)
    BY <2>1, <2>3 DEF AcceptDrops
  <2> QED
    BY <2>2, <2>3
<1>6. conn' \in [Conns -> {"new", "queued", "up", "down"}]
  BY <1>2 DEF TypeOK
<1>7. (answer \in [Conns -> {"none", "http"}] /\ count \in Nat
       /\ open \in SUBSET {"server", "epoll"}
       /\ pc \in Creating \cup {"wait", "batch", "failed", "stopped", "killed"})'
  <2>1. Creating' = Creating
    BY DEF Creating
  <2> QED
    BY <1>2, <2>1, Zenon DEF TypeOK
<1> QED
  BY <1>3, <1>4, <1>5, <1>6, <1>7, Zenon DEF TypeOK, Fds

LEMMA PassType == ASSUME TypeOK, Pass PROVE TypeOK'
<1>1. batch \in Seq(Fds) /\ batch # <<>> /\ batch' = Tail(batch)
  BY DEF TypeOK, Fds, Pass
<1>2. batch' \in Seq(Fds)
  BY <1>1
<1> QED
  BY <1>2 DEF Pass, client, TypeOK, Fds

LEMMA ReadType ==
  ASSUME TypeOK, ListsInv, NEW c \in Conns,
         Respond(c) \/ Hangup(c) \/ RespondDies(c)
  PROVE  TypeOK'
<1>1. ready \in Seq(Fds) /\ batch \in Seq(Fds) /\ Once(ready)
  BY DEF TypeOK, Fds, ListsInv
<1>2. CASE RespondDies(c)
  BY <1>2 DEF RespondDies, client, TypeOK
<1>3. CASE Respond(c) \/ Hangup(c)
  <2>1. CloseFd(c) /\ batch # <<>>
    BY <1>3 DEF Respond, Hangup, AtClient
  <2>2. batch' \in Seq(Fds) /\ ready' \in Seq(Fds)
    BY <1>1, <2>1, WithoutList DEF CloseFd
  <2>3. answer' \in [Conns -> {"none", "http"}] /\ count' \in Nat
    BY <1>3 DEF Respond, Hangup, TypeOK
  <2> QED
    BY <2>1, <2>2, <2>3 DEF CloseFd, TypeOK, Fds
<1> QED
  BY <1>2, <1>3

-----------------------------------------------------------------------------
(* Steps of the thread that touch no connection *)

LEMMA CreateKeeps ==
  ASSUME TypeOK, EpollInv, CreateServer \/ CreateFails \/ WaitFails \/ EndBatch
  PROVE  EpollInv'
<1>1. UNCHANGED <<client, count, ready, batch>>
  BY DEF CreateServer, CreateStep, CreateFails, WaitFails, EndBatch
<1>2. SocketsInv' /\ ListsInv' /\ AnsweredDown'
  BY <1>1 DEF EpollInv, client, SocketsInv, QueueInv, OneHolder, UpHasFd,
              ListsInv, Once, AnsweredDown
<1>3. CreateInv'
  BY <1>1 DEF CreateServer, CreateStep, CreateFails, WaitFails, EndBatch, Creating,
              Closed, CleanFailure, EpollInv, CreateInv, client
<1>4. Running' => (Running \/ ((\A c \in Conns : conn[c] = "new") /\ batch = <<>>))
  BY DEF CreateServer, CreateStep, CreateFails, WaitFails, EndBatch, Creating,
         Running, EpollInv, CreateInv
<1>5. NoLostEdge'
  BY <1>1, <1>4 DEF EpollInv, NoLostEdge, client, Readable, Among
<1>6. EventsAreFresh'
  BY <1>1, <1>4 DEF EpollInv, EventsAreFresh, client, Raised, Holds, Readable
<1> QED
  BY <1>2, <1>3, <1>5, <1>6 DEF EpollInv

LEMMA DyingKeeps ==
  ASSUME TypeOK, EpollInv, NEW c \in Conns, RespondDies(c)
  PROVE  EpollInv'
BY DEF RespondDies, client, EpollInv, SocketsInv, QueueInv, OneHolder, UpHasFd,
       ListsInv, Once, AnsweredDown, CreateInv, Creating, CleanFailure, NoLostEdge,
       EventsAreFresh, Running

LEMMA StutterKeeps ==
  ASSUME EpollInv, UNCHANGED vars
  PROVE  EpollInv'
<1>1. NoLostEdge' /\ EventsAreFresh'
  BY DEF EpollInv, vars, client, NoLostEdge, EventsAreFresh, Running, Readable, Among,
         Raised, Holds
<1> QED
  BY <1>1 DEF EpollInv, vars, client, SocketsInv, QueueInv, OneHolder, UpHasFd, ListsInv,
              Once, AnsweredDown, CreateInv, CleanFailure

(* Whatever epoll_wait takes off the ready list it delivers, unless there  *)
(* is nothing to read any more.                                            *)
LEMMA WaitKeeps == ASSUME TypeOK, EpollInv, Wait PROVE EpollInv'
<1>1. ready \in Seq(Fds) /\ Once(ready)
  BY DEF TypeOK, Fds, EpollInv, ListsInv
<1>2. PICK n \in DOMAIN ready, m \in DOMAIN ready : \E hit \in [1 .. m -> 1 .. n] :
        /\ Delivers(n, m, hit)
        /\ batch' = [k \in 1 .. m |-> ready[hit[k]]]
        /\ ready' = IF Among(ServerFd, batch') THEN Append(Beyond(n), ServerFd)
                                               ELSE Beyond(n)
  BY DEF Wait
<1>3. PICK hit \in [1 .. m -> 1 .. n] :
        /\ Delivers(n, m, hit)
        /\ batch' = [k \in 1 .. m |-> ready[hit[k]]]
        /\ ready' = IF Among(ServerFd, batch') THEN Append(Beyond(n), ServerFd)
                                               ELSE Beyond(n)
  BY <1>2
<1>4. /\ Once(batch')
      /\ Beyond(n) \in Seq(Fds) /\ Once(Beyond(n))
      /\ \A g : Among(g, batch') => Raised(g) /\ ~Among(g, Beyond(n))
      /\ \A g : Among(g, ready) /\ Raised(g) => Among(g, batch') \/ Among(g, Beyond(n))
  BY <1>1, <1>3, DeliveredLists
<1>5. /\ pc = "wait" /\ pc' = "batch" /\ UNCHANGED <<client, count, open>>
  BY DEF Wait
<1>6. Once(ready') /\ \A g : Among(g, Beyond(n)) => Among(g, ready')
  <2>1. CASE ~Among(ServerFd, batch')
    BY <1>3, <1>4, <2>1
  <2>2. CASE Among(ServerFd, batch')
    <3>1. ready' = Append(Beyond(n), ServerFd) /\ ~Among(ServerFd, Beyond(n))
      BY <1>3, <1>4, <2>2
    <3> DEFINE rest == Beyond(n)
    <3> HIDE DEF rest
    <3>2. rest \in Seq(Fds) /\ Once(rest) /\ ~Among(ServerFd, rest)
      BY <1>4, <3>1 DEF rest
    <3>3. /\ Len(rest) \in Nat
          /\ DOMAIN rest = 1 .. Len(rest)
          /\ DOMAIN Append(rest, ServerFd) = 1 .. (Len(rest) + 1)
          /\ \A k \in 1 .. Len(rest) : Append(rest, ServerFd)[k] = rest[k]
          /\ Append(rest, ServerFd)[Len(rest) + 1] = ServerFd
      BY <3>2
    <3>4. \A k \in 1 .. (Len(rest) + 1) : k \in 1 .. Len(rest) \/ k = Len(rest) + 1
      BY <3>3
    <3>5. \A k \in 1 .. Len(rest) : k \in 1 .. (Len(rest) + 1) /\ rest[k] # ServerFd
      BY <3>2, <3>3 DEF Among
    <3>6. Once(Append(rest, ServerFd))
      BY <3>2, <3>3, <3>4, <3>5 DEF Once
    <3>7. \A g : Among(g, rest) => Among(g, Append(rest, ServerFd))
      BY <3>3, <3>5 DEF Among
    <3> QED
      BY <3>1, <3>6, <3>7 DEF rest
  <2> QED
    BY <2>1, <2>2
<1>7. batch = <<>>
  BY <1>5 DEF EpollInv, CreateInv
<1>8. NoLostEdge'
  <2> SUFFICES ASSUME NEW c \in Conns, conn[c] = "up", Readable(c)
               PROVE  Among(fd[c], ready') \/ Among(fd[c], batch')
    BY <1>5 DEF NoLostEdge, client, Readable, Among
  <2>1. Running /\ ~Among(fd[c], batch)
    BY <1>5, <1>7 DEF Running, Among
  <2>2. Among(fd[c], ready)
    BY <2>1 DEF EpollInv, NoLostEdge
  <2>3. Raised(fd[c])
    BY DEF Raised, Holds
  <2> QED
    BY <1>4, <1>6, <2>2, <2>3
<1>9. EventsAreFresh'
  <2>1. \A g : Raised(g)' <=> Raised(g)
    BY <1>5 DEF Raised, Holds, Readable, client
  <2>2. \A g : Among(g, batch)' <=> Among(g, batch')
    BY DEF Among
  <2> QED
    BY <1>4, <2>1, <2>2, FreshByContentNext
<1>10. SocketsInv' /\ AnsweredDown' /\ CreateInv'
  BY <1>5 DEF EpollInv, client, SocketsInv, QueueInv, OneHolder, UpHasFd, AnsweredDown,
              CreateInv, Creating, CleanFailure
<1>11. ListsInv'
  BY <1>4, <1>6 DEF ListsInv, Once
<1> QED
  BY <1>8, <1>9, <1>10, <1>11 DEF EpollInv

-----------------------------------------------------------------------------
(* Clients: what they do only adds edges and things to read *)

LEMMA ConnectKeeps ==
  ASSUME TypeOK, EpollInv, NEW c \in Conns, Connect(c)
  PROVE  EpollInv'
<1>1. /\ Running /\ conn[c] = "new" /\ conn' = [conn EXCEPT ![c] = "queued"]
      /\ backlog' = Append(backlog, c)
      /\ ready' = Woken(ServerFd)
      /\ UNCHANGED <<fd, unread, eof, answer, count, batch, open, pc>>
  BY DEF Connect
<1>2. /\ conn'[c] = "queued"
      /\ \A d \in Conns : d # c => conn'[d] = conn[d]
  BY <1>1 DEF TypeOK
<1>3. /\ ready \in Seq(Fds) /\ Once(ready) /\ ServerFd \in Fds
      /\ Once(ready')
      /\ \A g : Among(g, ready) => Among(g, ready')
  BY <1>1, WokenList DEF TypeOK, Fds, EpollInv, ListsInv
<1>4. QueueInv'
  <2>1. /\ Len(backlog) \in Nat
        /\ Len(backlog') = Len(backlog) + 1
        /\ backlog'[Len(backlog) + 1] = c
        /\ \A k \in 1 .. Len(backlog) : backlog'[k] = backlog[k] /\ backlog[k] \in Conns
    BY <1>1 DEF TypeOK
  <2>2. \A k \in 1 .. Len(backlog) : backlog[k] # c
    BY <1>1 DEF EpollInv, SocketsInv, QueueInv
  <2>3. \A k \in 1 .. Len(backlog') : k \in 1 .. Len(backlog) \/ k = Len(backlog) + 1
    BY <2>1
  <2>4. \A k \in 1 .. Len(backlog') : conn'[backlog'[k]] = "queued"
    BY <1>2, <2>1, <2>2, <2>3 DEF EpollInv, SocketsInv, QueueInv
  <2>5. \A j, k \in 1 .. Len(backlog') : backlog'[j] = backlog'[k] => j = k
    BY <2>1, <2>2, <2>3 DEF EpollInv, SocketsInv, QueueInv
  <2> QED
    BY <2>4, <2>5 DEF QueueInv
<1>5. OneHolder' /\ UpHasFd' /\ AnsweredDown'
  BY <1>1, <1>2 DEF EpollInv, SocketsInv, OneHolder, UpHasFd, AnsweredDown
<1>6. ListsInv' /\ CreateInv'
  <2>1. pc \notin Creating
    BY <1>1 DEF Running, Creating
  <2> QED
    BY <1>1, <1>3, <2>1 DEF EpollInv, ListsInv, Once, CreateInv, CleanFailure
<1>7. NoLostEdge'
  <2> SUFFICES ASSUME NEW d \in Conns, conn'[d] = "up", Readable(d)'
               PROVE  Among(fd[d], ready') \/ Among(fd[d], batch)
    BY <1>1 DEF NoLostEdge, Among
  <2>1. conn[d] = "up" /\ Readable(d)
    BY <1>1, <1>2 DEF Readable
  <2> QED
    BY <1>1, <1>3, <2>1 DEF EpollInv, NoLostEdge
<1>8. EventsAreFresh'
  <2>1. ASSUME NEW f, Raised(f) PROVE Raised(f)'
    <3>1. CASE f = ServerFd /\ backlog # <<>>
      <4>1. backlog \in Seq(Conns) /\ backlog' = Append(backlog, c)
        BY <1>1 DEF TypeOK
      <4>2. Len(backlog') = Len(backlog) + 1 /\ Len(backlog) \in Nat
        BY <4>1
      <4>3. backlog' # <<>>
        BY <4>2
      <4> QED
        BY <3>1, <4>3 DEF Raised
    <3>2. CASE \E d \in Conns : Holds(d, f) /\ Readable(d)
      BY <1>1, <1>2, <3>2 DEF Raised, Holds, Readable
    <3> QED
      BY <2>1, <3>1, <3>2 DEF Raised
  <2>2. \A f : Among(f, batch) => Raised(f)
    BY <1>1, FreshByContent DEF EpollInv
  <2>3. \A f : Among(f, batch)' <=> Among(f, batch)
    BY <1>1 DEF Among
  <2> QED
    BY <2>1, <2>2, <2>3, FreshByContentNext
<1> QED
  BY <1>4, <1>5, <1>6, <1>7, <1>8 DEF EpollInv, SocketsInv

LEMMA ArriveKeeps ==
  ASSUME TypeOK, EpollInv, NEW c \in Conns, Send(c) \/ Leave(c)
  PROVE  EpollInv'
<1>1. /\ Running /\ conn[c] \in {"queued", "up"} /\ Arrive(c)
      /\ UNCHANGED <<conn, fd, backlog, answer, count, batch, open, pc>>
  BY DEF Send, Leave
<1>2. /\ \A d \in Conns : d # c => (Readable(d)' <=> Readable(d))
      /\ Readable(c)'
  BY DEF Send, Leave, Readable, TypeOK
<1>3. /\ Once(ready')
      /\ \A g : Among(g, ready) => Among(g, ready')
      /\ conn[c] = "up" => Among(fd[c], ready')
  <2>1. ready \in Seq(Fds) /\ Once(ready)
    BY DEF TypeOK, Fds, EpollInv, ListsInv
  <2>2. CASE conn[c] = "up"
    <3>1. fd[c] \in Fds /\ ready' = Woken(fd[c])
      BY <1>1, <2>2 DEF Arrive, EpollInv, SocketsInv, UpHasFd, Fds
    <3> QED
      BY <2>1, <3>1, WokenList
  <2>3. CASE conn[c] # "up"
    BY <1>1, <2>1, <2>3 DEF Arrive
  <2> QED
    BY <2>2, <2>3
<1>4. SocketsInv' /\ AnsweredDown' /\ CreateInv'
  BY <1>1 DEF EpollInv, SocketsInv, QueueInv, OneHolder, UpHasFd, AnsweredDown,
              CreateInv, CleanFailure
<1>5. ListsInv'
  BY <1>1, <1>3 DEF EpollInv, ListsInv, Once
<1>6. NoLostEdge'
  <2> SUFFICES ASSUME NEW d \in Conns, conn[d] = "up", Readable(d)'
               PROVE  Among(fd[d], ready') \/ Among(fd[d], batch)
    BY <1>1 DEF NoLostEdge, Among
  <2> QED
    BY <1>1, <1>2, <1>3 DEF EpollInv, NoLostEdge
<1>7. EventsAreFresh'
  <2>1. \A f : Raised(f) => Raised(f)'
    BY <1>1, <1>2 DEF Raised, Holds
  <2>2. \A f : Among(f, batch) => Raised(f)
    BY <1>1, FreshByContent DEF EpollInv
  <2>3. \A f : Among(f, batch)' <=> Among(f, batch)
    BY <1>1 DEF Among
  <2> QED
    BY <2>1, <2>2, <2>3, FreshByContentNext
<1> QED
  BY <1>4, <1>5, <1>6, <1>7 DEF EpollInv

-----------------------------------------------------------------------------
(* Working through the batch *)

(* An event that came to nothing announced nothing that is still there.    *)
LEMMA PassKeeps == ASSUME TypeOK, EpollInv, Pass PROVE EpollInv'
<1>1. /\ pc = "batch" /\ batch # <<>> /\ Idle
      /\ batch' = Tail(batch)
      /\ UNCHANGED <<client, count, ready, open, pc>>
  BY DEF Pass
<1>2. /\ Once(batch')
      /\ \A g : Among(g, batch') <=> Among(g, batch) /\ g # Head(batch)
  BY <1>1, TailList DEF TypeOK, Fds, EpollInv, ListsInv
<1>3. SocketsInv' /\ AnsweredDown' /\ CreateInv' /\ ListsInv'
  BY <1>1, <1>2 DEF client, EpollInv, SocketsInv, QueueInv, OneHolder, UpHasFd,
              AnsweredDown, CreateInv, Creating, CleanFailure, ListsInv, Once
<1>4. NoLostEdge'
  <2> SUFFICES ASSUME NEW d \in Conns, conn[d] = "up", Readable(d)
               PROVE  Among(fd[d], ready) \/ Among(fd[d], batch')
    BY <1>1 DEF NoLostEdge, client, Readable, Among
  <2>1. Among(fd[d], ready) \/ Among(fd[d], batch)
    BY <1>1 DEF EpollInv, NoLostEdge, Running
  <2>2. fd[d] # ServerFd
    BY DEF EpollInv, SocketsInv, UpHasFd, ClientFds, ServerFd
  <2>3. fd[d] # Head(batch)
    BY <1>1, <2>2 DEF Idle, Holds
  <2> QED
    BY <1>2, <2>1, <2>3
<1>5. EventsAreFresh'
  <2>1. \A f : Raised(f)' <=> Raised(f)
    BY <1>1 DEF Raised, Holds, Readable, client
  <2>2. \A f : Among(f, batch) => Raised(f)
    BY <1>1, FreshByContent DEF EpollInv, Running
  <2>3. \A f : Among(f, batch)' <=> Among(f, batch')
    BY DEF Among
  <2> QED
    BY <1>2, <2>1, <2>2, <2>3, FreshByContentNext
<1> QED
  BY <1>3, <1>4, <1>5 DEF EpollInv

(* The head of the listen queue leaves it, for a descriptor nobody holds.  *)
LEMMA DequeueKeeps ==
  ASSUME TypeOK, EpollInv, NEW c \in Conns, NEW status \in {"up", "down"},
         Dequeue(c, status)
  PROVE  /\ conn[c] = "queued"
         /\ QueueInv'
         /\ CreateInv'
         /\ Once(batch')
         /\ \A g : Among(g, batch') <=> Among(g, batch) /\ g # ServerFd
         /\ conn'[c] = status
         /\ \A d \in Conns : d # c => conn'[d] = conn[d]
         /\ Running /\ Running'
<1>1. /\ pc = "batch" /\ batch # <<>> /\ Head(batch) = ServerFd
      /\ backlog # <<>> /\ c = Head(backlog)
      /\ backlog' = Tail(backlog)
      /\ conn' = [conn EXCEPT ![c] = status]
      /\ batch' = Tail(batch)
      /\ UNCHANGED <<answer, count, open, pc>>
  BY DEF Dequeue, At
<1>2. /\ backlog \in Seq(Conns)
      /\ c = backlog[1]
      /\ Len(backlog) \in Nat \ {0}
      /\ Len(backlog') = Len(backlog) - 1
      /\ \A k \in 1 .. (Len(backlog) - 1) : backlog'[k] = backlog[k + 1]
  BY <1>1 DEF TypeOK
<1>3. conn'[c] = status /\ \A d \in Conns : d # c => conn'[d] = conn[d]
  BY <1>1 DEF TypeOK
<1>4. conn[c] = "queued" /\ \A k \in 2 .. Len(backlog) : backlog[k] # c
  BY <1>2 DEF EpollInv, SocketsInv, QueueInv
<1>5. \A k \in 1 .. Len(backlog') :
        /\ k + 1 \in 2 .. Len(backlog) /\ k + 1 \in 1 .. Len(backlog)
        /\ backlog'[k] = backlog[k + 1]
        /\ backlog[k + 1] \in Conns
  BY <1>2
<1>6. \A k \in 1 .. Len(backlog') : conn'[backlog'[k]] = "queued"
  BY <1>3, <1>4, <1>5 DEF EpollInv, SocketsInv, QueueInv
<1>7. ASSUME NEW j \in 1 .. Len(backlog'), NEW k \in 1 .. Len(backlog'),
             backlog'[j] = backlog'[k]
      PROVE  j = k
  <2>1. j + 1 = k + 1
    BY <1>5, <1>7 DEF EpollInv, SocketsInv, QueueInv
  <2> QED
    BY <2>1, <1>2
<1>8. QueueInv'
  BY <1>6, <1>7 DEF QueueInv
<1>9. CreateInv'
  BY <1>1 DEF EpollInv, CreateInv, Creating, CleanFailure
<1>10. Once(batch') /\ \A g : Among(g, batch') <=> Among(g, batch) /\ g # ServerFd
  BY <1>1, TailList DEF TypeOK, Fds, EpollInv, ListsInv
<1> QED
  BY <1>1, <1>3, <1>4, <1>8, <1>9, <1>10 DEF Running

(* A new connection is on the ready list at once if it has something.      *)
LEMMA AcceptKeeps ==
  ASSUME TypeOK, EpollInv, NEW c \in Conns, NEW f \in ClientFds, Accept(c, f)
  PROVE  EpollInv'
<1>1. /\ LowestFree(f) /\ Dequeue(c, "up")
      /\ fd' = [fd EXCEPT ![c] = f]
      /\ ready' = IF Readable(c) THEN Woken(f) ELSE ready
      /\ UNCHANGED <<unread, eof, answer>>
  BY DEF Accept, Dequeue
<1>2. /\ conn[c] = "queued"
      /\ QueueInv'
      /\ CreateInv'
      /\ Once(batch')
      /\ \A g : Among(g, batch') <=> Among(g, batch) /\ g # ServerFd
      /\ conn'[c] = "up"
      /\ \A d \in Conns : d # c => conn'[d] = conn[d]
      /\ Running /\ Running'
  BY <1>1, DequeueKeeps
<1>3. fd'[c] = f /\ \A d \in Conns : d # c => fd'[d] = fd[d]
  BY <1>1 DEF TypeOK
<1>4. \A d \in Conns : ~(conn[d] = "up" /\ fd[d] = f)
  BY <1>1 DEF LowestFree, Free, Holds
<1>5. OneHolder' /\ UpHasFd' /\ AnsweredDown'
  BY <1>1, <1>2, <1>3, <1>4 DEF EpollInv, SocketsInv, OneHolder, UpHasFd, AnsweredDown
<1>6. /\ Once(ready')
      /\ \A g : Among(g, ready) => Among(g, ready')
      /\ Readable(c) => Among(f, ready')
  <2>1. ready \in Seq(Fds) /\ Once(ready) /\ f \in Fds
    BY DEF TypeOK, Fds, EpollInv, ListsInv
  <2>2. CASE Readable(c)
    BY <1>1, <2>1, <2>2, WokenList
  <2>3. CASE ~Readable(c)
    BY <1>1, <2>1, <2>3
  <2> QED
    BY <2>2, <2>3
<1>7. NoLostEdge'
  <2> SUFFICES ASSUME NEW d \in Conns, conn'[d] = "up", Readable(d)
               PROVE  Among(fd'[d], ready') \/ Among(fd'[d], batch')
    BY <1>1 DEF NoLostEdge, Readable, Among
  <2>1. CASE d = c
    BY <1>3, <1>6, <2>1
  <2>2. CASE d # c
    <3>1. conn[d] = "up" /\ fd'[d] = fd[d] /\ fd[d] # ServerFd
      BY <1>2, <1>3, <2>2 DEF EpollInv, SocketsInv, UpHasFd, ClientFds, ServerFd
    <3> QED
      BY <1>2, <1>6, <3>1 DEF EpollInv, NoLostEdge
  <2> QED
    BY <2>1, <2>2
<1>8. EventsAreFresh'
  <2>1. ASSUME NEW g, Raised(g), g # ServerFd PROVE Raised(g)'
    <3>1. PICK d \in Conns : conn[d] = "up" /\ fd[d] = g /\ Readable(d)
      BY <2>1 DEF Raised, Holds
    <3>2. conn'[d] = "up" /\ fd'[d] = g /\ Readable(d)'
      BY <1>1, <1>2, <1>3, <3>1 DEF Readable
    <3> QED
      BY <3>2 DEF Raised, Holds
  <2>2. \A g : Among(g, batch) => Raised(g)
    BY <1>2, FreshByContent DEF EpollInv
  <2>3. \A g : Among(g, batch)' <=> Among(g, batch')
    BY DEF Among
  <2> QED
    BY <1>2, <2>1, <2>2, <2>3, FreshByContentNext
<1>9. ListsInv'
  BY <1>2, <1>6 DEF ListsInv, Once
<1> QED
  BY <1>2, <1>5, <1>7, <1>8, <1>9 DEF EpollInv, SocketsInv

LEMMA AcceptDropsKeeps ==
  ASSUME TypeOK, EpollInv, NEW c \in Conns, AcceptDrops(c)
  PROVE  EpollInv'
<1>1. /\ Dequeue(c, "down")
      /\ unread' = [unread EXCEPT ![c] = FALSE]
      /\ eof' = [eof EXCEPT ![c] = "no"]
      /\ UNCHANGED <<fd, ready, answer>>
  BY DEF AcceptDrops, Dequeue
<1>2. /\ conn[c] = "queued"
      /\ QueueInv'
      /\ CreateInv'
      /\ Once(batch')
      /\ \A g : Among(g, batch') <=> Among(g, batch) /\ g # ServerFd
      /\ conn'[c] = "down"
      /\ \A d \in Conns : d # c => conn'[d] = conn[d]
      /\ Running /\ Running'
  BY <1>1, DequeueKeeps
<1>3. \A d \in Conns : d # c => (Readable(d)' <=> Readable(d))
  BY <1>1 DEF Readable, TypeOK
<1>4. OneHolder' /\ UpHasFd' /\ AnsweredDown'
  BY <1>1, <1>2 DEF EpollInv, SocketsInv, OneHolder, UpHasFd, AnsweredDown
<1>5. NoLostEdge'
  <2> SUFFICES ASSUME NEW d \in Conns, conn'[d] = "up", Readable(d)'
               PROVE  Among(fd[d], ready) \/ Among(fd[d], batch')
    BY <1>1 DEF NoLostEdge, Among
  <2>1. conn[d] = "up" /\ Readable(d) /\ fd[d] # ServerFd
    BY <1>2, <1>3 DEF EpollInv, SocketsInv, UpHasFd, ClientFds, ServerFd
  <2> QED
    BY <1>2, <2>1 DEF EpollInv, NoLostEdge
<1>6. EventsAreFresh'
  <2>1. ASSUME NEW g, Raised(g), g # ServerFd PROVE Raised(g)'
    <3>1. PICK d \in Conns : conn[d] = "up" /\ fd[d] = g /\ Readable(d)
      BY <2>1 DEF Raised, Holds
    <3>2. conn'[d] = "up" /\ fd'[d] = g /\ Readable(d)'
      BY <1>1, <1>2, <1>3, <3>1
    <3> QED
      BY <3>2 DEF Raised, Holds
  <2>2. \A g : Among(g, batch) => Raised(g)
    BY <1>2, FreshByContent DEF EpollInv
  <2>3. \A g : Among(g, batch)' <=> Among(g, batch')
    BY DEF Among
  <2> QED
    BY <1>2, <2>1, <2>2, <2>3, FreshByContentNext
<1>7. ListsInv'
  BY <1>1, <1>2 DEF EpollInv, ListsInv, Once
<1> QED
  BY <1>2, <1>4, <1>5, <1>6, <1>7 DEF EpollInv, SocketsInv

(* A close takes the descriptor off both lists, and nothing else: this is  *)
(* what makes reuse within a batch harmless.                               *)
LEMMA CloseKeeps ==
  ASSUME TypeOK, EpollInv, NEW c \in Conns, Respond(c) \/ Hangup(c)
  PROVE  EpollInv'
<1>1. /\ pc = "batch" /\ batch # <<>> /\ conn[c] = "up" /\ fd[c] = Head(batch)
      /\ conn' = [conn EXCEPT ![c] = "down"]
      /\ unread' = [unread EXCEPT ![c] = FALSE]
      /\ eof' = [eof EXCEPT ![c] = "no"]
      /\ ready' = Without(fd[c])
      /\ batch' = Tail(batch)
      /\ UNCHANGED <<fd, backlog, open, pc>>
  BY DEF Respond, Hangup, AtClient, Holds, CloseFd
<1>2. /\ conn'[c] = "down"
      /\ \A d \in Conns : d # c => conn'[d] = conn[d] /\ (Readable(d)' <=> Readable(d))
  BY <1>1 DEF Readable, TypeOK
<1>3. \A d \in Conns : d # c => answer'[d] = answer[d]
  BY DEF Respond, Hangup, TypeOK
<1>4. /\ Once(batch')
      /\ \A g : Among(g, batch') <=> Among(g, batch) /\ g # fd[c]
      /\ Once(ready')
      /\ \A g : Among(g, ready) /\ g # fd[c] => Among(g, ready')
  BY <1>1, TailList, WithoutList DEF TypeOK, Fds, EpollInv, ListsInv
<1>5. \A d \in Conns : conn[d] = "up" /\ d # c => fd[d] # fd[c]
  BY <1>1 DEF EpollInv, SocketsInv, OneHolder
<1>6. QueueInv'
  <2>1. \A k \in 1 .. Len(backlog) : backlog[k] \in Conns
    BY DEF TypeOK
  <2> QED
    BY <1>1, <1>2, <2>1 DEF EpollInv, SocketsInv, QueueInv
<1>7. OneHolder' /\ UpHasFd' /\ AnsweredDown'
  BY <1>1, <1>2, <1>3 DEF EpollInv, SocketsInv, OneHolder, UpHasFd, AnsweredDown
<1>8. CreateInv' /\ ListsInv'
  BY <1>1, <1>4 DEF EpollInv, CreateInv, Creating, CleanFailure, ListsInv, Once
<1>9. NoLostEdge'
  <2> SUFFICES ASSUME NEW d \in Conns, conn'[d] = "up", Readable(d)'
               PROVE  Among(fd[d], ready') \/ Among(fd[d], batch')
    BY <1>1 DEF NoLostEdge, Among
  <2>1. conn[d] = "up" /\ Readable(d) /\ fd[d] # fd[c]
    BY <1>2, <1>5
  <2>2. Among(fd[d], ready) \/ Among(fd[d], batch)
    BY <1>1, <2>1 DEF EpollInv, NoLostEdge, Running
  <2> QED
    BY <1>4, <2>1, <2>2
<1>10. EventsAreFresh'
  <2>1. ASSUME NEW g, Raised(g), g # fd[c] PROVE Raised(g)'
    <3>1. CASE g = ServerFd /\ backlog # <<>>
      BY <1>1, <3>1 DEF Raised
    <3>2. CASE \E d \in Conns : Holds(d, g) /\ Readable(d)
      <4>1. PICK d \in Conns : conn[d] = "up" /\ fd[d] = g /\ Readable(d)
        BY <3>2 DEF Holds
      <4>2. conn'[d] = "up" /\ fd'[d] = g /\ Readable(d)'
        BY <1>1, <1>2, <2>1, <4>1
      <4> QED
        BY <4>2 DEF Raised, Holds
    <3> QED
      BY <2>1, <3>1, <3>2 DEF Raised
  <2>2. \A g : Among(g, batch) => Raised(g)
    BY <1>1, FreshByContent DEF EpollInv, Running
  <2>3. \A g : Among(g, batch)' <=> Among(g, batch')
    BY DEF Among
  <2> QED
    BY <1>4, <2>1, <2>2, <2>3, FreshByContentNext
<1> QED
  BY <1>6, <1>7, <1>8, <1>9, <1>10 DEF EpollInv, SocketsInv

-----------------------------------------------------------------------------
(* The theorems *)

LEMMA StepKeeps ==
  ASSUME TypeOK, EpollInv, [Next]_vars
  PROVE  TypeOK' /\ EpollInv'
<1>1. CASE UNCHANGED vars
  BY <1>1, StutterKeeps DEF vars, client, TypeOK
<1>2. CASE CreateServer \/ CreateFails \/ WaitFails \/ EndBatch
  BY <1>2, CreateType, CreateKeeps
<1>3. CASE Wait
  BY <1>3, WaitType, WaitKeeps DEF EpollInv
<1>4. CASE Pass
  BY <1>4, PassType, PassKeeps
<1>5. ASSUME NEW c \in Conns, Handle(c) PROVE TypeOK' /\ EpollInv'
  BY <1>5, AcceptType, AcceptKeeps, AcceptDropsKeeps, ReadType, CloseKeeps, DyingKeeps
     DEF Handle, EpollInv
<1>6. ASSUME NEW c \in Conns, Client(c) PROVE TypeOK' /\ EpollInv'
  BY <1>6, ClientType, ConnectKeeps, ArriveKeeps DEF Client, EpollInv, SocketsInv
<1> QED
  BY <1>1, <1>2, <1>3, <1>4, <1>5, <1>6 DEF Next, Server

LEMMA Initially == Init => TypeOK /\ EpollInv
<1> SUFFICES ASSUME Init PROVE TypeOK /\ EpollInv
  OBVIOUS
<1>1. TypeOK
  BY DEF Init, TypeOK, NoFd, Creating
<1>2. SocketsInv /\ ListsInv /\ AnsweredDown
  BY DEF Init, SocketsInv, QueueInv, OneHolder, UpHasFd, ListsInv, Once, AnsweredDown
<1>3. CreateInv
  BY DEF Init, CreateInv, CleanFailure
<1>4. NoLostEdge /\ EventsAreFresh
  BY DEF Init, NoLostEdge, EventsAreFresh, Running
<1> QED
  BY <1>1, <1>2, <1>3, <1>4 DEF EpollInv

LEMMA EpollInvariant == Spec => [](TypeOK /\ EpollInv)
  BY Initially, StepKeeps, PTL DEF Spec

(* Every variable of the epoll server keeps its type. *)
THEOREM TypeCorrect == Spec => []TypeOK
  BY EpollInvariant, PTL

(* Edge-triggered delivery loses nothing: whatever can be read of an       *)
(* accepted connection is still to be looked at.                           *)
THEOREM EdgesKept == Spec => []NoLostEdge
<1>1. EpollInv => NoLostEdge
  BY DEF EpollInv
<1> QED
  BY <1>1, EpollInvariant, PTL

(* Events ahead in a batch stay true while descriptors are closed and      *)
(* reused behind them.                                                     *)
THEOREM BatchStaysFresh == Spec => []EventsAreFresh
<1>1. EpollInv => EventsAreFresh
  BY DEF EpollInv
<1> QED
  BY <1>1, EpollInvariant, PTL

(* create_server closes what it opened, whichever of its calls fails.      *)
THEOREM FailureIsClean == Spec => []CleanFailure
<1>1. EpollInv => CleanFailure
  BY DEF EpollInv, CreateInv
<1> QED
  BY <1>1, EpollInvariant, PTL

-----------------------------------------------------------------------------
(* The epoll server implements Connections, where a step that is none of   *)
(* Connect, Ask and Serve changes nothing.                                 *)

LEMMA ServesOne ==
  ASSUME TypeOK, EpollInv, NEW c \in Conns, Handle(c)
  PROVE  [Abstract!Next]_<<conn, unread, answer, [d \in Conns |-> FALSE]>>
<1>1. unread[c] \in BOOLEAN /\ answer[c] \in {"none", "http"}
  BY DEF TypeOK
<1>2. /\ conn = [conn EXCEPT ![c] = @] /\ unread = [unread EXCEPT ![c] = @]
      /\ answer = [answer EXCEPT ![c] = @]
  BY DEF TypeOK
<1>3. CASE RespondDies(c)
  BY <1>3 DEF RespondDies, client
<1>4. SUFFICES ASSUME ~RespondDies(c)
               PROVE  Abstract!Serve(c)
  BY <1>3, <1>4 DEF Abstract!Next
<1>5. ASSUME NEW f \in ClientFds, Accept(c, f) PROVE Abstract!Serve(c)
  <2>1. conn[c] = "queued"
    BY <1>5, DequeueKeeps DEF Accept
  <2>2. /\ conn' = [conn EXCEPT ![c] = "up"]
        /\ unread' = [unread EXCEPT ![c] = unread[c]]
        /\ answer' = [answer EXCEPT ![c] = answer[c]]
    BY <1>2, <1>5 DEF Accept, Dequeue
  <2> QED
    BY <1>1, <2>1, <2>2 DEF Abstract!Serve
<1>6. CASE AcceptDrops(c)
  <2>1. conn[c] = "queued"
    BY <1>6, DequeueKeeps DEF AcceptDrops
  <2>2. /\ conn' = [conn EXCEPT ![c] = "down"]
        /\ unread' = [unread EXCEPT ![c] = FALSE]
        /\ answer' = [answer EXCEPT ![c] = answer[c]]
    BY <1>2, <1>6 DEF AcceptDrops, Dequeue
  <2> QED
    BY <1>1, <2>1, <2>2 DEF Abstract!Serve
<1>7. CASE Respond(c)
  <2>1. /\ conn[c] = "up" /\ unread[c] /\ answer[c] = "none"
        /\ conn' = [conn EXCEPT ![c] = "down"]
        /\ unread' = [unread EXCEPT ![c] = FALSE]
        /\ answer' = [answer EXCEPT ![c] = "http"]
    BY <1>1, <1>7 DEF Respond, AtClient, Holds, CloseFd, EpollInv, AnsweredDown
  <2> QED
    BY <2>1 DEF Abstract!Serve
<1>8. CASE Hangup(c)
  <2>1. /\ conn[c] = "up"
        /\ conn' = [conn EXCEPT ![c] = "down"]
        /\ unread' = [unread EXCEPT ![c] = FALSE]
        /\ answer' = [answer EXCEPT ![c] = answer[c]]
    BY <1>2, <1>8 DEF Hangup, AtClient, Holds, CloseFd
  <2> QED
    BY <1>1, <2>1 DEF Abstract!Serve
<1> QED
  BY <1>4, <1>5, <1>6, <1>7, <1>8 DEF Handle

LEMMA StepRefines ==
  ASSUME TypeOK, EpollInv, [Next]_vars
  PROVE  [Abstract!Next]_<<conn, unread, answer, [d \in Conns |-> FALSE]>>
<1>1. CASE \E c \in Conns : Handle(c)
  BY <1>1, ServesOne
<1>2. ASSUME NEW c \in Conns, Connect(c) PROVE Abstract!Next
  BY <1>2 DEF Connect, Abstract!Connect, Abstract!Next
<1>3. ASSUME NEW c \in Conns, Send(c) PROVE Abstract!Next
  BY <1>3 DEF Send, Abstract!Ask, Abstract!Next
<1>4. ASSUME NEW c \in Conns, Leave(c) PROVE UNCHANGED <<conn, unread, answer>>
  BY <1>4 DEF Leave
<1>5. CASE CreateServer \/ Wait \/ EndBatch \/ Pass \/ CreateFails \/ WaitFails
  BY <1>5 DEF CreateServer, CreateStep, Wait, EndBatch, Pass, CreateFails, WaitFails, client
<1>6. CASE UNCHANGED vars
  BY <1>6 DEF vars, client
<1> QED
  BY <1>1, <1>2, <1>3, <1>4, <1>5, <1>6 DEF Next, Server, Client

(* The epoll server keeps the promise every handler makes: each connection *)
(* is served once, answered at most once and only when it has asked.       *)
THEOREM Implements == Spec => ImplementsConnections
<1>1. Init => Abstract!Init
  BY DEF Init, Abstract!Init
<1>2. TypeOK /\ EpollInv /\ [Next]_vars
        => [Abstract!Next]_Abstract!cvars
  BY StepRefines DEF Abstract!cvars
<1> QED
  BY <1>1, <1>2, EpollInvariant, PTL DEF Spec, ImplementsConnections, Abstract!Spec
=============================================================================
