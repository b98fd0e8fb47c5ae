--------------------------- MODULE SocketsProofs ---------------------------
(* What every server built from Sockets may rely on, whatever it does      *)
(* besides: facts about one step of the sockets, cited by the proofs about *)
(* the servers.                                                            *)
EXTENDS Sockets, TLAPS

(* The listen queue holds each waiting connection once, an open descriptor *)
(* has one holder, and it is one of those the process has.                 *)
QueueInv ==
  /\ \A k \in 1 .. Len(backlog) : conn[backlog[k]] = "queued"
  /\ \A j, k \in 1 .. Len(backlog) : backlog[j] = backlog[k] => j = k

OneHolder ==
  \A c, d \in Conns :
    conn[c] = "up" /\ conn[d] = "up" /\ fd[c] = fd[d] => c = d

UpHasFd == \A c \in Conns : conn[c] = "up" => fd[c] \in ClientFds

SocketsInv == QueueInv /\ OneHolder /\ UpHasFd

(* The sockets of a fresh process are as they should be. *)
LEMMA SocketsInitially ==
  ASSUME NEW M, SocketsInit
  PROVE  SocketsType(M) /\ SocketsInv
BY DEF SocketsInit, SocketsType, SocketsInv, QueueInv, OneHolder, UpHasFd, NoFd

(* What arrives and what is read changes buffers only. *)
LEMMA BuffersKeepSockets ==
  ASSUME SocketsInv, UNCHANGED <<conn, fd, backlog>>
  PROVE  SocketsInv'
BY DEF SocketsInv, QueueInv, OneHolder, UpHasFd

(* recv of all there is. *)
LEMMA TakeType ==
  ASSUME NEW M, SocketsType(M), NEW c \in Conns, Take(c)
  PROVE  SocketsType(M)'
<1>1. <<>> \in Seq(M)
  OBVIOUS
<1> QED
  BY <1>1 DEF Take, SocketsType

(* What a client sends. *)
LEMMA DeliverType ==
  ASSUME NEW M, SocketsType(M), NEW c \in Conns, NEW m \in M, Deliver(c, m)
  PROVE  SocketsType(M)'
<1>1. rx[c] \in Seq(M)
  BY DEF SocketsType
<1>2. Append(rx[c], m) \in Seq(M)
  BY <1>1
<1> QED
  BY <1>2 DEF Deliver, SocketsType

(* A client that leaves. *)
LEMMA DepartType ==
  ASSUME NEW M, SocketsType(M), NEW c \in Conns, Depart(c)
  PROVE  SocketsType(M)'
BY DEF Depart, SocketsType

(* A connection that joins the queue was never in it. *)
LEMMA DialKeepsSockets ==
  ASSUME NEW M, SocketsType(M), SocketsInv, NEW c \in Conns, Dial(c)
  PROVE  SocketsType(M)' /\ SocketsInv'
<1>1. /\ Len(backlog') = Len(backlog) + 1
      /\ Len(backlog) \in Nat
      /\ backlog' \in Seq(Conns)
      /\ backlog'[Len(backlog) + 1] = c
      /\ \A k \in 1 .. Len(backlog) : backlog'[k] = backlog[k] /\ backlog[k] \in Conns
  BY DEF Dial, SocketsType
<1>2. /\ conn[c] = "new"
      /\ conn'[c] = "queued"
      /\ \A d \in Conns : d # c => conn'[d] = conn[d]
  BY DEF Dial, SocketsType
<1>3. \A k \in 1 .. Len(backlog) : backlog[k] # c
  BY <1>2 DEF SocketsInv, QueueInv
<1>4. \A k \in 1 .. Len(backlog') : k \in 1 .. Len(backlog) \/ k = Len(backlog) + 1
  BY <1>1
<1>5. QueueInv'
  <2>1. \A k \in 1 .. Len(backlog') : conn'[backlog'[k]] = "queued"
    BY <1>1, <1>2, <1>3, <1>4 DEF SocketsInv, QueueInv
  <2>2. \A j, k \in 1 .. Len(backlog') : backlog'[j] = backlog'[k] => j = k
    BY <1>1, <1>3, <1>4 DEF SocketsInv, QueueInv
  <2> QED
    BY <2>1, <2>2 DEF QueueInv
<1>6. OneHolder' /\ UpHasFd'
  BY <1>2 DEF SocketsInv, OneHolder, UpHasFd, Dial
<1>7. SocketsType(M)'
  BY <1>1 DEF Dial, SocketsType
<1> QED
  BY <1>5, <1>6, <1>7 DEF SocketsInv

(* An accepted connection leaves the queue with a descriptor nobody holds. *)
LEMMA TakeNextKeepsSockets ==
  ASSUME NEW M, SocketsType(M), SocketsInv, NEW c \in Conns, NEW f \in ClientFds,
         NEW status \in {"up", "down"}, TakeNext(c, f),
         conn' = [conn EXCEPT ![c] = status]
  PROVE  /\ SocketsInv'
         /\ conn[c] = "queued"
         /\ UNCHANGED <<rx, eof>> => SocketsType(M)'
<1>1. /\ backlog \in Seq(Conns) /\ backlog # <<>>
      /\ c = backlog[1]
      /\ Len(backlog) \in Nat \ {0}
      /\ backlog' \in Seq(Conns)
      /\ Len(backlog') = Len(backlog) - 1
      /\ \A k \in 1 .. (Len(backlog) - 1) : backlog'[k] = backlog[k + 1]
  BY DEF TakeNext, SocketsType
<1>2. /\ conn'[c] = status /\ fd'[c] = f
      /\ \A d \in Conns : d # c => conn'[d] = conn[d] /\ fd'[d] = fd[d]
  BY DEF TakeNext, SocketsType
<1>3. conn[c] = "queued" /\ \A k \in 2 .. Len(backlog) : backlog[k] # c
  BY <1>1 DEF SocketsInv, QueueInv
<1>4. QueueInv'
  <2>1. \A k \in 1 .. Len(backlog') :
          /\ k + 1 \in 2 .. Len(backlog)
          /\ backlog'[k] = backlog[k + 1]
          /\ backlog[k + 1] \in Conns
    BY <1>1
  <2>2. \A k \in 1 .. Len(backlog') : conn'[backlog'[k]] = "queued"
    BY <1>1, <1>2, <1>3, <2>1 DEF SocketsInv, QueueInv
  <2>3. ASSUME NEW j \in 1 .. Len(backlog'), NEW k \in 1 .. Len(backlog'),
               backlog'[j] = backlog'[k]
        PROVE  j = k
    <3>1. backlog[j + 1] = backlog[k + 1] /\ j + 1 \in 1 .. Len(backlog)
                                          /\ k + 1 \in 1 .. Len(backlog)
      BY <2>1, <2>3, <1>1
    <3>2. j + 1 = k + 1
      BY <3>1 DEF SocketsInv, QueueInv
    <3> QED
      BY <3>2, <1>1
  <2> QED
    BY <2>2, <2>3 DEF QueueInv
<1>5. OneHolder' /\ UpHasFd'
  <2>1. \A d \in Conns : ~(conn[d] = "up" /\ fd[d] = f)
    BY DEF TakeNext, Free, Holds
  <2> QED
    BY <1>2, <2>1 DEF SocketsInv, OneHolder, UpHasFd
<1>6. UNCHANGED <<rx, eof>> => SocketsType(M)'
  BY <1>1 DEF TakeNext, SocketsType
<1> QED
  BY <1>3, <1>4, <1>5, <1>6 DEF SocketsInv

(* close turns the holder of the descriptor down, and nobody else. *)
LEMMA ShutKeepsSockets ==
  ASSUME NEW M, SocketsType(M), SocketsInv, NEW f, Shut(f)
  PROVE  SocketsType(M)' /\ SocketsInv'
<1>1. \A c \in Conns : /\ conn'[c] = conn[c] \/ (conn[c] = "up" /\ conn'[c] = "down")
                       /\ conn'[c] = "up" => conn[c] = "up"
  BY DEF Shut, Holds
<1>2. \A k \in 1 .. Len(backlog) : backlog[k] \in Conns
  BY DEF SocketsType
<1>3. QueueInv'
  BY <1>1, <1>2 DEF SocketsInv, QueueInv, Shut
<1>4. OneHolder' /\ UpHasFd'
  BY <1>1 DEF SocketsInv, OneHolder, UpHasFd, Shut
<1>5. SocketsType(M)'
  <2>1. <<>> \in Seq(M)
    OBVIOUS
  <2> QED
    BY <2>1 DEF Shut, SocketsType
<1> QED
  BY <1>3, <1>4, <1>5 DEF SocketsInv
=============================================================================
