------------------------------ MODULE PollServer ------------------------------
(***************************************************************************)
(* The poll(2) server: tcp_poll_handler (src/tcp_poll_handler.cpp) with    *)
(* the callback every program installs, http_server::                      *)
(* handle_connection_request (src/http_handler.cpp), and the               *)
(* websocket_manager (src/websocket_handler.cpp) both of them call.        *)
(*                                                                         *)
(* One thread runs accept_and_process_message: it polls a vector of        *)
(* descriptors and scans it once per poll.  The readiness of an entry is   *)
(* the snapshot poll took; clients go on acting while the scan works       *)
(* through it, and the scan itself closes descriptors, erases entries      *)
(* under its own index and accepts connections that reuse descriptors.     *)
(*                                                                         *)
(* Requests are abstracted to what decides the fate of the connection:     *)
(*   "close"    the route (or default_500_msg) leaves close_fd = true      *)
(*   "keep"     a route whose response sets close_fd = false               *)
(*   "upgrade"  headers hold Upgrade and Sec-WebSocket-Key                 *)
(*   "throws"   parsing or the route throws, which nothing catches         *)
(* and "frame" is one whole WebSocket frame.  Each message of rx is one    *)
(* arrival at the socket; one recv of the handler takes them all and the   *)
(* parser looks at the first.                                              *)
(***************************************************************************)
EXTENDS Sockets

CONSTANTS
  PollLimit,  \* poll(2) fails with EINVAL on more entries than this
  Kinds       \* the requests clients send

ASSUME PollLimitAssumption == PollLimit \in Nat /\ PollLimit > NumFds
ASSUME KindsAssumption == Kinds \subseteq {"close", "keep", "upgrade", "throws"}

VARIABLES
  answer,     \* answer[c]: "none", "http" or "101"
  heard,      \* heard[c]: a frame was written to c's socket
  port,       \* what create_server got: "none", "asked" or "other" port
  poll_fds,   \* the vector of pollfd, [fd, revents]
  websocket_descriptor, \* the set of registered descriptors
  pc,         \* "create", "poll", "scan", "stopped" or "killed"
  i           \* index of the scan (from 1); 0 outside a scan

client == <<sockets, answer, heard>>
vars == <<client, port, poll_fds, websocket_descriptor, pc, i>>

ServerFd == 0
Events == {"IN", "HUP", "NVAL"}
Entry == [fd : {NoFd, ServerFd} \cup ClientFds, revents : SUBSET Events]
Messages == Kinds \cup {"frame"}

Running == pc \in {"poll", "scan"}

-----------------------------------------------------------------------------
(* The vector *)

NewEntry(f) == [fd |-> f, revents |-> {}]

Mutant_Erase(s, k) ==
  [n \in 1 .. (Len(s) - 1) |-> IF n <= k THEN s[n] ELSE s[n + 1]]

(* vector::erase, stated position by position. *)
Erase(s, k) ==
  [n \in 1 .. (Len(s) - 1) |-> IF n < k THEN s[n] ELSE s[n + 1]]

FirstAt(s, f, k) == /\ k \in 1 .. Len(s)
                    /\ s[k].fd = f
                    /\ \A j \in 1 .. (k - 1) : s[j].fd # f

(* close, of the listening socket too. *)
CloseFd(f) ==
  /\ Shut(f)
  /\ port' = IF f = ServerFd THEN "none" ELSE port

(* remove_socket erases the FIRST entry with this descriptor, which need   *)
(* not be the one the scan is at.                                          *)
RemoveSocket(f) ==
  /\ CloseFd(f)
  /\ \E k \in DOMAIN poll_fds : /\ FirstAt(poll_fds, f, k)
                                /\ poll_fds' = Erase(poll_fds, k)

-----------------------------------------------------------------------------
(* Clients *)

Connect(c) ==
  /\ Running
  /\ port = "asked"
  /\ Dial(c)
  /\ UNCHANGED <<answer, heard, port, poll_fds, websocket_descriptor, pc, i>>

(* A client speaks frames once it has read the 101, requests before. *)
Send(c, m) ==
  /\ Running
  /\ m = "frame" <=> answer[c] = "101"
  /\ Deliver(c, m)
  /\ UNCHANGED <<answer, heard, port, poll_fds, websocket_descriptor, pc, i>>

Leave(c) ==
  /\ Running
  /\ Depart(c)
  /\ UNCHANGED <<answer, heard, port, poll_fds, websocket_descriptor, pc, i>>

-----------------------------------------------------------------------------
(* The server thread *)

(* create_server looks at no return code and always answers Ok: socket may *)
(* have failed, bind may have failed (listen then binds to a port nobody   *)
(* asked for), listen may have failed.                                     *)
CreateServer ==
  /\ pc = "create"
  /\ pc' = "poll"
  /\ \/ /\ port' \in {"asked", "other", "none"}
        /\ poll_fds' = Append(poll_fds, NewEntry(ServerFd))
     \/ /\ port' = "none"
        /\ poll_fds' = Append(poll_fds, NewEntry(NoFd))
  /\ UNCHANGED <<client, websocket_descriptor, i>>

Mutant_Raised(f, event) ==
  \/ event = "IN" /\ f = ServerFd /\ backlog # <<>>
  \/ event = "IN" /\ \E c \in Conns : Holds(c, f)

(* What poll(2) reports of a descriptor asked for POLLIN. *)
Raised(f, event) ==
  \/ /\ event = "IN"
     /\ \/ f = ServerFd /\ backlog # <<>>
        \/ \E c \in Conns : Holds(c, f) /\ Readable(c)
  \/ /\ event = "HUP"
     /\ \/ f = ServerFd /\ port = "none"
        \/ \E c \in Conns : Holds(c, f) /\ eof[c] = "rst"
  \/ /\ event = "NVAL"
     /\ f \in ClientFds /\ Free(f)

Revents(f) == {event \in Events : Raised(f, event)}

(* poll returns, with events or after its 4 s. *)
Poll ==
  /\ pc = "poll"
  /\ Len(poll_fds) <= PollLimit
  /\ poll_fds' = [k \in DOMAIN poll_fds |->
                    [fd |-> poll_fds[k].fd, revents |-> Revents(poll_fds[k].fd)]]
  /\ pc' = "scan"
  /\ i' = 1
  /\ UNCHANGED <<client, port, websocket_descriptor>>

(* poll fails: the loop breaks and the server is over. *)
PollFails ==
  /\ pc = "poll"
  /\ Len(poll_fds) > PollLimit
  /\ pc' = "stopped"
  /\ UNCHANGED <<client, port, poll_fds, websocket_descriptor, i>>

AtEntry == pc = "scan" /\ i <= Len(poll_fds)
Event(event) == event \in poll_fds[i].revents
Hung == AtEntry /\ Event("HUP")
Ready == AtEntry /\ ~Event("HUP") /\ Event("IN")
AtServer == poll_fds[i].fd = ServerFd

(* An exception nobody catches, or SIGPIPE, ends the process. *)
Die ==
  /\ pc' = "killed"
  /\ UNCHANGED <<client, port, poll_fds, websocket_descriptor, i>>

Mutant_Skip ==
  /\ AtEntry
  /\ ~Event("HUP") /\ ~Event("IN")
  /\ UNCHANGED vars

(* Nothing asked for is raised: POLLNVAL falls through every test. *)
Skip ==
  /\ AtEntry
  /\ ~Event("HUP") /\ ~Event("IN")
  /\ i' = i + 1
  /\ UNCHANGED <<client, port, poll_fds, websocket_descriptor, pc>>

(* POLLHUP: remove_socket, and the index moves on over the shifted vector. *)
Hangup ==
  /\ Hung
  /\ RemoveSocket(poll_fds[i].fd)
  /\ i' = i + 1
  /\ UNCHANGED <<answer, heard, websocket_descriptor, pc>>

(* accept, set_non_blocking, push_back, and the callback on the spot: the  *)
(* connection c of the queue's head gets descriptor f, what it sent so far *)
(* is read, and it ends the callback with this status and answer.          *)
Accept(c, f, status, ans) ==
  /\ Ready
  /\ AtServer
  /\ LowestFree(f)
  /\ TakeNext(c, f)
  /\ conn' = [conn EXCEPT ![c] = status]
  /\ rx' = [rx EXCEPT ![c] = <<>>]
  /\ eof' = [eof EXCEPT ![c] = IF status = "down" THEN "no" ELSE @]
  /\ answer' = [answer EXCEPT ![c] = ans]
  /\ poll_fds' = Append(poll_fds, NewEntry(f))
  /\ i' = i + 1
  /\ UNCHANGED <<heard, port, pc>>

Mutant_AcceptSilent(c, f) ==
  /\ rx[c] = <<>>
  /\ Accept(c, f, "down", "http")
  /\ UNCHANGED websocket_descriptor

(* received_str came back empty: nothing read yet, or the client is gone.  *)
(* closefd stays false.                                                    *)
AcceptSilent(c, f) ==
  /\ rx[c] = <<>>
  /\ Accept(c, f, "up", "none")
  /\ UNCHANGED websocket_descriptor

(* An HTTP response, then close unless the response says otherwise.  The   *)
(* entry just pushed stays in poll_fds either way.                         *)
AcceptHttp(c, f) ==
  /\ \/ Asks(c, "close") /\ Accept(c, f, "down", "http")
     \/ Asks(c, "keep") /\ Accept(c, f, "up", "http")
  /\ UNCHANGED websocket_descriptor

Mutant_AcceptUpgrade(c, f) ==
  /\ Asks(c, "upgrade")
  /\ Accept(c, f, "up", "101")
  /\ UNCHANGED websocket_descriptor

(* The 101 is sent, then the descriptor registered. *)
AcceptUpgrade(c, f) ==
  /\ Asks(c, "upgrade")
  /\ Accept(c, f, "up", "101")
  /\ websocket_descriptor' = websocket_descriptor \cup {f}

(* The callback throws, or writes its answer to a connection the client    *)
(* has reset.                                                              *)
AcceptDies(c) ==
  /\ Ready
  /\ AtServer
  /\ backlog # <<>>
  /\ c = Head(backlog)
  /\ \E f \in ClientFds : LowestFree(f)
  /\ rx[c] # <<>>
  /\ Head(rx[c]) = "throws" \/ eof[c] = "rst"
  /\ Die

Mutant_AcceptFails ==
  /\ Ready
  /\ AtServer
  /\ backlog = <<>> \/ \A f \in ClientFds : ~Free(f)
  /\ poll_fds' = Append(poll_fds, NewEntry(NoFd))
  /\ websocket_descriptor' = websocket_descriptor \cup {NoFd}
  /\ i' = i + 1
  /\ UNCHANGED <<client, port, pc>>

(* accept returns -1 (no descriptor left): the -1 is pushed all the same,  *)
(* and the callback reads nothing from it.                                 *)
AcceptFails ==
  /\ Ready
  /\ AtServer
  /\ backlog = <<>> \/ \A f \in ClientFds : ~Free(f)
  /\ poll_fds' = Append(poll_fds, NewEntry(NoFd))
  /\ i' = i + 1
  /\ UNCHANGED <<client, port, websocket_descriptor, pc>>

(* recv(MSG_PEEK) has something to return. *)
Peeked(c, f) == Holds(c, f) /\ rx[c] # <<>>

(* recv(MSG_PEEK) <= 0: end of file, error or EAGAIN alike.  The           *)
(* descriptor is closed and the first entry that names it erased.          *)
ReadClosed ==
  /\ Ready
  /\ ~AtServer
  /\ \A c \in Conns : ~Peeked(c, poll_fds[i].fd)
  /\ RemoveSocket(poll_fds[i].fd)
  /\ i' = i + 1
  /\ UNCHANGED <<answer, heard, websocket_descriptor, pc>>

(* notify_message_request on a descriptor nobody registered: the bytes     *)
(* stay where they are.                                                    *)
Ignore(c) ==
  /\ Ready
  /\ ~AtServer
  /\ Peeked(c, poll_fds[i].fd)
  /\ poll_fds[i].fd \notin websocket_descriptor
  /\ i' = i + 1
  /\ UNCHANGED <<client, port, poll_fds, websocket_descriptor, pc>>

Mutant_Audience == {d \in Conns : conn[d] = "up"}

(* Who gets a broadcast frame: whoever holds a registered descriptor now.  *)
Audience == {d \in Conns : conn[d] = "up" /\ fd[d] \in websocket_descriptor}

(* notify_message_request on a registered descriptor: read_frame, then a   *)
(* send_frame to every registered descriptor, the failed reads included.   *)
(* A request read as a frame may be taken whole or leave a rest behind.    *)
Broadcast(c) ==
  /\ Ready
  /\ ~AtServer
  /\ Peeked(c, poll_fds[i].fd)
  /\ poll_fds[i].fd \in websocket_descriptor
  /\ \/ rx' = [rx EXCEPT ![c] = Tail(@)]
     \/ Head(rx[c]) # "frame" /\ rx' = rx
  /\ heard' = [d \in Conns |-> heard[d] \/ d \in Audience]
  /\ i' = i + 1
  /\ UNCHANGED <<conn, fd, backlog, eof, answer,
                 port, poll_fds, websocket_descriptor, pc>>

(* One of the sends of a broadcast hits a connection the client has reset. *)
BroadcastDies(c) ==
  /\ Ready
  /\ ~AtServer
  /\ Peeked(c, poll_fds[i].fd)
  /\ poll_fds[i].fd \in websocket_descriptor
  /\ \E d \in Audience : eof[d] = "rst"
  /\ Die

Mutant_EndScan ==
  /\ pc = "scan"
  /\ i > Len(poll_fds)
  /\ \/ pc' = "poll" /\ i' = 0
     \/ pc' = "scan" /\ i' = 1
  /\ UNCHANGED <<client, port, poll_fds, websocket_descriptor>>

(* The scan is over; poll will write every revents again. *)
EndScan ==
  /\ pc = "scan"
  /\ i > Len(poll_fds)
  /\ poll_fds' = [k \in DOMAIN poll_fds |-> NewEntry(poll_fds[k].fd)]
  /\ pc' = "poll"
  /\ i' = 0
  /\ UNCHANGED <<client, port, websocket_descriptor>>

(* The process is gone. *)
Over == pc \in {"stopped", "killed"} /\ UNCHANGED vars

-----------------------------------------------------------------------------
Init ==
  /\ SocketsInit
  /\ answer = [c \in Conns |-> "none"]
  /\ heard = [c \in Conns |-> FALSE]
  /\ port = "none"
  /\ poll_fds = <<>>
  /\ websocket_descriptor = {}
  /\ pc = "create"
  /\ i = 0

Client(c) == Connect(c) \/ Leave(c) \/ \E m \in Messages : Send(c, m)

AcceptOne(c) ==
  \/ AcceptDies(c)
  \/ \E f \in ClientFds :
       AcceptSilent(c, f) \/ AcceptHttp(c, f) \/ AcceptUpgrade(c, f)

Server ==
  \/ CreateServer \/ Poll \/ PollFails \/ EndScan
  \/ Skip \/ Hangup \/ AcceptFails \/ ReadClosed
  \/ \E c \in Conns : AcceptOne(c) \/ Ignore(c) \/ Broadcast(c) \/ BroadcastDies(c)

Next == Server \/ (\E c \in Conns : Client(c)) \/ Over

Spec == Init /\ [][Next]_vars

(* The thread runs on: poll waits 4 s at most and every socket but the     *)
(* listening one is non-blocking.  Clients owe nothing.                    *)
FairSpec == Spec /\ WF_vars(Server)

-----------------------------------------------------------------------------
(* Properties *)

TypeOK ==
  /\ SocketsType(Messages)
  /\ answer \in [Conns -> {"none", "http", "101"}]
  /\ heard \in [Conns -> BOOLEAN]
  /\ port \in {"none", "asked", "other"}
  /\ poll_fds \in Seq(Entry)
  /\ websocket_descriptor \in SUBSET ClientFds
  /\ pc \in {"create", "poll", "scan", "stopped", "killed"}
  /\ i \in Nat

Listed(f) == {k \in DOMAIN poll_fds : poll_fds[k].fd = f}

(* No connection is forgotten: the descriptor of every accepted connection *)
(* is in the polled vector, although remove_socket erases by descriptor    *)
(* (the first match) under a running index and although descriptors are    *)
(* reused while old entries still name them.                               *)
Watched == \A c \in Conns : conn[c] = "up" => Listed(fd[c]) # {}

(* The snapshot stays true of whoever holds the descriptor now: while a    *)
(* scan works through revents taken before the sockets it closed and the   *)
(* connections it accepted, POLLHUP on an entry still ahead is about the   *)
(* connection that holds the descriptor, never about one that reuses the   *)
(* number, and POLLIN on a descriptor listed once still finds something.   *)
ReadinessHolds ==
  pc = "scan" =>
    \A k \in i .. Len(poll_fds), c \in Conns :
      LET e == poll_fds[k] IN
      Holds(c, e.fd) =>
        /\ "HUP" \in e.revents => eof[c] = "rst"
        /\ "IN" \in e.revents => Readable(c) \/ Listed(e.fd) # {k}

(* A connection the client has neither ended nor reset is closed by the    *)
(* server only together with its HTTP answer, or when its descriptor is in *)
(* the vector twice (an entry left behind by an earlier HTTP close): the   *)
(* second entry then peeks EAGAIN on what the first one read, and the code *)
(* takes EAGAIN for a disconnect.                                          *)
LiveDropNeedsDuplicate ==
  [][\A c \in Conns :
       /\ conn[c] = "up" /\ conn'[c] = "down" /\ eof[c] = "no"
       => \E j, k \in Listed(fd[c]) : j # k]_vars

(* A frame reaches a connection that never asked for one only by reuse of  *)
(* a descriptor websocket_descriptor still holds for a closed WebSocket.   *)
MisdeliveryNeedsReuse ==
  \A c \in Conns :
    heard[c] /\ answer[c] # "101" =>
      \E d \in Conns : /\ answer[d] = "101"
                       /\ conn[d] = "down"
                       /\ fd[d] = fd[c]

(* What the comment beside the call says of poll ("Infinite timeout"): it  *)
(* returns only with something to report.                                  *)
InfiniteTimeout ==
  [][pc = "poll" /\ pc' = "scan" =>
       \E k \in DOMAIN poll_fds' : poll_fds'[k].revents # {}]_vars

Ended == ~Running

(* Every connection that enters the listen queue is accepted, unless the   *)
(* server ends: one accept per poll, failed accepts and erased entries     *)
(* notwithstanding.                                                        *)
QueuedAccepted ==
  \A c \in Conns : conn[c] = "queued" ~> conn[c] # "queued" \/ Ended

(* Every frame a WebSocket client sends is read, or the connection closed. *)
FramesConsumed ==
  \A c \in Conns :
    (Asks(c, "frame") /\ conn[c] = "up") ~> (rx[c] = <<>> \/ Ended)

(* What a client leaves is reclaimed: a reset connection always, one that  *)
(* was half-closed unless bytes of a plain HTTP client lie unread in it    *)
(* (those are never consumed, and the descriptor never freed).             *)
DepartedReclaimed ==
  \A c \in Conns :
    /\ conn[c] = "up"
    /\ eof[c] = "rst" \/ (eof[c] = "fin" /\ (rx[c] = <<>> \/ answer[c] = "101"))
    ~> conn[c] = "down" \/ Ended

Abstract == INSTANCE Connections WITH unread <- [c \in Conns |-> rx[c] # <<>>]

(* The poll server implements the promise every handler makes. *)
ImplementsConnections == Abstract!Spec
=============================================================================
