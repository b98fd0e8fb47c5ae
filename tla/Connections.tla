----------------------------- MODULE Connections -----------------------------
(***************************************************************************)
(* What every tcp_handler of the library promises about one client         *)
(* connection, whatever the I/O strategy (poll, epoll, a thread per        *)
(* connection): a connection is served once, from the listen queue to its  *)
(* close; it receives at most one HTTP answer (a response or the 101 of a  *)
(* WebSocket handshake); the answer is given in a step that had request    *)
(* data of that same connection to read; and nothing is written to a       *)
(* connection that is closed or was never accepted.                        *)
(*                                                                         *)
(* The interface is the pair of virtual functions of                       *)
(* includes/tcp_handler.h:12-16 and the callback type of defines.h:17-18;  *)
(* the detailed modules are shown to implement this one.                   *)
(***************************************************************************)

CONSTANT Conns        \* the connections clients open, each opened once

VARIABLES
  conn,      \* conn[c]: "new", "queued" (in the listen queue), "up", "down"
  unread,    \* unread[c]: the client sent bytes the server has not read
  answer,    \* answer[c]: "none", "http" or "101"
  heard      \* heard[c]: the server wrote a WebSocket frame to c's socket

cvars == <<conn, unread, answer, heard>>

Init ==
  /\ conn = [c \in Conns |-> "new"]
  /\ unread = [c \in Conns |-> FALSE]
  /\ answer = [c \in Conns |-> "none"]
  /\ heard = [c \in Conns |-> FALSE]

Connect(c) ==
  /\ conn[c] = "new"
  /\ conn' = [conn EXCEPT ![c] = "queued"]
  /\ UNCHANGED <<unread, answer, heard>>

(* Bytes of the client arrive, before or after the connection is accepted. *)
Ask(c) ==
  /\ conn[c] \in {"queued", "up"}
  /\ unread' = [unread EXCEPT ![c] = TRUE]
  /\ UNCHANGED <<conn, answer, heard>>

(* One step of the server on one connection: accept it, read it, answer it *)
(* and close it, or any part of that in this order.                        *)
Serve(c) ==
  /\ conn[c] \in {"queued", "up"}
  /\ \E status \in {"up", "down"}, left \in BOOLEAN,
        ans \in {"none", "http", "101"} :
       /\ ans # answer[c] => /\ answer[c] = "none"
                             /\ unread[c]
       /\ left => unread[c] /\ status = "up"
       /\ conn' = [conn EXCEPT ![c] = status]
       /\ unread' = [unread EXCEPT ![c] = left]
       /\ answer' = [answer EXCEPT ![c] = ans]
  /\ UNCHANGED heard

(* A frame read from one open connection is written to several open ones.  *)
Relay(c) ==
  /\ conn[c] = "up"
  /\ unread[c]
  /\ \E left \in BOOLEAN : unread' = [unread EXCEPT ![c] = left]
  /\ \E audience \in SUBSET {d \in Conns : conn[d] = "up"} :
       heard' = [d \in Conns |-> heard[d] \/ d \in audience]
  /\ UNCHANGED <<conn, answer>>

Next == \E c \in Conns : Connect(c) \/ Ask(c) \/ Serve(c) \/ Relay(c)

Spec == Init /\ [][Next]_cvars
=============================================================================
