----------------------------- MODULE FrameReader -----------------------------
(***************************************************************************)
(* read_frame (src/websocket_handler.cpp) on one WebSocket of the poll     *)
(* server.  The socket does not block, and the frames of the client are a  *)
(* stream of bytes that may arrive in pieces, between any two recv calls.  *)
(* read_frame takes a frame field by field and gives up at the first recv  *)
(* that comes back short: what it has taken is gone, and the next call     *)
(* starts in the middle of a frame.                                        *)
(*                                                                         *)
(* The server calls it through notify_message_request when the socket is   *)
(* readable, and writes what it returns to every WebSocket, "" included.   *)
(***************************************************************************)
EXTENDS Frame

CONSTANTS
  Frames,      \* the frames a client may send: opcode, key (<<>> for none),
               \* extended (bytes of extended length), text
  MaxFrames    \* frames a client sends

VARIABLES
  sent,      \* the frames sent, in order
  written,   \* their bytes
  ends,      \* how many bytes there are up to the end of each frame
  arrived,   \* how many bytes have arrived
  stream,    \* those of them in the receive buffer of the socket
  at,        \* where read_frame is: "idle" (not called), a field, "dead"
  header,    \* the header so far, with its extended length
  key,       \* masking_key
  payload,   \* the payload so far
  relayed,   \* what the calls so far returned, each written to everybody
  split,     \* a frame has arrived in more than one piece
  torn       \* a recv came back short

client == <<sent, written, ends, arrived, split>>
reader == <<at, header, key, payload, relayed, torn>>
vars == <<client, stream, reader>>

-----------------------------------------------------------------------------
(* Clients and the network *)

(* Exclusive or of two octets: each bit is the parity of theirs. *)
Parity(a, b, weight) == weight * ((a \div weight + b \div weight) % 2)

Xor(a, b) == Parity(a, b, 128) + Parity(a, b, 64) + Parity(a, b, 32) + Parity(a, b, 16)
             + Parity(a, b, 8) + Parity(a, b, 4) + Parity(a, b, 2) + Parity(a, b, 1)

(* The client masks, or read_frame unmasks. *)
Masked(bytes, k) ==
  IF k = <<>> THEN bytes
  ELSE [j \in 1 .. Len(bytes) |-> Xor(bytes[j], k[((j - 1) % 4) + 1])]

(* A frame as RFC 6455 has it, of a text that can be allocated. *)
WellFormed(f) ==
  /\ f.opcode \in 0 .. 15
  /\ f.key = <<>> \/ f.key \in [1 .. 4 -> 0 .. 255]
  /\ f.text \in Seq(0 .. 255)
  /\ Len(f.text) <= Memory
  /\ f.extended \in {0, 2, 8}
  /\ f.extended = 0 => Len(f.text) <= 125
  /\ f.extended = 2 => Len(f.text) < 256 * 256

(* The length of a text, in the encoding its client chose. *)
Second(f) == IF f.extended = 0 THEN Len(f.text) ELSE IF f.extended = 2 THEN 126 ELSE 127

LengthBytes(f) ==
  LET n == Len(f.text)
  IN  IF f.extended = 0 THEN <<>>
      ELSE IF f.extended = 2 THEN <<Shift8(n) % 256, n % 256>>
      ELSE Octets(HighHalf(n)) \o Octets(n)

FirstBytes(f) == <<128 + f.opcode, Second(f) + (IF f.key = <<>> THEN 0 ELSE 128)>>

Encode(f) == FirstBytes(f) \o LengthBytes(f) \o f.key \o Masked(f.text, f.key)

Send ==
  /\ Len(sent) < MaxFrames
  /\ \E f \in Frames : /\ sent' = Append(sent, f)
                       /\ written' = written \o Encode(f)
  /\ ends' = Append(ends, Len(written'))
  /\ UNCHANGED <<arrived, split, stream, reader>>

(* The next bytes arrive: to the end of a frame, or the frame is cut. *)
Arrive ==
  /\ \E n \in arrived + 1 .. Len(written) :
       /\ arrived' = n
       /\ stream' = stream \o SubSeq(written, arrived + 1, n)
       /\ split' = (split \/ \A k \in 1 .. Len(ends) : ends[k] # n)
  /\ UNCHANGED <<sent, written, ends, reader>>

-----------------------------------------------------------------------------
(* read_frame *)

Prefix(n) == SubSeq(stream, 1, n)
Drop(n) == stream' = SubSeq(stream, n + 1, Len(stream))

Returns(text) ==
  /\ at' = "idle"
  /\ relayed' = Append(relayed, text)
  /\ header' = <<>>
  /\ key' = <<>>
  /\ payload' = <<>>

(* recv returned less than the n bytes asked for, or none. *)
GiveUp(place, n) ==
  /\ at = place
  /\ Len(stream) < n
  /\ stream' = <<>>
  /\ torn' = TRUE
  /\ Returns(<<>>)
  /\ UNCHANGED client

IsMasked(h) == h[2] >= 128

(* Where a call goes once it has the header, with or without its length. *)
AfterLength(h) == IF IsMasked(h) THEN "key" ELSE "payload"

ReadHeader ==
  /\ at = "idle"
  /\ Len(stream) >= 2
  /\ header' = Prefix(2)
  /\ Drop(2)
  /\ at' = IF Extended(stream[2]) = 0 THEN AfterLength(stream) ELSE "length"
  /\ UNCHANGED <<client, key, payload, relayed, torn>>

ReadExtended ==
  /\ at = "length"
  /\ LET n == Extended(header[2])
     IN  /\ Len(stream) >= n
         /\ header' = header \o Prefix(n)
         /\ Drop(n)
  /\ at' = AfterLength(header)
  /\ UNCHANGED <<client, key, payload, relayed, torn>>

Mutant_ReadKey ==
  /\ at = "key"
  /\ Len(stream) >= 4
  /\ key' = Prefix(4)
  /\ Drop(3)
  /\ at' = "payload"
  /\ UNCHANGED <<client, header, payload, relayed, torn>>

ReadKey ==
  /\ at = "key"
  /\ Len(stream) >= 4
  /\ key' = Prefix(4)
  /\ Drop(4)
  /\ at' = "payload"
  /\ UNCHANGED <<client, header, payload, relayed, torn>>

(* std::vector cannot hold the payload: its exception ends the process. *)
CannotAllocate ==
  /\ at = "payload"
  /\ ReadLength(header) > Memory
  /\ at' = "dead"
  /\ UNCHANGED <<client, stream, header, key, payload, relayed, torn>>

Missing == ReadLength(header) - Len(payload)

(* One turn of the loop: as much of the payload as has arrived. *)
ReadPayload ==
  /\ at = "payload"
  /\ ReadLength(header) <= Memory
  /\ Missing > 0
  /\ stream # <<>>
  /\ LET n == IF Missing < Len(stream) THEN Missing ELSE Len(stream)
     IN  payload' = payload \o Prefix(n) /\ Drop(n)
  /\ UNCHANGED <<client, at, header, key, relayed, torn>>

Mutant_ReadComplete ==
  /\ at = "payload"
  /\ Missing = 0
  /\ Returns(Masked(payload, key))
  /\ UNCHANGED <<client, stream, torn>>

(* The payload is complete: the text, or nothing of any other opcode. *)
ReadComplete ==
  /\ at = "payload"
  /\ Missing = 0
  /\ Returns(IF header[1] % 16 = 1 THEN Masked(payload, key) ELSE <<>>)
  /\ UNCHANGED <<client, stream, torn>>

(* The socket blocks: a field that has not arrived is waited for. *)
Mutant_ReadShort ==
  \/ stream # <<>> /\ GiveUp("idle", 2)
  \/ stream # <<>> /\ GiveUp("length", Extended(header[2]))
  \/ stream # <<>> /\ GiveUp("key", 4)

ReadShort ==
  \/ stream # <<>> /\ GiveUp("idle", 2)
  \/ at = "length" /\ GiveUp("length", Extended(header[2]))
  \/ GiveUp("key", 4)
  \/ /\ at = "payload"
     /\ ReadLength(header) <= Memory
     /\ Missing > 0
     /\ GiveUp("payload", 1)

ReadFrame == \/ ReadHeader \/ ReadExtended \/ ReadKey \/ CannotAllocate
             \/ ReadPayload \/ ReadComplete \/ ReadShort

Init ==
  /\ sent = <<>> /\ written = <<>> /\ ends = <<>> /\ arrived = 0 /\ stream = <<>>
  /\ at = "idle" /\ header = <<>> /\ key = <<>> /\ payload = <<>>
  /\ relayed = <<>>
  /\ split = FALSE /\ torn = FALSE

Next == Send \/ Arrive \/ ReadFrame

(* The one thread of the server calls and finishes read_frame. *)
Spec == Init /\ [][Next]_vars /\ WF_vars(ReadFrame)

-----------------------------------------------------------------------------
(* What everybody should hear of a frame. *)
Said(f) == IF f.opcode = 1 THEN f.text ELSE <<>>

(* How many bytes come before frame k. *)
Begins(k) == IF k = 1 THEN 0 ELSE ends[k - 1]

(* As long as no recv came back short, the calls return the texts of the   *)
(* frames one by one in order, and the next call starts at the first byte  *)
(* of a frame: read_frame takes exactly the bytes of one frame, whatever   *)
(* its length encoding, mask and opcode (src/websocket_handler.cpp:16-92). *)
InStep ==
  at = "idle" /\ ~torn =>
    /\ Len(relayed) <= Len(sent)
    /\ \A k \in 1 .. Len(relayed) : relayed[k] = Said(sent[k])
    /\ stream = SubSeq(written, Begins(Len(relayed) + 1) + 1, arrived)

(* A client whose frames each arrive in one piece is never cut off in a    *)
(* frame: the recv != n branches of read_frame are taken only when the     *)
(* network has split one.                                                  *)
TornOnlyBySplit == torn => split

(* The length read_frame allocates comes from the client.  With frames     *)
(* that fit, the allocation fails, and ends the server, only after a       *)
(* frame was torn and payload bytes are taken for a header (line 65).      *)
DeadOnlyAfterTear == at = "dead" => torn

(* The one thread of the poll server is never held up in read_frame by a   *)
(* client that sends half a frame and stops: accept sets O_NONBLOCK, so a  *)
(* missing field ends the call (lines 20, 37, 44, 58, 71).                 *)
NeverHeld == at \notin {"idle", "dead"} ~> at \in {"idle", "dead"}
=============================================================================
