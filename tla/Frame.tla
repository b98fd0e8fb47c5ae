-------------------------------- MODULE Frame --------------------------------
(***************************************************************************)
(* The length of a WebSocket message on the wire: how send_frame writes it *)
(* and how read_frame reads it back (src/websocket_handler.cpp).  The      *)
(* encoding changes at 126 and at 65536.                                   *)
(*                                                                         *)
(* Lengths have 64 bits in the code; a reader that computes one beyond     *)
(* what can be allocated keeps only that it is too long.                   *)
(***************************************************************************)
EXTENDS Integers, Sequences

CONSTANT Memory     \* the longest payload std::vector can allocate

-----------------------------------------------------------------------------
(* send_frame *)

Shift8(w) == w \div 256

(* The four low-order bytes of w, the most significant first. *)
Octets(w) == << Shift8(Shift8(Shift8(w))) % 256, Shift8(Shift8(w)) % 256,
                Shift8(w) % 256, w % 256 >>

HighHalf(w) == Shift8(Shift8(Shift8(Shift8(w))))

(* A length is a size_t of 64 bits. *)
ASSUME MemoryAssumption == Memory \in Nat /\ HighHalf(HighHalf(Memory)) = 0

Mutant_SendHeader(n) ==
  IF n <= 125 THEN <<129, n>>
  ELSE IF n <= 65536 THEN <<129, 126, Shift8(n) % 256, n % 256>>
  ELSE <<129, 127>> \o Octets(HighHalf(n)) \o Octets(n)

SendHeader(n) ==
  IF n <= 125 THEN <<129, n>>
  ELSE IF n <= 65535 THEN <<129, 126, Shift8(n) % 256, n % 256>>
  ELSE <<129, 127>> \o Octets(HighHalf(n)) \o Octets(n)

-----------------------------------------------------------------------------
(* read_frame *)

(* payload_length << 8 | b, no longer exact once it is beyond Memory. *)
Extend(n, b) == IF n > Memory THEN n ELSE 256 * n + b

(* The extended length of a header, in two bytes and in eight. *)
Length16(h) == 256 * h[3] + h[4]

Mutant_Length64(h) ==
  Extend(Extend(Extend(Extend(Extend(Extend(Extend(Extend(0,
    h[10]), h[9]), h[8]), h[7]), h[6]), h[5]), h[4]), h[3])

Length64(h) ==
  Extend(Extend(Extend(Extend(Extend(Extend(Extend(Extend(0,
    h[3]), h[4]), h[5]), h[6]), h[7]), h[8]), h[9]), h[10])

(* How many bytes of extended length follow the second byte of a header. *)
Extended(second) == IF second % 128 = 126 THEN 2
                    ELSE IF second % 128 = 127 THEN 8 ELSE 0

ReadLength(h) ==
  IF Extended(h[2]) = 0 THEN h[2] % 128
  ELSE IF Extended(h[2]) = 2 THEN Length16(h)
  ELSE Length64(h)
=============================================================================
