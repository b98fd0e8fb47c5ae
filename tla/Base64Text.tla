------------------------------ MODULE Base64Text ------------------------------
(***************************************************************************)
(* Base64 as both encoders of src/websocket_handler.cpp make it, and as    *)
(* RFC 4648 asks for it.  A character is its place in base64_chars.        *)
(***************************************************************************)
EXTENDS Integers, Sequences

Equals == 64   \* the character '='

(* The four characters of three octets. *)
Digits(b0, b1, b2) == << b0 \div 4,
                         (b0 % 4) * 16 + b1 \div 16,
                         (b1 % 16) * 4 + b2 \div 64,
                         b2 % 64 >>

(* The characters of a turn that begins with octet n of s, from 0. *)
Group(s, n) ==
  LET left == Len(s) - n
      b1 == IF left > 1 THEN s[n + 2] ELSE 0
      b2 == IF left > 2 THEN s[n + 3] ELSE 0
      d == Digits(s[n + 1], b1, b2)
  IN  <<d[1], d[2], IF left > 1 THEN d[3] ELSE Equals, IF left > 2 THEN d[4] ELSE Equals>>

(* Turn after turn, a group of four for three octets. *)
Encoded(s) ==
  [p \in 1 .. 4 * ((Len(s) + 2) \div 3) |->
     Group(s, 3 * ((p - 1) \div 4))[((p - 1) % 4) + 1]]

-----------------------------------------------------------------------------
Weight == <<1, 2, 4, 8, 16, 32, 64, 128>>

(* Bit p, from 0 and the most significant first, of a sequence of numbers  *)
(* that have width bits each.                                              *)
Bit(s, width, p) == (s[p \div width + 1] \div Weight[width - (p % width)]) % 2

(* RFC 4648: the bits of text are those of octets, filled up with zeros to *)
(* a whole character and with '=' to a whole group.                        *)
IsBase64(text, octets) ==
  LET digits == (8 * Len(octets) + 5) \div 6 IN
  /\ Len(text) = 4 * ((Len(octets) + 2) \div 3)
  /\ \A p \in 1 .. Len(text) :
       IF p <= digits THEN text[p] \in 0 .. 63 ELSE text[p] = Equals
  /\ \A p \in 0 .. 6 * digits - 1 :
       Bit(text, 6, p) = IF p < 8 * Len(octets) THEN Bit(octets, 8, p) ELSE 0
=============================================================================
