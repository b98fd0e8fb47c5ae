-------------------------------- MODULE Base64 --------------------------------
(***************************************************************************)
(* base64_encode and b64 (src/websocket_handler.cpp:134-205): two encoders *)
(* of one encoding, the first three octets a turn, the other one octet a   *)
(* turn with an array that keeps the octets of earlier turns.              *)
(***************************************************************************)
EXTENDS Base64Text, SequencesExt

CONSTANTS
  Octet,       \* the octets tried
  MaxLength    \* every sequence of them up to this length is encoded

VARIABLES
  data,
  i, output,                \* base64_encode
  idx, byte_array_3, result, \* b64; byte_array_3 has no value at first
  size                      \* i of b64: octets in byte_array_3

vars == <<data, i, output, idx, byte_array_3, result, size>>

-----------------------------------------------------------------------------
Encode ==
  /\ i < Len(data)
  /\ output' = output \o Group(data, i)
  /\ i' = i + 3
  /\ UNCHANGED <<data, idx, byte_array_3, result, size>>

-----------------------------------------------------------------------------
Put(octet) == [byte_array_3 EXCEPT ![size + 1] = octet]

(* One turn of the loop of b64; a full array is written out. *)
B64Octet ==
  /\ idx < Len(data)
  /\ byte_array_3' = Put(data[idx + 1])
  /\ IF size + 1 = 3
       THEN /\ result' = result \o Digits(byte_array_3'[1], byte_array_3'[2], byte_array_3'[3])
            /\ size' = 0
       ELSE size' = size + 1 /\ result' = result
  /\ idx' = idx + 1
  /\ UNCHANGED <<data, i, output>>

Mutant_Cleared == byte_array_3

(* Zeros for the octets that are missing. *)
Cleared == [j \in 1 .. 3 |-> IF j > size THEN 0 ELSE byte_array_3[j]]

(* What is left over behind the loop, padded to a whole group. *)
B64Rest ==
  /\ idx = Len(data)
  /\ size > 0
  /\ byte_array_3' = Cleared
  /\ LET d == Digits(Cleared[1], Cleared[2], Cleared[3])
     IN  result' = result \o [j \in 1 .. 4 |-> IF j <= size + 1 THEN d[j] ELSE Equals]
  /\ size' = 0
  /\ UNCHANGED <<data, i, output, idx>>

Init ==
  /\ data \in BoundedSeq(Octet, MaxLength)
  /\ i = 0 /\ output = <<>>
  /\ idx = 0 /\ size = 0 /\ result = <<>>
  /\ byte_array_3 \in {[j \in 1 .. 3 |-> o] : o \in Octet}

Next == Encode \/ B64Octet \/ B64Rest

Spec == Init /\ [][Next]_vars

-----------------------------------------------------------------------------
(* Both encoders end with the encoding of RFC 4648, whatever the length    *)
(* leaves over of a group and whatever byte_array_3 held before            *)
(* (src/websocket_handler.cpp:138-147, 186-201).                           *)
BothEncode ==
  /\ i >= Len(data) => IsBase64(output, data)
  /\ idx = Len(data) /\ size = 0 => IsBase64(result, data)
=============================================================================
