-------------------------------- MODULE Sha1 --------------------------------
(***************************************************************************)
(* The SHA1 class (src/SHA1.cpp) without its compression function: Input,  *)
(* Result and Reset in any order, the block that fills up, the length      *)
(* counted in two words, and the padding.  H stands for the blocks it was  *)
(* computed from.                                                          *)
(*                                                                         *)
(* The words have four octets of Base values each, 256 in the code.        *)
(***************************************************************************)
EXTENDS Integers, Sequences

CONSTANTS
  Base,         \* values of an octet of a length
  Message,      \* the octets given, from the first after a Reset
  Garbage,      \* what an uninitialised Message_Block holds
  Chunks        \* the lengths Input is called with

WordSize == Base * Base * Base * Base     \* 2^32

ASSUME Sha1Assumption ==
  /\ Base \in Nat /\ WordSize > 8
  /\ WordSize % 8 = 0
  /\ Message \in Seq(Nat)
  /\ Garbage \in [0 .. 63 -> Nat]
  /\ Chunks \subseteq Nat \ {0}

VARIABLES
  H,                      \* the blocks processed
  Length_Low, Length_High,
  Message_Block, Message_Block_Index,
  Computed, Corrupted,
  length,                 \* what a call of Input has not taken yet
  taken,                  \* octets taken since the last Reset
  late                    \* Input was called after Result

vars == <<H, Length_Low, Length_High, Message_Block, Message_Block_Index,
          Computed, Corrupted, length, taken, late>>

-----------------------------------------------------------------------------
Reset ==
  /\ length = 0
  /\ H' = <<>>
  /\ Length_Low' = 0 /\ Length_High' = 0
  /\ Message_Block_Index' = 0
  /\ Computed' = FALSE /\ Corrupted' = FALSE
  /\ taken' = 0 /\ late' = FALSE
  /\ UNCHANGED <<Message_Block, length>>

Input(n) ==
  /\ length = 0
  /\ ~Computed /\ ~Corrupted
  /\ taken + n <= Len(Message)
  /\ length' = n
  /\ UNCHANGED <<H, Length_Low, Length_High, Message_Block, Message_Block_Index,
                 Computed, Corrupted, taken, late>>

InputRefused ==
  /\ length = 0
  /\ Computed \/ Corrupted
  /\ Corrupted' = TRUE
  /\ late' = (late \/ Computed)
  /\ UNCHANGED <<H, Length_Low, Length_High, Message_Block, Message_Block_Index,
                 Computed, length, taken>>

(* An octet at place i of a block. *)
Stored(b, i, octet) == [b EXCEPT ![i] = octet]

Mutant_TooLong ==
  /\ Length_Low' = IF Length_Low + 8 >= WordSize THEN Length_Low + 8 - WordSize
                                                 ELSE Length_Low + 8
  /\ Length_High' = IF Length_Low' # 0 THEN Length_High
                    ELSE IF Length_High + 1 = WordSize THEN 0 ELSE Length_High + 1
  /\ Corrupted' = (Length_High' = 0)

(* Eight bits more, in two words; too long when both come round to 0. *)
CountOctet ==
  /\ Length_Low' = IF Length_Low + 8 >= WordSize THEN Length_Low + 8 - WordSize
                                                 ELSE Length_Low + 8
  /\ Length_High' = IF Length_Low' # 0 THEN Length_High
                    ELSE IF Length_High + 1 = WordSize THEN 0 ELSE Length_High + 1
  /\ Corrupted' = (Length_Low' = 0 /\ Length_High' = 0)

(* One turn of the loop of Input. *)
InputOctet ==
  LET block == Stored(Message_Block, Message_Block_Index, Message[taken + 1]) IN
  /\ length > 0 /\ ~Corrupted
  /\ Message_Block' = block
  /\ CountOctet
  /\ IF Message_Block_Index + 1 = 64
       THEN H' = Append(H, block) /\ Message_Block_Index' = 0
       ELSE Message_Block_Index' = Message_Block_Index + 1 /\ H' = H
  /\ length' = length - 1
  /\ taken' = taken + 1
  /\ UNCHANGED <<Computed, late>>

(* The loop ends where the message got too long. *)
InputStops ==
  /\ length > 0 /\ Corrupted
  /\ length' = 0
  /\ UNCHANGED <<H, Length_Low, Length_High, Message_Block, Message_Block_Index,
                 Computed, Corrupted, taken, late>>

(* The octets of a word, the most significant at 0. *)
OctetOf(word, j) ==
  (IF j = 0 THEN word \div (Base * Base * Base)
   ELSE IF j = 1 THEN word \div (Base * Base)
   ELSE IF j = 2 THEN word \div Base
   ELSE word) % Base

(* The block with 0x80 behind the message and zeros up to the end. *)
Marked == [i \in 0 .. 63 |-> IF i < Message_Block_Index THEN Message_Block[i]
                             ELSE IF i = Message_Block_Index THEN 128 ELSE 0]

WithLength(block) ==
  [i \in 0 .. 63 |-> IF i < 56 THEN block[i]
                     ELSE IF i < 60 THEN OctetOf(Length_High, i - 56)
                     ELSE OctetOf(Length_Low, i - 60)]

Zeros == [i \in 0 .. 63 |-> 0]

Mutant_PadMessage ==
  /\ IF Message_Block_Index > 56
       THEN /\ Message_Block' = WithLength(Zeros)
            /\ H' = H \o <<Marked, Message_Block'>>
       ELSE /\ Message_Block' = WithLength(Marked)
            /\ H' = Append(H, Message_Block')
  /\ Message_Block_Index' = 0

(* If the length does not fit behind the 0x80 it takes a block of its own. *)
PadMessage ==
  /\ IF Message_Block_Index > 55
       THEN /\ Message_Block' = WithLength(Zeros)
            /\ H' = H \o <<Marked, Message_Block'>>
       ELSE /\ Message_Block' = WithLength(Marked)
            /\ H' = Append(H, Message_Block')
  /\ Message_Block_Index' = 0

Result ==
  /\ length = 0
  /\ ~Corrupted /\ ~Computed
  /\ PadMessage
  /\ Computed' = TRUE
  /\ UNCHANGED <<Length_Low, Length_High, Corrupted, length, taken, late>>

(* A second Result, or one of a corrupted message, changes nothing. *)

Init ==
  /\ H = <<>>
  /\ Length_Low = 0 /\ Length_High = 0
  /\ Message_Block = Garbage
  /\ Message_Block_Index = 0
  /\ Computed = FALSE /\ Corrupted = FALSE
  /\ length = 0
  /\ taken = 0 /\ late = FALSE

Next ==
  \/ Reset
  \/ \E n \in Chunks : Input(n)
  \/ InputRefused
  \/ InputOctet
  \/ InputStops
  \/ Result

Spec == Init /\ [][Next]_vars

-----------------------------------------------------------------------------
TypeOK ==
  /\ H \in Seq([0 .. 63 -> Nat])
  /\ Length_Low \in 0 .. WordSize - 1 /\ Length_High \in 0 .. WordSize - 1
  /\ Message_Block \in [0 .. 63 -> Nat]
  /\ Message_Block_Index \in 0 .. 63
  /\ Computed \in BOOLEAN /\ Corrupted \in BOOLEAN /\ late \in BOOLEAN
  /\ length \in Nat
  /\ taken \in 0 .. Len(Message) /\ taken + length <= Len(Message)

(* FIPS 180: what octet p (from 0) of the padded message is, when it has   *)
(* octets octets: the message, a one bit, zeros, and the number of bits in *)
(* eight octets, high being its upper word.                                *)
PaddedOctet(p, octets, high, low) ==
  IF p < taken THEN Message[p + 1]
  ELSE IF p = taken THEN 128
  ELSE IF p < octets - 8 THEN 0
  ELSE IF p < octets - 4 THEN OctetOf(high, p - (octets - 8))
  ELSE OctetOf(low, p - (octets - 4))

(* A digest is that of the message padded as the standard has it, whatever *)
(* its length, however it was cut into calls and whatever the object was   *)
(* used for before: as few whole blocks as hold it with 0x80 and length,   *)
(* and no octet of an earlier block in them (PadMessage, lines 459 to 496, *)
(* over a buffer nobody clears).                                           *)
DigestOfPadded ==
  Computed =>
    /\ 64 * Len(H) >= taken + 9
    /\ 64 * Len(H) < taken + 9 + 64
    /\ \E high, low \in 0 .. WordSize - 1 :
         /\ WordSize * high + low = 8 * taken
         /\ \A k \in 1 .. Len(H) : \A i \in 0 .. 63 :
              H[k][i] = PaddedOctet(64 * (k - 1) + i, 64 * Len(H), high, low)

(* Result refuses a digest exactly if there was input after a Result or    *)
(* the message reached the 2^64 bits its length cannot say (lines 149 to   *)
(* 164): the counter is in two words and the lower one comes round often.  *)
RefusedOnlyWhenMisused ==
  Corrupted <=> late \/ 8 * taken = WordSize * WordSize
=============================================================================
