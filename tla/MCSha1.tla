-------------------------------- MODULE MCSha1 --------------------------------
(* What MCUtilities and MCWebSocket share: messages for the SHA1 class, of *)
(* octets that differ from their neighbours and from the padding.          *)
EXTENDS Sha1

CONSTANT MaxOctets     \* bound on the message hashed

VARIABLE called        \* what a behaviour is of

MCMessage == [j \in 1 .. MaxOctets |-> 1 + (j % 127)]
MCGarbage == [j \in 0 .. 63 |-> 200 + j]
=============================================================================
