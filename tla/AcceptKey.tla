------------------------------ MODULE AcceptKey ------------------------------
(***************************************************************************)
(* The upgrade of a request to a WebSocket: is it one, which key does it   *)
(* name, and what is answered (src/websocket_handler.cpp:207-272), with    *)
(* the rounds of SHA1::ProcessMessageBlock (src/SHA1.cpp:360-436), one a   *)
(* step.  That the blocks are those of the padded message is shown by      *)
(* Sha1.  A word is a pair of halves of 16 bits.                           *)
(***************************************************************************)
EXTENDS Base64Text

CONSTANTS
  Requests,     \* the headers of requests: names to values, as octets
  LowerCase,    \* LowerCase[n]: to_lower_case of a name
  MagicString,  \* the octets of magic_string
  Digest        \* Digest[k]: SHA-1 of k and MagicString, as 20 octets

VARIABLES
  headers,
  at,         \* "request", "hash", "plain" (answered by a route), "upgraded"
  blocks,     \* the blocks not processed
  H,
  W,          \* the words of the block that rounds have used
  buffers,    \* A, B, C, D, E
  accept      \* the value of Sec-WebSocket-Accept

vars == <<headers, at, blocks, H, W, buffers, accept>>

-----------------------------------------------------------------------------
(* Words *)

Half == 65536

Plus(v, w) == LET low == v[2] + w[2]
              IN  <<(v[1] + w[1] + low \div Half) % Half, low % Half>>

Sum5(a, b, c, d, e) == Plus(Plus(Plus(Plus(a, b), c), d), e)

(* The bits both have; the other operations follow from it. *)
HalfAnd(a, b) ==
  LET bits[k \in 0 .. 16] ==   \* bit k and those above it
        IF k = 16 THEN 0
        ELSE ((a \div 2 ^ k) % 2) * ((b \div 2 ^ k) % 2) + 2 * bits[k + 1]
  IN  bits[0]

WAnd(v, w) == <<HalfAnd(v[1], w[1]), HalfAnd(v[2], w[2])>>
WOr(v, w) == <<v[1] + w[1] - HalfAnd(v[1], w[1]), v[2] + w[2] - HalfAnd(v[2], w[2])>>
WXor(v, w) == <<v[1] + w[1] - 2 * HalfAnd(v[1], w[1]), v[2] + w[2] - 2 * HalfAnd(v[2], w[2])>>
Complement(w) == <<Half - 1 - w[1], Half - 1 - w[2]>>

CircularShift(bits, w) ==
  LET v == IF bits >= 16 THEN <<w[2], w[1]>> ELSE w
      up == 2 ^ (bits % 16)
      down == 2 ^ (16 - (bits % 16))
  IN  <<((v[1] * up) % Half) + (v[2] \div down), ((v[2] * up) % Half) + (v[1] \div down)>>

-----------------------------------------------------------------------------
InitialH == <<<<26437, 8961>>, <<61389, 43913>>, <<39098, 56574>>,
              <<4146, 21622>>, <<50130, 57840>>>>

K == <<<<23170, 31129>>, <<28377, 60321>>, <<36635, 48348>>, <<51810, 49622>>>>

(* The blocks of a message by the standard.  Messages are shorter than     *)
(* 2^29 octets: their lengths in bits fit the lower of the two words.      *)
Blocks(m) ==
  LET n == (Len(m) + 9 + 63) \div 64
      octet(p) == IF p <= Len(m) THEN m[p]
                  ELSE IF p = Len(m) + 1 THEN 128
                  ELSE IF p > 64 * n - 4 THEN ((8 * Len(m)) \div 256 ^ (64 * n - p)) % 256
                  ELSE 0
  IN  [b \in 1 .. n |-> [j \in 1 .. 64 |-> octet(64 * (b - 1) + j)]]

Mutant_KeyNames == {n \in DOMAIN headers : n = "Sec-WebSocket-Key"}

KeyNames == {n \in DOMAIN headers : LowerCase[n] = "sec-websocket-key"}

(* is_websocket looks for the one spelling of "Upgrade". *)
IsWebsocket == "Upgrade" \in DOMAIN headers

(* find_websocket_key takes the first name the map comes to. *)
FindWebsocketKey(n) ==
  /\ at = "request"
  /\ IsWebsocket
  /\ n \in KeyNames
  /\ headers[n] # <<>>
  /\ blocks' = Blocks(headers[n] \o MagicString)
  /\ at' = "hash"
  /\ H' = InitialH
  /\ W' = <<>>
  /\ buffers' = InitialH
  /\ UNCHANGED <<headers, accept>>

Plain ==
  /\ at = "request"
  /\ \/ ~IsWebsocket
     \/ KeyNames = {}
     \/ \E n \in KeyNames : headers[n] = <<>>
  /\ at' = "plain"
  /\ UNCHANGED <<headers, blocks, H, W, buffers, accept>>

(* W[t] of a block, from it or from the words before. *)
NextWord(block, words) ==
  LET t == Len(words)
      o(j) == block[4 * t + j]
  IN  IF t < 16 THEN <<o(1) * 256 + o(2), o(3) * 256 + o(4)>>
      ELSE CircularShift(1, WXor(WXor(words[t - 2], words[t - 7]),
                                 WXor(words[t - 13], words[t - 15])))

Mix(t, b, c, d) ==
  IF t < 20 THEN WOr(WAnd(b, c), WAnd(Complement(b), d))
  ELSE IF 40 <= t /\ t < 60 THEN WOr(WOr(WAnd(b, c), WAnd(b, d)), WAnd(c, d))
  ELSE WXor(WXor(b, c), d)

(* A, B, C, D, E after round t. *)
Mixed(t, abcde, word) ==
  LET temp == Sum5(CircularShift(5, abcde[1]), Mix(t, abcde[2], abcde[3], abcde[4]),
                   abcde[5], word, K[t \div 20 + 1])
  IN  <<temp, abcde[1], CircularShift(30, abcde[2]), abcde[3], abcde[4]>>

Round ==
  /\ at = "hash" /\ blocks # <<>>
  /\ Len(W) < 80
  /\ W' = Append(W, NextWord(blocks[1], W))
  /\ buffers' = Mixed(Len(W), buffers, NextWord(blocks[1], W))
  /\ UNCHANGED <<headers, at, blocks, H, accept>>

WordSums(h, abcde) == [j \in 1 .. 5 |-> Plus(h[j], abcde[j])]

Mutant_EndBlock ==
  /\ at = "hash"
  /\ Len(W) = 80
  /\ H' = WordSums(H, buffers)
  /\ buffers' = InitialH
  /\ W' = <<>>
  /\ blocks' = Tail(blocks)
  /\ UNCHANGED <<headers, at, accept>>

EndBlock ==
  /\ at = "hash"
  /\ Len(W) = 80
  /\ H' = WordSums(H, buffers)
  /\ buffers' = H'
  /\ W' = <<>>
  /\ blocks' = Tail(blocks)
  /\ UNCHANGED <<headers, at, accept>>

(* The words in the byte order of the network, as htonl leaves them. *)
HashOctets(h) ==
  [p \in 1 .. 20 |-> LET half == h[(p + 3) \div 4][((p - 1) % 4) \div 2 + 1]
                     IN  IF p % 2 = 1 THEN half \div 256 ELSE half % 256]

(* The 101 with the encoded digest. *)
Answer ==
  /\ at = "hash" /\ blocks = <<>>
  /\ accept' = Encoded(HashOctets(H))
  /\ at' = "upgraded"
  /\ UNCHANGED <<headers, blocks, H, W, buffers>>

Init ==
  /\ headers \in Requests
  /\ at = "request"
  /\ blocks = <<>> /\ H = <<>> /\ W = <<>> /\ buffers = <<>> /\ accept = <<>>

Next == (\E n \in DOMAIN headers : FindWebsocketKey(n)) \/ Plain \/ Round \/ EndBlock \/ Answer

Spec == Init /\ [][Next]_vars

-----------------------------------------------------------------------------
(* SHA-1 by FIPS 180-1. *)

(* The words and the buffers after t rounds on a block. *)
Rounds(h, block) ==
  LET round(r) == [words |-> Append(r.words, NextWord(block, r.words)),
                   abcde |-> Mixed(Len(r.words), r.abcde, NextWord(block, r.words))]
      after[t \in 0 .. 80] ==
        IF t = 0 THEN [words |-> <<>>, abcde |-> h] ELSE round(after[t - 1])
  IN  after

(* H after b blocks of message m. *)
Hashed(m) ==
  LET bs == Blocks(m)
      plus(h, block) == WordSums(h, Rounds(h, block)[80].abcde)
      after[b \in 0 .. Len(bs)] == IF b = 0 THEN InitialH ELSE plus(after[b - 1], bs[b])
  IN  after

SHA1(m) == HashOctets(Hashed(m)[Len(Blocks(m))])

(* The names of the request, as a client means them. *)
Asked == {LowerCase[n] : n \in DOMAIN headers}

(* The 101 carries the Base64 of the SHA-1 of a key the request named and  *)
(* the GUID, whether that fits one block or, as the keys of RFC 6455 do    *)
(* not, takes two (src/websocket_handler.cpp:207-218).                     *)
AcceptIsDigest ==
  at = "upgraded" =>
    \E n \in DOMAIN headers : /\ LowerCase[n] = "sec-websocket-key"
                              /\ headers[n] # <<>>
                              /\ IsBase64(accept, Digest[headers[n]])

(* A request is upgraded only if it asks for it and has a key, however the *)
(* key's name is spelt; and if so it is not upgraded only where "Upgrade"  *)
(* is spelt otherwise, as field names may be (line 237), or a key is empty *)
(* (line 256).                                                             *)
UpgradedAsAsked ==
  /\ at = "upgraded" => {"upgrade", "sec-websocket-key"} \subseteq Asked
  /\ at = "plain" /\ {"upgrade", "sec-websocket-key"} \subseteq Asked =>
       \/ "Upgrade" \notin DOMAIN headers
       \/ \E n \in DOMAIN headers : LowerCase[n] = "sec-websocket-key" /\ headers[n] = <<>>
=============================================================================
