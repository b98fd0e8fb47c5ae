----------------------------- MODULE MCWebSocket -----------------------------
(***************************************************************************)
(* The parts of the WebSocket protocol, for TLC: the lengths of frames,    *)
(* read_frame, the handshake, both Base64 encoders and the SHA1 class with *)
(* words so small that they come round.  A behaviour is of one of them,    *)
(* the others are not called in it.                                        *)
(***************************************************************************)
EXTENDS MCSha1, FrameLengths

CONSTANTS
  Frames, MaxFrames,                          \* those of FrameReader
  Requests, LowerCase, MagicString, Digest,   \* those of AcceptKey
  Octet, MaxEncoded                           \* those of Base64

VARIABLES
  sent, written, ends, arrived, stream, reader_at, header, key, payload, relayed, split, torn,
  headers, upgrade_at, blocks, hash, W, buffers, accept,
  data, encode_i, output, idx, byte_array_3, result, size

-----------------------------------------------------------------------------
(* read_frame: one frame for each way through it. *)
MCFrames == {
  [opcode |-> 1, key |-> <<17, 34, 51, 68>>, extended |-> 0,
   text |-> <<72, 101, 108, 108, 111>>],
  [opcode |-> 1, key |-> <<>>, extended |-> 2, text |-> <<65>>],
  [opcode |-> 1, key |-> <<1, 127, 3, 4>>, extended |-> 8, text |-> <<66>>],
  [opcode |-> 2, key |-> <<>>, extended |-> 0,
   text |-> <<1, 127, 1, 1, 1, 1, 1, 1, 1, 1>>],
  [opcode |-> 8, key |-> <<5, 6, 7, 8>>, extended |-> 0, text |-> <<>>] }

(* The handshake: the key of RFC 6455's example, keys of 19 and 20 octets, *)
(* which with the GUID are the longest that fit one block and the shortest *)
(* that do not, and one of a single octet.                                 *)
Sample == <<100, 71, 104, 108, 73, 72, 78, 104, 98, 88, 66, 115, 90, 83, 66,
    117, 98, 50, 53, 106, 90, 81, 61, 61>>
Nineteen == [j \in 1 .. 19 |-> 120]
Twenty == [j \in 1 .. 20 |-> 121]
Short == <<107>>

MCMagicString == <<50, 53, 56, 69, 65, 70, 65, 53, 45, 69, 57, 49, 52, 45, 52,
    55, 68, 65, 45, 57, 53, 67, 65, 45, 67, 53, 65, 66, 48, 68, 67, 56, 53,
    66, 49, 49>>

(* Digests that were computed elsewhere. *)
MCDigest ==
  [k \in {Sample, Nineteen, Twenty, Short} |->
     CASE k = Sample -> <<179, 122, 79, 44, 192, 98, 79, 22, 144, 246, 70, 6,
            207, 56, 89, 69, 178, 190, 196, 234>>
       [] k = Nineteen -> <<169, 11, 49, 135, 99, 91, 254, 251, 39, 15, 218,
            29, 232, 112, 98, 63, 162, 32, 137, 253>>
       [] k = Twenty -> <<189, 36, 96, 180, 40, 5, 170, 144, 227, 87, 183,
            185, 129, 59, 144, 250, 52, 153, 80, 76>>
       [] k = Short -> <<113, 168, 180, 28, 85, 139, 236, 49, 7, 102, 76, 135,
            197, 220, 175, 212, 249, 247, 71, 163>>]

Names == {"Upgrade", "upgrade", "Sec-WebSocket-Key", "sec-websocket-key"}

MCLowerCase == [n \in Names |-> IF n \in {"Upgrade", "upgrade"} THEN "upgrade"
                               ELSE "sec-websocket-key"]

MCRequests ==
  UNION {{h \in [N -> {<<>>, Sample, Nineteen, Twenty, Short}] :
            \A n \in N : MCLowerCase[n] = "upgrade" => h[n] = <<>>} : N \in SUBSET Names}

-----------------------------------------------------------------------------
F == INSTANCE FrameReader WITH at <- reader_at
A == INSTANCE AcceptKey WITH at <- upgrade_at, H <- hash
E == INSTANCE Base64 WITH MaxLength <- MaxEncoded, i <- encode_i

ASSUME FramesAssumption == \A f \in Frames : F!WellFormed(f)

ASSUME RequestsAssumption ==
  /\ MagicString \in Seq(0 .. 255)
  /\ \A h \in Requests : \A n \in DOMAIN h : h[n] \in Seq(0 .. 255)

ASSUME DigestAssumption ==
  \A h \in Requests : \A n \in DOMAIN h :
    LowerCase[n] = "sec-websocket-key" /\ h[n] # <<>> =>
      /\ Digest[h[n]] = A!SHA1(h[n] \o MagicString)
      /\ Digest[h[n]] \in [1 .. 20 -> 0 .. 255]

ASSUME LowerCaseAssumption == LowerCase["Upgrade"] = "upgrade"

ASSUME OctetAssumption == Octet \subseteq 0 .. 255 /\ MaxEncoded \in Nat

NoRequest == /\ headers = <<>> /\ upgrade_at = "not called" /\ blocks = <<>>
             /\ hash = <<>> /\ W = <<>> /\ buffers = <<>> /\ accept = <<>>
NoData == /\ data = <<>> /\ encode_i = 0 /\ output = <<>>
          /\ idx = 0 /\ byte_array_3 = <<>> /\ result = <<>> /\ size = 0

reading == <<sent, written, ends, arrived, stream, reader_at, header, key, payload, relayed, split, torn>>
upgrading == <<headers, upgrade_at, blocks, hash, W, buffers, accept>>
encoding == <<data, encode_i, output, idx, byte_array_3, result, size>>
webSocketVars == <<called, vars, lengthVars, reading, upgrading, encoding>>

WebSocketInit ==
  /\ called \in {"SHA1", "send_frame", "read_frame", "get_accept_key", "base64"}
  /\ Init
  /\ FirstLength
  /\ F!Init
  /\ IF called = "get_accept_key" THEN A!Init ELSE NoRequest
  /\ IF called = "base64" THEN E!Init ELSE NoData

HashShort == called = "SHA1" /\ Next
          /\ UNCHANGED <<called, lengthVars, reading, upgrading, encoding>>
Measure == called = "send_frame" /\ NextLength
           /\ UNCHANGED <<called, vars, reading, upgrading, encoding>>
Read == called = "read_frame" /\ F!Next
        /\ UNCHANGED <<called, vars, lengthVars, upgrading, encoding>>
Upgrade == called = "get_accept_key" /\ A!Next
           /\ UNCHANGED <<called, vars, lengthVars, reading, encoding>>
EncodeAll == called = "base64" /\ E!Next
             /\ UNCHANGED <<called, vars, lengthVars, reading, upgrading>>

WebSocketNext == HashShort \/ Measure \/ Read \/ Upgrade \/ EncodeAll

WebSocketSpec == WebSocketInit /\ [][WebSocketNext]_webSocketVars /\ WF_reading(F!ReadFrame)

-----------------------------------------------------------------------------
(* read_frame stays in step with the stream until a recv comes back short, *)
(* which only a frame that was cut makes happen, and only after that does  *)
(* it allocate what no client announced (websocket_handler.cpp:16-92).     *)
FramesInStep == F!InStep /\ F!TornOnlyBySplit /\ F!DeadOnlyAfterTear

(* Half a frame never holds the server up (lines 20 to 71). *)
NeverHeld == F!NeverHeld

(* Who asks for an upgrade and has a key is upgraded, with the accept key  *)
(* RFC 6455 asks for, in Base64 as either encoder writes it (lines 134 to  *)
(* 272).                                                                   *)
HandshakeRight == A!AcceptIsDigest /\ A!UpgradedAsAsked /\ E!BothEncode
=============================================================================
