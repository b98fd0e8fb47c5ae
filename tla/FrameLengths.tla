----------------------------- MODULE FrameLengths -----------------------------
(* send_frame and read_frame on messages of each length in turn. *)
EXTENDS Frame

CONSTANT Longest   \* the longest message sent

ASSUME LongestAssumption == Longest \in 0 .. Memory

VARIABLES
  message_length,   \* the length of the message being sent
  frame,            \* what send_frame puts in front of it
  payload_length    \* what read_frame computes from that

lengthVars == <<message_length, frame, payload_length>>

FirstLength == /\ message_length = 0
               /\ frame = SendHeader(0)
               /\ payload_length = ReadLength(SendHeader(0))

(* A message one byte longer than the last. *)
NextLength == /\ message_length < Longest
              /\ message_length' = message_length + 1
              /\ frame' = SendHeader(message_length')
              /\ payload_length' = ReadLength(frame')

LengthSpec == FirstLength /\ [][NextLength]_lengthVars

-----------------------------------------------------------------------------
(* What send_frame announces is what read_frame takes for the length of    *)
(* the payload, whichever of the three encodings the length falls into     *)
(* (src/websocket_handler.cpp:107-123 against :32-53).                     *)
LengthSurvives == payload_length = message_length
=============================================================================
