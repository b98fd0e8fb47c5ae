SPECIFICATION WebSocketSpec
CONSTANTS
  Base = 2
  Message <- MCMessage
  Garbage <- MCGarbage
  Chunks = {1, 7}
  MaxOctets = 40
  Memory = 1048576
  Longest = 66000
  Frames <- MCFrames
  MaxFrames = 2
  Requests <- MCRequests
  LowerCase <- MCLowerCase
  MagicString <- MCMagicString
  Digest <- MCDigest
  Octet = {0, 27, 64, 165, 255}
  MaxEncoded = 4
INVARIANTS
  RefusedOnlyWhenMisused
  LengthSurvives
  FramesInStep
  HandshakeRight
PROPERTIES
  NeverHeld
CHECK_DEADLOCK FALSE
