CONSTANTS
  A = A
  B = B
  Null = Null
  NoStr <- Null
  Strings <- MCStrings
  JsonKeys <- MCJsonKeys
  IntVals = {2000}
  Uninit <- MCUninit
  MaxDepth = 3
  MaxMaps = 3
  MaxChunks = 12

SPECIFICATION Spec
\* soundcloud_open_uri returns: every behaviour ends in pc = "done".
CHECK_DEADLOCK FALSE

INVARIANT SuccessMeansParsed
