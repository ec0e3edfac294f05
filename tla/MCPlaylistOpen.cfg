\* Documents of two strings, one duration and up to 3 maps nested at most
\* 3 deep; three input plugins, the archive plugin in the middle so that
\* both a plugin before it and one after it can decide the outcome.
CONSTANTS
  A = A
  B = B
  Null = Null
  NoStr <- Null
  Strings <- JsonStrings
  JsonKeys <- JsonKeySet
  IntVals = {2000}
  Uninit <- UninitLong
  MaxDepth = 3
  MaxMaps = 3
  MaxChunks = 12
  InputPlugins <- Plugins
SPECIFICATION Spec
\* playlist_open_any returns: a behaviour ends in opc = "done".
CHECK_DEADLOCK FALSE
INVARIANT TypeOK
INVARIANT TrackEmitsSong
INVARIANT StreamReleased
INVARIANT NothingLeaked
INVARIANT OpenFirstAccepting
