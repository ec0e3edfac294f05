CONSTANTS
  HasSeek = TRUE
  HasTag = FALSE
  MaxChunks = 2
  MaxOps = 3
  MaxSpurious = 2

SPECIFICATION Spec
\* Both threads return and the I/O thread stops: the run ends.  A thread
\* stuck before "done" violates AllReturn instead.
CHECK_DEADLOCK FALSE

INVARIANT TypeOK
INVARIANT PluginCallsLocked
INVARIANT WaitReadyReturnsReady
 
PROPERTY AllReturn
