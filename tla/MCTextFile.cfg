CONSTANTS
  Step = 3
  MaxLength = 8
  MaxFile = 5

SPECIFICATION Spec
\* ReadLine returns nullptr at the end of the file, or aborts.
CHECK_DEADLOCK FALSE

INVARIANT LinesOfFile
