\* A 4-byte stream read through a 2-byte buffer, so skips take several
\* (possibly short) reads; a tag larger than 2 bytes is refused.
CONSTANTS
  FileLen = 4
  Buf = 2
  MaxTag = 2
  ULongMod = 1000
SPECIFICATION Spec
INVARIANT SkipToReachesTarget
INVARIANT SkipAdvancesDelta
PROPERTY CallsReturn
