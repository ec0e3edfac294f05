\* Paths of up to 5 characters over a, '.', '/' and '\', URIs of the
\* http, https and another scheme with up to 4 characters of authority,
\* and comment keys and values of up to 3 chars.
CONSTANTS
  Alphabet = {"a", ".", "/", "\\"}
  MaxLen = 5
  AuthTail = {"a", "@", "/"}
  Bytes <- MCBytes
  MaxPairLen = 3
  FilterChars = {"a", "b", ","}
  MaxFilterLen = 4
  MaxBlocks = 2
  NoName = NoName
  ApiKey <- MCApiKey
  RangeMs = {0, 7, 70, 1000, 1070, 12005}
SPECIFICATION Spec
INVARIANT RemoveAuthHidesUserinfo
