\* Paths of up to 7 characters over a, '.', '/' and '\', URIs of the
\* http, https and another scheme with up to 4 characters of authority,
\* comment keys and values of up to 3 chars, "filters" values of up to 5
\* chars with up to 3 filter blocks, Range values around the padding, and
\* SoundCloud URIs of up to 4 tokens after the scheme (5 after url/),
\* and songs in and out of the database.
CONSTANTS
  Alphabet = {"a", ".", "/", "\\"}
  MaxLen = 7
  AuthTail = {"a", "@", "/"}
  Bytes <- MCBytes
  MaxPairLen = 3
  FilterChars = {"a", "b", ","}
  MaxFilterLen = 5
  MaxBlocks = 3
  NoName = NoName
  ApiKey <- MCApiKey
  RangeMs = {0, 7, 70, 1000, 1070, 12005}
SPECIFICATION Spec
INVARIANT SafeLocalNoEscape
INVARIANT SafeLocalComplete
INVARIANT SuffixOfBaseName
INVARIANT PairRoundTrip
INVARIANT FilterChainMatchesFields
INVARIANT RangeRoundTrip
INVARIANT RequestMatchesUri
INVARIANT SongUriPrinted
