------------------------------ MODULE MCStrings -----------------------------
(***************************************************************************)
(* Checks the string operators of UriUtil (util/UriUtil.cxx),            *)
(* FileCommands (print_pair of command/FileCommands.cxx), FilterConfig    *)
(* (filter_chain_parse), SongPrint (the Range line) and SoundCloudUri     *)
(* against reference definitions over every input up to a bounded length. *)
(* Each input is an initial state: a URI or path, a (key, value) pair of  *)
(* a comment, a "filters" value with the filter blocks of the             *)
(* configuration, a song's (start_ms, end_ms), a URI given to the         *)
(* SoundCloud plugin, or a song given to song_print_uri.  Each invariant  *)
(* is about one kind of input.                                            *)
(***************************************************************************)
EXTENDS UriUtil, FileCommands, FilterConfig, SongPrint, SoundCloudUri, SequencesExt, FiniteSets

CONSTANTS
  Alphabet,   \* characters of the path strings
  MaxLen,     \* longest path string checked
  AuthTail,   \* characters after the http:// prefix
  Bytes,      \* the chars comments are made of
  MaxPairLen, \* the longest key and value checked
  FilterChars, \* characters of the "filters" values
  MaxFilterLen, \* longest "filters" value checked
  MaxBlocks,   \* most audio_filter blocks in the configuration
  RangeMs      \* the start_ms and end_ms values checked

Paths == BoundedSeq(Alphabet, MaxLen)

HttpUris == { p \o t : p \in {Http, Https, <<"f", ":", "/", "/">>},
                       t \in BoundedSeq(AuthTail, 4) }

\* 'A', '_', '-', ':', ' ', '\n' and the byte 0x80 (-128 as a signed char).
MCBytes == {65, 95, 45, 58, 32, 10, -128}

Strings == BoundedSeq(Bytes, MaxPairLen)

\* audio_filter blocks named "a", "ab" or nothing, of plugin p or q, whose
\* instantiation succeeds or fails.
FilterBlocks ==
  BoundedSeq([name : {<<"a">>, <<"a", "b">>, NoName}, plugin : {"p", "q"},
              ok : BOOLEAN], MaxBlocks)

\* URIs for the SoundCloud plugin: a soundcloud:// prefix (or a broken or
\* foreign one) and up to 4 tokens, and url forms with a page of up to 5.
ScPrefixes ==
  {<<"soundcloud", ":", "/", "/">>, <<"soundcloud", ":", "/">>,
   <<"http", ":", "/", "/">>, <<"soundcloud">>}
ScUris ==
  {p \o t : p \in ScPrefixes,
            t \in BoundedSeq({"track", "playlist", "url", "/", "x", "&"}, 4)} \cup
  {<<"soundcloud", ":", "/", "/", "url", "/">> \o t :
     t \in BoundedSeq({"http", ":", "/", "x", "&", "soundcloud.com"}, 5)}

MCApiKey == <<"key">>

\* Songs for song_print_uri: in the database or not, in the root or in
\* directory "d", with a remote URI or a relative path.
Songs ==
  [inDb : BOOLEAN, parent : {<<>>, <<"d">>},
   uri : HttpUris \cup {<<"a">>, <<"a", "/", "a">>}]

\* The input checked: [kind |-> "uri", val |-> a string] or
\* [kind |-> "pair", val |-> <<key, value>>].
VARIABLE input

\* One set of inputs per kind; Init draws from each in turn.
Inputs ==
  << {[kind |-> "uri", val |-> u] : u \in Paths \cup HttpUris},
     {[kind |-> "pair", val |-> kv] : kv \in Strings \X Strings},
     {[kind |-> "filter", val |-> sb] :
        sb \in BoundedSeq(FilterChars, MaxFilterLen) \X FilterBlocks},
     {[kind |-> "range", val |-> r] : r \in RangeMs \X RangeMs},
     {[kind |-> "scuri", val |-> u] : u \in ScUris},
     {[kind |-> "song", val |-> sg] : sg \in Songs} >>

Init == \E k \in DOMAIN Inputs : input \in Inputs[k]
Next == UNCHANGED input
Spec == Init /\ [][Next]_input

IsUri == input.kind = "uri"
IsPair == input.kind = "pair"
uri == input.val
pair == input.val
IsFilter == input.kind = "filter"
IsRange == input.kind = "range"
IsScUri == input.kind = "scuri"
IsSong == input.kind = "song"

-----------------------------------------------------------------------------
(* Reference definitions                                                   *)

RECURSIVE SplitSlash(_)
SplitSlash(u) ==
  LET s == StrChr(u, 1, "/")
  IN IF s = 0 THEN <<u>>
     ELSE <<SubSeq(u, 1, s - 1)>> \o SplitSlash(SubSeq(u, s + 1, Len(u)))

DotSegments == {<<".">>, <<".", ".">>}

\* Resolving the segments from the music directory: ".." goes up one level.
Step(s) == CASE s = <<".", ".">> -> -1 [] s \in {<<>>, <<".">>} -> 0 [] OTHER -> 1

Escapes(u) ==
  LET segs == SplitSlash(u)
  IN \E k \in 1..Len(segs) :
       FoldLeft(LAMBDA acc, s : acc + Step(s), 0, SubSeq(segs, 1, k)) < 0

\* A relative path whose segments are all non-empty and neither "." nor "..".
RefSafeLocal(u) ==
  \A i \in DOMAIN SplitSlash(u) :
    SplitSlash(u)[i] # <<>> /\ SplitSlash(u)[i] \notin DotSegments

\* The suffix is what follows the last '.' of the last path component,
\* when that dot is not the component's first character.
RefSuffix(u) ==
  LET b    == SelectLastInSeq(u, LAMBDA x : x \in Separators)
      base == SubSeq(u, b + 1, Len(u))
      d    == SelectLastInSeq(base, LAMBDA x : x = ".")
  IN IF d \in {0, 1} THEN Null ELSE Some(SubSeq(base, d + 1, Len(base)))

\* The userinfo of an authority ends at its last '@' (RFC 3986).
RefRemoveAuth(u) ==
  LET auth == AuthStart(u)
      at   == SelectLastInSubSeq(u, auth, AuthEnd(u) - 1, LAMBDA x : x = "@")
  IN IF auth = 0 \/ at = 0 THEN <<>>
     ELSE SubSeq(u, 1, auth - 1) \o SubSeq(u, at + 1, Len(u))

-----------------------------------------------------------------------------
(* Properties                                                              *)

\* uri_safe_local guards file access by clients (e.g. read_comments maps a
\* relative URI below the music directory): a URI it accepts never climbs
\* above the directory it is resolved against, even though
\* verify_uri_segment skips the segment that follows a run of 3+ dots.
SafeLocalNoEscape == IsUri /\ TRUE \in UriSafeLocal(uri) => ~Escapes(uri)

\* Every well-formed relative path is accepted (the result may depend on
\* the undefined read only when the string ends in a 3+ dot segment).
SafeLocalComplete == IsUri /\ RefSafeLocal(uri) => TRUE \in UriSafeLocal(uri)

\* The verify_uri_segment intent: no URI accepted by uri_safe_local has a
\* "." or ".." segment.
SafeLocalNoDotSegment ==
  IsUri /\ TRUE \in UriSafeLocal(uri) =>
    \A i \in DOMAIN SplitSlash(uri) : SplitSlash(uri)[i] \notin DotSegments

\* uri_get_suffix returns the suffix of the last path component (used to
\* pick decoder, playlist and archive plugins), never one of a directory.
SuffixOfBaseName == IsUri => UriGetSuffix(uri) = RefSuffix(uri)

\* song_print_uri relies on uri_remove_auth to "delete the auth
\* information": what remains of the authority holds no userinfo.
RemoveAuthHidesUserinfo == IsUri => UriRemoveAuth(uri) = RefRemoveAuth(uri)

\* song_print_uri prints a song under the name it is stored with: a
\* database song outside the root as its directory and URI, any other
\* URI as stored, except that uri_remove_auth may cut one run of
\* characters after the "//" of the authority up to an '@', never
\* crossing a '/'.  Nothing of the path is lost, and a URI without
\* userinfo reaches map_to_relative_path unchanged.
SongUriPrinted ==
  IsSong =>
  LET sg == input.val
      u  == sg.uri
      r  == SongPrintUri(sg)
  IN IF sg.inDb /\ sg.parent # <<>>
     THEN r.line = sg.parent \o <<"/">> \o u
     ELSE \/ r.mapArg = u
          \/ \E i, j \in DOMAIN u :
               /\ i > 2 /\ u[i - 2] = "/" /\ u[i - 1] = "/" /\ i <= j
               /\ u[j] = "@" /\ \A k \in i..j : u[k] # "/"
               /\ r.mapArg = SubSeq(u, 1, i - 1) \o SubSeq(u, j + 1, Len(u))

-----------------------------------------------------------------------------
(* Reference definitions for print_pair                                   *)

\* A client reads a response up to its '\n' and splits the line at the
\* first ": " into name and value.
ColonSpaceAt(l) ==
  SelectInSeq([i \in 1..(Len(l) - 1) |-> <<l[i], l[i + 1]>>],
              LAMBDA x : x = <<Colon, Space>>)

ParsedPair(out) ==
  LET line == SubSeq(out, 1, SelectInSeq(out, LAMBDA c : c = Newline) - 1)
      c    == ColonSpaceAt(line)
  IN <<SubSeq(line, 1, c - 1), SubSeq(line, c + 2, Len(line))>>

\* What print_pair sends is exactly one protocol line, and the client
\* reads back the very key and value the tag scanner reported: no value
\* can inject a second line or shift the ": " split.
PairRoundTrip ==
  IsPair =>
  LET out == PrintPair(pair[1], pair[2])
  IN out # <<>> =>
       /\ SelectInSeq(out, LAMBDA c : c = Newline) = Len(out)
       /\ ParsedPair(out) = pair

-----------------------------------------------------------------------------
(* Reference definitions for filter_chain_parse and the Range line        *)

RECURSIVE FieldsOf(_)
FieldsOf(s) ==
  LET c == SelectInSeq(s, LAMBDA x : x = ",")
  IN IF c = 0 THEN <<s>>
     ELSE <<SubSeq(s, 1, c - 1)>> \o FieldsOf(SubSeq(s, c + 1, Len(s)))

Usable(n, blocks) ==
  LET at == FilterPluginConfig(n, blocks, 1) IN at # 0 /\ blocks[at].ok

\* The documented reading of "filters": the non-empty comma-separated
\* names, each instantiated in turn; the chain holds the filters of the
\* names before the first one that cannot be, and the parse succeeds iff
\* there is no such name.
RefChain(s, blocks) ==
  LET names == SelectSeq(FieldsOf(s), LAMBDA f : f # <<>>)
      bad   == SelectInSeq(names, LAMBDA n : ~Usable(n, blocks))
      k     == IF bad = 0 THEN Len(names) + 1 ELSE bad
  IN [ok    |-> bad = 0,
      chain |-> [i \in 1..(k - 1) |->
                   blocks[FilterPluginConfig(names[i], blocks, 1)].plugin]]

DigitVal(c) == CHOOSE d \in 0..9 : DigitChar(d) = c
NumOf(ds) == FoldLeft(LAMBDA acc, c : 10 * acc + DigitVal(c), 0, ds)

\* A client reads "S.F" as S + F / 10^Len(F) seconds.
MsOf(t) ==
  LET d == SelectInSeq(t, LAMBDA x : x = ".")
      f == SubSeq(t, d + 1, Len(t))
  IN 1000 * NumOf(SubSeq(t, 1, d - 1)) + (NumOf(f) * 1000) \div (10 ^ Len(f))

\* "start-end", or "start-" for an open end (read as end 0).
ParsedRange(l) ==
  LET m == SelectInSeq(l, LAMBDA x : x = "-")
  IN <<MsOf(SubSeq(l, 1, m - 1)),
       IF m = Len(l) THEN 0 ELSE MsOf(SubSeq(l, m + 1, Len(l)))>>

-----------------------------------------------------------------------------
(* Properties of filter_chain_parse and the Range line                     *)

\* filter_chain_parse builds the chain the "filters" setting names: empty
\* names between commas (and a trailing comma) are skipped rather than
\* looked up, the first name without a usable template ends the parse
\* with the filters before it kept, and success means every name was
\* appended.
FilterChainMatchesFields ==
  IsFilter => FilterChainParse(input.val[1], input.val[2])
                = RefChain(input.val[1], input.val[2])

\* song_print_info's Range line gives a client back the song's start_ms
\* and end_ms to the millisecond: the milliseconds are zero-padded, an
\* open end prints as "start-", and no line is printed for a whole file.
RangeRoundTrip ==
  IsRange =>
  LET l == RangeLine(input.val[1], input.val[2])
  IN IF input.val = <<0, 0>> THEN l = <<>>
     ELSE l # <<>> /\ ParsedRange(l) = input.val

-----------------------------------------------------------------------------
(* SoundCloud URIs                                                         *)

ScPrefix == <<"soundcloud", ":", "/", "/">>

\* The forms the doc comment of soundcloud_open_uri accepts:
\* soundcloud://track/<id>, soundcloud://playlist/<id> and
\* soundcloud://url/<page>, and the API URL each one stands for.
RefRequest(u) ==
  LET Form(a) == ScPrefix \o <<a, "/">>
      Arg(a)  == SubSeq(u, Len(Form(a)) + 1, Len(u))
  IN CASE IsPrefix(Form("track"), u) ->
            <<"http://api.soundcloud.com/tracks/">> \o Arg("track")
              \o <<".json?client_id=">> \o ApiKey
       [] IsPrefix(Form("playlist"), u) ->
            <<"http://api.soundcloud.com/playlists/">> \o Arg("playlist")
              \o <<".json?client_id=">> \o ApiKey
       [] IsPrefix(Form("url"), u) ->
            <<"http://api.soundcloud.com/resolve.json?url=">> \o PageUrl(Arg("url"))
              \o <<"&", "client_id=">> \o ApiKey
       [] OTHER -> <<>>

Documented(u) ==
  \E a \in {"track", "playlist", "url"} : IsPrefix(ScPrefix \o <<a, "/">>, u)

\* soundcloud_open_uri splits a soundcloud:// URI at the "://" and the
\* next '/', and fetches the API URL of exactly the track, playlist or page
\* the URI names (whatever '/', ':' or '&' the id or page holds), while a
\* URI of any other scheme is refused with nullptr.
RequestMatchesUri ==
  IsScUri =>
    /\ Documented(input.val) => OpenUriRequest(input.val) = RefRequest(input.val)
    /\ ~IsPrefix(ScPrefix, input.val) => OpenUriRequest(input.val) = <<>>

\* The value of the resolver's url query parameter: up to the first '&'.
UrlParam(req) ==
  LET amp == SelectInSeq(req, LAMBDA t : t = "&")
  IN SubSeq(req, 2, amp - 1)

\* The comment of soundcloud_open_uri: a soundcloud://url/<page> URI is
\* translated to a resolver call for that page.  The resolver reads the
\* page from its url query parameter, which ends at the first '&'.
ResolvePassesPage ==
  IsScUri /\ IsPrefix(ScPrefix \o <<"url", "/">>, input.val) =>
    UrlParam(OpenUriRequest(input.val)) = PageUrl(SubSeq(input.val, 7, Len(input.val)))

====
