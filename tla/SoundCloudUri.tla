---------------------------- MODULE SoundCloudUri ----------------------------
(***************************************************************************)
(* The request URL soundcloud_open_uri builds from a soundcloud:// URI    *)
(* (src/src/playlist/SoundCloudPlaylistPlugin.cxx), and soundcloud_resolve *)
(* for the url form.  A URI is a sequence of tokens: the separators ":",  *)
(* "/" and "&" are tokens of their own, and a word ("soundcloud", "track", *)
(* a track id, a page name) is one token.  A literal the code pastes in   *)
(* is one token too, except for the separators the properties look at.    *)
(***************************************************************************)
EXTENDS Naturals, SequencesExt

CONSTANT ApiKey   \* soundcloud_config.apikey, a token sequence

SchemeSep == <<":", "/", "/">>
HttpPrefix == <<"http", ":", "/", "/">>

\* The first index of s at which sep starts, else 0.
FirstAt(s, sep) ==
  SelectInSeq([j \in 1..Len(s) |-> IsPrefix(sep, SubSeq(s, j, Len(s)))],
              LAMBDA b : b)

\* Lines 327-344: the scheme ends at the first "://" (the whole string when
\* there is none); arg runs to the next '/', and rest is what follows it.
SplitUriTwoChars(s) ==
  LET c    == FirstAt(s, <<":", "/">>)
      a    == IF c = 0 THEN Len(s) + 1 ELSE c + 2
      sl   == SelectInSubSeq(s, a, Len(s), LAMBDA t : t = "/")
  IN [scheme |-> IF c = 0 THEN s ELSE SubSeq(s, 1, c - 1),
      arg    |-> SubSeq(s, a, IF sl = 0 THEN Len(s) ELSE sl - 1),
      rest   |-> IF sl = 0 THEN <<>> ELSE SubSeq(s, sl + 1, Len(s))]

SplitUri(s) ==
  LET c    == FirstAt(s, SchemeSep)
      a    == IF c = 0 THEN Len(s) + 1 ELSE c + 3
      sl   == SelectInSubSeq(s, a, Len(s), LAMBDA t : t = "/")
  IN [scheme |-> IF c = 0 THEN s ELSE SubSeq(s, 1, c - 1),
      arg    |-> SubSeq(s, a, IF sl = 0 THEN Len(s) ELSE sl - 1),
      rest   |-> IF sl = 0 THEN <<>> ELSE SubSeq(s, sl + 1, Len(s))]

\* soundcloud_resolve (lines 64-83): the page URL u, made absolute, passed
\* to the resolver as its url parameter, followed by the client_id.
PageUrl(r) ==
  CASE IsPrefix(HttpPrefix, r)            -> r
    [] r # <<>> /\ Head(r) = "soundcloud.com" -> HttpPrefix \o r
    [] OTHER -> HttpPrefix \o <<"soundcloud.com", "/">> \o r

SoundcloudResolve(r) ==
  <<"http://api.soundcloud.com/resolve.json?url=">> \o PageUrl(r)
    \o <<"&", "client_id=">> \o ApiKey

\* Lines 346-373: the URL to fetch, <<>> for nullptr (an incompatible
\* scheme or an unknown arg).
OpenUriRequest(s) ==
  LET p == SplitUri(s)
  IN CASE p.scheme # <<"soundcloud">> -> <<>>
       [] p.arg = <<"track">> ->
            <<"http://api.soundcloud.com/tracks/">> \o p.rest
              \o <<".json?client_id=">> \o ApiKey
       [] p.arg = <<"playlist">> ->
            <<"http://api.soundcloud.com/playlists/">> \o p.rest
              \o <<".json?client_id=">> \o ApiKey
       [] p.arg = <<"url">> -> SoundcloudResolve(p.rest)
       [] OTHER -> <<>>
====
