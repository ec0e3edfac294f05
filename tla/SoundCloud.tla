----------------------------- MODULE SoundCloud ------------------------------
(***************************************************************************)
(* The SoundCloud playlist plugin, src/src/playlist/SoundCloudPlaylistPlugin.cxx: *)
(* soundcloud_open_uri parses the URI, soundcloud_parse_json reads the     *)
(* JSON answer chunk by chunk and feeds it to YAJL, and YAJL calls the     *)
(* handle_* callbacks that turn every track map into a song.               *)
(*                                                                         *)
(* YAJL is modelled by the events it can deliver for a JSON document whose *)
(* top level is a map (the shape of the /tracks/, /playlists/ and          *)
(* /resolve answers): one read chunk delivers one event, a malformed chunk *)
(* or a read error ends the loop.  The HTTP answer is finite: after      *)
(* MaxChunks chunks the stream is at its end or fails.  The callbacks     *)
(* work on the parse_data record pd.  The variables seen and lastClose    *)
(* are history: what each open map contained, and what the last end of  *)
(* a map emitted.                                                         *)
(***************************************************************************)
EXTENDS Naturals, Sequences, SequencesExt

CONSTANTS
  Strings,    \* the JSON string values of the document
  IntVals,    \* the JSON integer values of the document
  JsonKeys,   \* the JSON map keys, as sequences of characters
  Uninit,     \* the values an uninitialized long can hold
  NoStr,      \* a null char*
  MaxDepth,   \* the deepest nesting of maps and arrays
  MaxMaps,    \* the number of maps the document opens
  MaxChunks   \* the chunks of the HTTP answer

ASSUME NoStr \notin Strings

\* enum key and key_str[]
Duration == 0
Title == 1
Stream_URL == 2
Other == 3
key_str == << <<"d","u","r","a","t","i","o","n">>,
              <<"t","i","t","l","e">>,
              <<"s","t","r","e","a","m","_","u","r","l">> >>

\* A null Song* or SongEnumerator*.
NoSong == NoStr

VARIABLES
  pc,         \* "uri", "read" or "done"
  ret,        \* the result of soundcloud_parse_json, 1 before the call
  locked,     \* the stream's mutex is held
  isOpen,     \* the input stream is open
  stack,      \* YAJL's open containers: "map_key", "map_value", "array"
  maps,       \* maps opened so far
  started,    \* the top-level value has begun
  malformed,  \* YAJL has reported an error
  pd,         \* struct parse_data
  playlist,   \* what soundcloud_open_uri returns: NoSong or a sequence
  seen,       \* per open map: [url, nested, titles]
  lastClose,  \* the last handle_end_map: [url, nested, song]
  chunks      \* the chunks read so far

vars == <<pc, ret, locked, isOpen, stack, maps, started, malformed, pd,
          playlist, seen, lastClose, chunks>>

Song == [uri : Strings, time : {n \div 1000 : n \in IntVals \cup Uninit},
         name : Strings \cup {NoStr}]

-----------------------------------------------------------------------------
(* The YAJL callbacks                                                      *)

\* handle_integer
HandleInteger(d, n) ==
  IF d.key = Duration THEN [d EXCEPT !.duration = n] ELSE d

HandleStringIncrement(d, s) ==
  CASE d.key = Title      -> [d EXCEPT !.title = s]
    [] d.key = Stream_URL -> [d EXCEPT !.stream_url = s, !.got_url = @ + 1]
    [] OTHER              -> d

\* handle_string: g_strndup of the value into title or stream_url.
HandleString(d, s) ==
  CASE d.key = Title      -> [d EXCEPT !.title = s]
    [] d.key = Stream_URL -> [d EXCEPT !.stream_url = s, !.got_url = 1]
    [] OTHER              -> d

\* handle_mapkey: the first key_str[i] whose first stringlen bytes equal
\* the key; memcmp stops at key_str's terminator, so a key matches when it
\* is a prefix of key_str[i].
HandleMapKey(d, k) ==
  LET hits == {i \in 0..2 : IsPrefix(k, key_str[i + 1])}
  IN [d EXCEPT !.key = IF hits = {} THEN Other ELSE Min(hits)]

HandleStartMapUnguarded(d) == [d EXCEPT !.got_url = @ + 1]

\* handle_start_map: count the nesting below the last stream_url.
HandleStartMap(d) ==
  IF d.got_url > 0 THEN [d EXCEPT !.got_url = @ + 1] ELSE d

HandleEndMapNoZero(d) ==
  IF d.got_url # 1 THEN [d EXCEPT !.got_url = @ - 1]
  ELSE [d EXCEPT !.got_url = 0,
                 !.songs = <<[uri |-> d.stream_url,
                              time |-> d.duration \div 1000,
                              name |-> d.title]>> \o @]

\* handle_end_map: at the end of the map holding the last stream_url, push
\* a song built from stream_url, duration and title to the front of songs.
\* The appended "?client_id=" is the same for every song and left out.
HandleEndMap(d) ==
  CASE d.got_url > 1 -> [d EXCEPT !.got_url = @ - 1]
    [] d.got_url = 0 -> d
    [] OTHER -> [d EXCEPT !.got_url = 0,
                          !.songs = <<[uri |-> d.stream_url,
                                       time |-> d.duration \div 1000,
                                       name |-> d.title]>> \o @]

-----------------------------------------------------------------------------
(* YAJL's grammar for the events of one chunk                              *)

Top == stack[Len(stack)]
ExpectValue == IF stack = <<>> THEN ~started ELSE Top \in {"map_value", "array"}

\* After a value, a map waits for its next key.
AfterValue(st) ==
  IF st # <<>> /\ st[Len(st)] = "map_value"
  THEN [st EXCEPT ![Len(st)] = "map_key"] ELSE st

\* The ghost record of the innermost map after a string under key.
SeenString(sn, d, s) ==
  LET n == Len(sn)
  IN CASE d.key = Stream_URL ->
            [i \in 1..n |-> IF i = n THEN [sn[i] EXCEPT !.url = s]
                            ELSE [sn[i] EXCEPT !.nested = TRUE]]
       [] d.key = Title ->
            [i \in 1..n |-> [sn[i] EXCEPT !.titles = @ \cup {s}]]
       [] OTHER -> sn

\* One parsed chunk: the state change of the event and its callback.
EvStartMap ==
  /\ ExpectValue /\ maps < MaxMaps /\ Len(stack) < MaxDepth
  /\ pd' = HandleStartMap(pd)
  /\ stack' = Append(stack, "map_key")
  /\ seen' = Append(seen, [url |-> NoStr, nested |-> FALSE, titles |-> {}])
  /\ maps' = maps + 1 /\ started' = TRUE
  /\ UNCHANGED lastClose

EvEndMap ==
  /\ stack # <<>> /\ Top = "map_key"
  /\ pd' = HandleEndMap(pd)
  /\ stack' = AfterValue(Front(stack))
  /\ seen' = Front(seen)
  /\ lastClose' = [url |-> Last(seen).url, nested |-> Last(seen).nested,
                   titles |-> Last(seen).titles,
                   song |-> IF Len(pd'.songs) > Len(pd.songs)
                            THEN Head(pd'.songs) ELSE NoSong]
  /\ UNCHANGED <<maps, started>>

EvStartArray ==
  /\ stack # <<>> /\ ExpectValue /\ Len(stack) < MaxDepth
  /\ stack' = Append(stack, "array")
  /\ UNCHANGED <<pd, seen, lastClose, maps, started>>

EvEndArray ==
  /\ stack # <<>> /\ Top = "array"
  /\ stack' = AfterValue(Front(stack))
  /\ UNCHANGED <<pd, seen, lastClose, maps, started>>

EvMapKey(k) ==
  /\ stack # <<>> /\ Top = "map_key"
  /\ pd' = HandleMapKey(pd, k)
  /\ stack' = [stack EXCEPT ![Len(stack)] = "map_value"]
  /\ UNCHANGED <<seen, lastClose, maps, started>>

EvString(s) ==
  /\ stack # <<>> /\ ExpectValue
  /\ pd' = HandleString(pd, s)
  /\ seen' = SeenString(seen, pd, s)
  /\ stack' = AfterValue(stack)
  /\ UNCHANGED <<lastClose, maps, started>>

EvInteger(n) ==
  /\ stack # <<>> /\ ExpectValue
  /\ pd' = HandleInteger(pd, n)
  /\ stack' = AfterValue(stack)
  /\ UNCHANGED <<seen, lastClose, maps, started>>

\* true, false, null and doubles have no callback.
EvScalar ==
  /\ stack # <<>> /\ ExpectValue
  /\ stack' = AfterValue(stack)
  /\ UNCHANGED <<pd, seen, lastClose, maps, started>>

Event ==
  \/ EvStartMap \/ EvEndMap \/ EvStartArray \/ EvEndArray \/ EvScalar
  \/ \E k \in JsonKeys : EvMapKey(k)
  \/ \E s \in Strings : EvString(s)
  \/ \E n \in IntVals : EvInteger(n)

-----------------------------------------------------------------------------
(* soundcloud_parse_json and soundcloud_open_uri                           *)

\* The end of soundcloud_parse_json with result r (unlock, Close), and what
\* soundcloud_open_uri makes of it: nullptr for -1, else the songs
\* reversed into document order.
Finish(r) ==
  /\ locked' = FALSE /\ isOpen' = FALSE
  /\ ret' = r /\ pc' = "done"
  /\ playlist' = IF r = -1 THEN NoSong ELSE Reverse(pd.songs)

\* soundcloud_open_uri: an incompatible scheme or an unknown "arg" part
\* returns nullptr before anything is opened.
UriRejected ==
  /\ pc = "uri"
  /\ pc' = "done" /\ playlist' = NoSong
  /\ UNCHANGED <<ret, locked, isOpen, stack, maps, started, malformed, pd,
                 seen, lastClose, chunks>>

\* InputStream::Open fails: return -1; or it succeeds, the thread locks the
\* mutex and waits for the stream to be ready.
OpenFailed ==
  /\ pc = "uri"
  /\ ret' = -1 /\ pc' = "done" /\ playlist' = NoSong
  /\ UNCHANGED <<locked, isOpen, stack, maps, started, malformed, pd, seen,
                 lastClose, chunks>>

OpenStream ==
  /\ pc = "uri"
  /\ pc' = "read" /\ locked' = TRUE /\ isOpen' = TRUE
  /\ UNCHANGED <<ret, stack, maps, started, malformed, pd, playlist, seen,
                 lastClose, chunks>>

\* Read returns bytes and yajl_parse accepts them.
ReadChunk ==
  /\ pc = "read" /\ chunks < MaxChunks
  /\ Event
  /\ chunks' = chunks + 1
  /\ UNCHANGED <<pc, ret, locked, isOpen, malformed, playlist>>

\* yajl_parse reports an error: break out of the loop, return 0.
ReadMalformed ==
  /\ pc = "read"
  /\ malformed' = TRUE
  /\ Finish(0)
  /\ UNCHANGED <<stack, maps, started, pd, seen, lastClose, chunks>>

ReadFailLeak ==
  /\ pc = "read"
  /\ ret' = -1 /\ pc' = "done" /\ playlist' = NoSong
  /\ UNCHANGED <<locked, isOpen, stack, maps, started, malformed, pd, seen,
                 lastClose, chunks>>

\* Read returns 0 and the stream is not at its end: unlock, Close, -1.
ReadFail ==
  /\ pc = "read"
  /\ Finish(-1)
  /\ UNCHANGED <<stack, maps, started, malformed, pd, seen, lastClose, chunks>>

\* Read returns 0 at the end of the stream: yajl_complete_parse fails when
\* the document is unfinished; either way the function returns 0.
ReadEOF ==
  /\ pc = "read"
  /\ malformed' = ~(started /\ stack = <<>>)
  /\ Finish(0)
  /\ UNCHANGED <<stack, maps, started, pd, seen, lastClose, chunks>>

Init ==
  /\ pc = "uri" /\ ret = 1 /\ locked = FALSE /\ isOpen = FALSE
  /\ stack = <<>> /\ maps = 0 /\ started = FALSE /\ malformed = FALSE
  \* data.key and data.duration are not initialized.
  /\ pd \in [key : {Duration, Title, Stream_URL, Other}, stream_url : {NoStr},
             duration : Uninit, title : {NoStr}, got_url : {0},
             songs : {<<>>}]
  /\ playlist = NoSong /\ chunks = 0
  /\ seen = <<>> /\ lastClose = [url |-> NoStr, nested |-> FALSE,
                                 titles |-> {}, song |-> NoSong]

Next ==
  \/ UriRejected \/ OpenFailed \/ OpenStream
  \/ ReadChunk \/ ReadMalformed \/ ReadFail \/ ReadEOF

Spec == Init /\ [][Next]_vars

-----------------------------------------------------------------------------
(* Properties                                                              *)

TypeOK ==
  /\ pc \in {"uri", "read", "done"}
  /\ ret \in {1, -1, 0}
  /\ stack \in Seq({"map_key", "map_value", "array"})
  /\ Len(seen) <= Len(stack)
  /\ pd.key \in 0..3 /\ pd.got_url \in Nat
  /\ pd.stream_url \in Strings \cup {NoStr} /\ pd.title \in Strings \cup {NoStr}
  /\ pd.songs \in Seq(Song)
  /\ playlist \in Seq(Song) \cup {NoSong}
  /\ chunks \in 0..MaxChunks

\* handle_end_map and the got_url nesting counter: a map that holds a
\* stream_url and no map inside it holds one becomes exactly one song with
\* that URL when it ends, and a map that holds no stream_url at all becomes
\* none, whatever maps and arrays the tracks nest.
TrackEmitsSong ==
  ~lastClose.nested =>
     IF lastClose.url = NoStr THEN lastClose.song = NoSong
     ELSE lastClose.song # NoSong /\ lastClose.song.uri = lastClose.url

\* soundcloud_parse_json: on every path out of the read loop the mutex is
\* unlocked and the input stream closed.
StreamReleased == pc = "done" => ~locked /\ ~isOpen

\* handle_end_map builds the song's tag from parse_data: the title a song
\* carries was read inside its own track map.
TagFromOwnTrack ==
  lastClose.song # NoSong =>
     lastClose.song.name \in lastClose.titles \cup {NoStr}

\* The doc comment of soundcloud_parse_json: "-1 on error, 0 on success".
\* A result of 0 means the JSON answer was read and parsed completely.
SuccessMeansParsed == pc = "done" /\ ret = 0 => ~malformed
====
