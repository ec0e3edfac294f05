---------------------------- MODULE PlaylistOpen -----------------------------
(***************************************************************************)
(* Opening a playlist by URI: playlist_open_any (src/src/PlaylistAny.cxx)  *)
(* composed with the playlist plugin that takes URIs (the SoundCloud      *)
(* plugin, module SoundCloud), with InputStream::Open's loop over the     *)
(* input plugins (src/src/InputStream.cxx) and with the archive input     *)
(* plugin (src/src/input/ArchiveInputPlugin.cxx), one of those plugins.   *)
(*                                                                         *)
(* Ownership is the question: each function either hands a stream to its *)
(* caller or closes it, frees the pname copy, and closes the archive file *)
(* it opened.  A remote URI is first offered to playlist_list_open_uri;   *)
(* when no plugin takes it, the URI is opened as a stream and offered to  *)
(* playlist_list_open_stream.  A path without a scheme goes to            *)
(* playlist_mapper_open, which opens a local path the same way            *)
(* (playlist_list_open_path in PlaylistRegistry.hxx).  The input plugins  *)
(* other than the archive plugin, and the playlist plugins that parse a   *)
(* stream, are not in the sources: their outcome is a free choice.        *)
(***************************************************************************)
EXTENDS Naturals, Sequences

CONSTANTS
  Strings, IntVals, JsonKeys, Uninit, NoStr, MaxDepth, MaxMaps, MaxChunks,
  InputPlugins  \* the enabled input plugins in order, e.g. <<"file", "archive", "curl">>

VARIABLES
  pc, ret, locked, isOpen, stack, maps, started, malformed, pd, playlist,
  seen, lastClose, chunks,   \* the SoundCloud plugin's state
  opc,        \* playlist_open_any's position
  uriKind,    \* "soundcloud", "http" (another scheme) or "path" (none)
  idx,        \* the input plugin InputStream::Open is trying
  tried,      \* history: the answer of each input plugin, "untried" before
  pname,      \* input_archive_open's g_strdup copy: "none", "alloc", "freed"
  arFile,     \* the ArchiveFile: "none", "open", "closed"
  stream,     \* the InputStream that Open returned: "none", "open", "closed"
  isR,        \* *is_r: "unset", "null" or "stream"
  result      \* the SongEnumerator returned: "none" (nullptr), "plugin", "stream"

scVars == <<pc, ret, locked, isOpen, stack, maps, started, malformed, pd,
            playlist, seen, lastClose, chunks>>
openVars == <<opc, uriKind, idx, tried, pname, arFile, stream, isR, result>>
vars == <<scVars, openVars>>

S == INSTANCE SoundCloud

-----------------------------------------------------------------------------
(* input_archive_open                                                      *)

\* A plugin's open: a stream, nullptr with the error set, or nullptr with
\* no error (the URI is not for this plugin).
Outcomes == {"stream", "error", "decline"}

ArchiveOpenLeak(abs) ==
  IF ~abs THEN {[o |-> "decline", pname |-> "none", ar |-> "none"]}
  ELSE {[o |-> "decline", pname |-> "freed", ar |-> "none"],
        [o |-> "decline", pname |-> "alloc", ar |-> "none"],
        [o |-> "error",   pname |-> "freed", ar |-> "none"]}
       \cup {[o |-> r, pname |-> "freed", ar |-> "closed"] : r \in {"stream", "error"}}

\* Lines 50-83, as the set of ways the call can end: not an absolute path;
\* archive_lookup finds no archive, or no archive plugin has the suffix
\* (g_free, nullptr without error); archive_file_open fails (g_free,
\* nullptr with the error set); else file->OpenStream, g_free(pname) and
\* file->Close() whatever OpenStream returned.
ArchiveOpen(abs) ==
  IF ~abs THEN {[o |-> "decline", pname |-> "none", ar |-> "none"]}
  ELSE {[o |-> "decline", pname |-> "freed", ar |-> "none"],
        [o |-> "error",   pname |-> "freed", ar |-> "none"]}
       \cup {[o |-> r, pname |-> "freed", ar |-> "closed"] : r \in {"stream", "error"}}

\* The outcomes of the idx-th plugin: the archive plugin as the code says,
\* any other plugin as it may.
PluginOpen(p, abs) ==
  IF p = "archive" THEN ArchiveOpen(abs)
  ELSE {[o |-> r, pname |-> pname, ar |-> arFile] : r \in Outcomes}

-----------------------------------------------------------------------------
(* playlist_open_any and playlist_open_remote                              *)

\* playlist_open_any (lines 63-70): a URI with a scheme goes to
\* playlist_open_remote, which first asks playlist_list_open_uri (line 38);
\* only the SoundCloud plugin takes a URI, and only its own scheme.
Start ==
  /\ opc = "start"
  /\ \E k \in {"soundcloud", "http", "path"} :
       /\ uriKind' = k
       /\ opc' = IF k = "soundcloud" THEN "uri_plugin" ELSE "open"
  /\ UNCHANGED <<scVars, idx, tried, pname, arFile, stream, isR, result>>

\* soundcloud_open_uri runs to its end.
UriPlugin ==
  /\ opc = "uri_plugin"
  /\ S!Next
  /\ UNCHANGED openVars

\* Lines 38-42: a playlist from the URI plugin is returned with
\* *is_r = nullptr; else fall through to InputStream::Open (line 45).
UriPluginReturned ==
  /\ opc = "uri_plugin" /\ pc = "done"
  /\ IF playlist # NoStr
     THEN opc' = "done" /\ isR' = "null" /\ result' = "plugin"
     ELSE opc' = "open" /\ UNCHANGED <<isR, result>>
  /\ UNCHANGED <<scVars, uriKind, idx, tried, pname, arFile, stream>>

OpenNoErrorStop ==
  /\ opc = "open"
  /\ \E r \in PluginOpen(InputPlugins[idx], uriKind = "path") :
       /\ tried' = [tried EXCEPT ![idx] = r.o]
       /\ pname' = r.pname /\ arFile' = r.ar
       /\ CASE r.o = "stream" -> stream' = "open" /\ opc' = "list_stream"
                                 /\ UNCHANGED <<idx, result>>
            [] idx = Len(InputPlugins) -> opc' = "done" /\ result' = "none"
                                 /\ UNCHANGED <<stream, idx>>
            [] OTHER -> idx' = idx + 1 /\ UNCHANGED <<stream, opc, result>>
  /\ UNCHANGED <<scVars, uriKind, isR>>

\* One turn of InputStream::Open's plugin loop (InputStream.cxx 39-57): a
\* stream is returned at once; nullptr with the error set ends the search
\* (and playlist_open_remote returns nullptr, lines 46-51); nullptr
\* without one tries the next plugin, and after the last "Unrecognized
\* URI" is the error.
Open ==
  /\ opc = "open"
  /\ \E r \in PluginOpen(InputPlugins[idx], uriKind = "path") :
       /\ tried' = [tried EXCEPT ![idx] = r.o]
       /\ pname' = r.pname /\ arFile' = r.ar
       /\ CASE r.o = "stream" -> stream' = "open" /\ opc' = "list_stream"
                                 /\ UNCHANGED <<idx, result>>
            [] r.o = "error" \/ idx = Len(InputPlugins) ->
                                 opc' = "done" /\ result' = "none"
                                 /\ UNCHANGED <<stream, idx>>
            [] OTHER -> idx' = idx + 1 /\ UNCHANGED <<stream, opc, result>>
  /\ UNCHANGED <<scVars, uriKind, isR>>

ListOpenStreamNoClose ==
  /\ opc = "list_stream"
  /\ \/ opc' = "done" /\ isR' = "stream" /\ result' = "stream"
     \/ opc' = "done" /\ result' = "none" /\ UNCHANGED isR
  /\ UNCHANGED <<scVars, uriKind, idx, tried, pname, arFile, stream>>

\* Lines 53-60: playlist_list_open_stream finds a plugin for the stream,
\* which goes to the caller through *is_r; or none does, and the stream is
\* closed before nullptr is returned.
ListOpenStream ==
  /\ opc = "list_stream"
  /\ \/ opc' = "done" /\ isR' = "stream" /\ result' = "stream"
        /\ UNCHANGED stream
     \/ opc' = "done" /\ result' = "none" /\ stream' = "closed"
        /\ UNCHANGED isR
  /\ UNCHANGED <<scVars, uriKind, idx, tried, pname, arFile>>

-----------------------------------------------------------------------------
Init ==
  /\ S!Init
  /\ opc = "start" /\ uriKind = "http" /\ idx = 1
  /\ tried = [j \in DOMAIN InputPlugins |-> "untried"]
  /\ pname = "none" /\ arFile = "none" /\ stream = "none"
  /\ isR = "unset" /\ result = "none"

Next == Start \/ UriPlugin \/ UriPluginReturned \/ Open \/ ListOpenStream

Spec == Init /\ [][Next]_vars

-----------------------------------------------------------------------------
(* Properties                                                              *)

TypeOK == S!TypeOK
TrackEmitsSong == S!TrackEmitsSong
StreamReleased == S!StreamReleased

\* When playlist_open_any returns, the caller owns exactly what it was
\* given: a stream is open only when it was returned through *is_r with a
\* playlist, *is_r is set whenever a playlist is returned, and the archive
\* plugin's pname copy is freed and its ArchiveFile closed, on every path
\* through the three functions.
NothingLeaked ==
  opc = "done" =>
    /\ (stream = "open") <=> (result # "none" /\ isR = "stream")
    /\ result # "none" => isR # "unset"
    /\ pname # "alloc" /\ arFile # "open"

\* InputStream::Open returns the stream of the first plugin that does not
\* decline, and stops at the first plugin that reports an error: every
\* plugin asked before another one declined.
OpenFirstAccepting ==
  \A j, k \in DOMAIN tried : j < k /\ tried[k] # "untried" => tried[j] = "decline"
====
