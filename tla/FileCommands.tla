---------------------------- MODULE FileCommands ----------------------------
(***************************************************************************)
(* The read_comments command, src/src/command/FileCommands.cxx: the tag   *)
(* scanners report every comment of a file as a (key, value) pair and     *)
(* print_pair sends it to the client as one protocol line "key: value\n"  *)
(* when IsValidName and IsValidValue accept it.  A C string is a sequence *)
(* of chars; a char is signed (-128..127, as on the x86 ABI), its value   *)
(* the byte's.  handle_read_comments, which chooses the file to scan, is  *)
(* modelled over URIs written as sequences of one-character strings.      *)
(***************************************************************************)
EXTENDS Integers, Sequences

Colon == 58
Space == 32
Newline == 10

\* IsAlphaASCII (util/ASCII.hxx): 'a'..'z' or 'A'..'Z'.
IsAlphaASCII(ch) == ch \in 65..90 \cup 97..122

\* IsValidName: a letter, then letters, '_' and '-'.  The loop
\* while (*++p) looks at every character after the first.
IsValidName(p) ==
  /\ Len(p) >= 1 /\ IsAlphaASCII(p[1])
  /\ \A i \in 2..Len(p) : IsAlphaASCII(p[i]) \/ p[i] \in {95, 45}

IsValidValueSkipFirst(p) == \A i \in 2..Len(p) : ~(p[i] % 256 < 32)

\* IsValidValue: no character below 0x20, compared as unsigned char.
IsValidValue(p) == \A i \in 1..Len(p) : ~(p[i] % 256 < 32)

\* print_pair: client_printf(client, "%s: %s\n", key, value), or nothing.
PrintPair(key, value) ==
  IF IsValidName(key) /\ IsValidValue(value)
  THEN key \o <<Colon, Space>> \o value \o <<Newline>>
  ELSE <<>>

-----------------------------------------------------------------------------
(* handle_read_comments                                                    *)

\* PathTraits (fs/Traits.hxx), POSIX build: '/' is the only separator, and
\* a path is absolute when its first char is one (*p of "" is '\0').
IsSeparatorFS(ch) == ch = "/"
IsAbsoluteFS(p) == Len(p) > 0 /\ IsSeparatorFS(p[1])

FileUriPrefix == <<"f", "i", "l", "e", ":", "/", "/", "/">>

\* The outcome of one readcomments: the reply, the path given to
\* client_allow_file (<<>> when none is checked) and the file scanned
\* (<<>> when none).  A relative URI is mapped below the music directory
\* by map_uri_fs, which is not in the repository: its result is the token
\* "mapped" followed by the URI.  env holds the answers of the functions
\* that are not in the repository either: AllocatedPath::FromUTF8
\* succeeds, client_allow_file allows, map_uri_fs succeeds, tag_file_scan
\* finds a decoder.
Outcome(reply, checked, scanned) ==
  [reply |-> reply, checked |-> checked, scanned |-> scanned]

\* Lines 117-126: tag_file_scan, then the APE and ID3 scanners on success.
ScanComments(path, env) ==
  IF env.scanOk THEN Outcome("OK", <<>>, path)
  ELSE Outcome("Failed to load file", <<>>, <<>>)

\* path_utf8 = uri + 7: the path keeps the third '/' of "file:///".
FileUriPath(uri) == SubSeq(uri, 8, Len(uri))

\* handle_read_comments (lines 83-127).
ReadComments(uri, env) ==
  CASE Len(uri) >= 8 /\ SubSeq(uri, 1, 8) = FileUriPrefix ->
         LET path == FileUriPath(uri) IN
         CASE ~env.utf8Ok -> Outcome("unsupported file name", <<>>, <<>>)
           [] ~env.allow  -> Outcome("access denied", path, <<>>)
           [] OTHER ->
                [ScanComments(path, env) EXCEPT !.checked = path]
    [] Len(uri) = 0 \/ uri[1] # "/" ->
         IF ~env.mapped THEN Outcome("No such file", <<>>, <<>>)
         ELSE ScanComments(<<"mapped">> \o uri, env)
    [] OTHER -> Outcome("No such file", <<>>, <<>>)
====
