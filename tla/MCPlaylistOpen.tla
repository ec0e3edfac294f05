---------------------------- MODULE MCPlaylistOpen ---------------------------
(* playlist_open_any over the SoundCloud documents of MCSoundCloud and     *)
(* three input plugins around the archive plugin.                          *)
EXTENDS PlaylistOpen, Integers

CONSTANTS A, B, Null

JsonStrings == {A, B}

\* "duration", "title", "stream_url", "user", and "stream", a key that is a
\* proper prefix of "stream_url".
JsonKeySet ==
  { <<"d","u","r","a","t","i","o","n">>,
    <<"t","i","t","l","e">>,
    <<"s","t","r","e","a","m","_","u","r","l">>,
    <<"u","s","e","r">>,
    <<"s","t","r","e","a","m">> }

UninitLong == {-1000}

\* The file plugin first, then the archive plugin, then a network plugin.
Plugins == <<"file", "archive", "curl">>
====
