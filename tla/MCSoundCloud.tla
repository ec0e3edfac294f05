---------------------------- MODULE MCSoundCloud -----------------------------
(* The SoundCloud parser over documents with two string values, one        *)
(* duration and the keys of a track answer.                                *)
EXTENDS SoundCloud

CONSTANTS A, B, Null

MCStrings == {A, B}

\* "duration", "title", "stream_url", "user", and "stream", a key that is a
\* proper prefix of "stream_url".
MCJsonKeys ==
  { <<"d","u","r","a","t","i","o","n">>,
    <<"t","i","t","l","e">>,
    <<"s","t","r","e","a","m","_","u","r","l">>,
    <<"u","s","e","r">>,
    <<"s","t","r","e","a","m">> }
\* A garbage long: the title-less tracks in this model have no duration.
MCUninit == {-1000}
====
