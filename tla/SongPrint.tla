------------------------------ MODULE SongPrint ------------------------------
(***************************************************************************)
(* The "file:" line of song_print_uri and the "Range:" line of             *)
(* song_print_info, src/src/SongPrint.cxx.                                 *)
(*                                                                         *)
(* song_print_uri prints a database song outside the root directory as     *)
(* its directory's path, '/', and its URI.  It passes any other song's URI *)
(* through uri_remove_auth (module UriUtil), then map_to_relative_path,    *)
(* which is not in the repository; the model returns that function's       *)
(* argument.  A directory path is a sequence of characters, and the root   *)
(* directory's path is empty.                                              *)
(*                                                                         *)
(* For the Range line: a song that is a part of a file (a CUE track) has   *)
(* start_ms and end_ms, printed as seconds with three decimals,            *)
(* "%u.%03u-%u.%03u", or "%u.%03u-" for a part running to the end of the   *)
(* file.  A line is a sequence of the characters "0".."9", "." and "-".    *)
(***************************************************************************)
EXTENDS Naturals, Sequences, UriUtil

DigitChar(d) == <<"0", "1", "2", "3", "4", "5", "6", "7", "8", "9">>[d + 1]

\* "%u"
RECURSIVE Decimal(_)
Decimal(n) == IF n < 10 THEN <<DigitChar(n)>>
              ELSE Decimal(n \div 10) \o <<DigitChar(n % 10)>>

\* "%03u"
Decimal3(n) == <<DigitChar(n \div 100), DigitChar((n \div 10) % 10), DigitChar(n % 10)>>

FormatMsNoPad(ms) == Decimal(ms \div 1000) \o <<".">> \o Decimal(ms % 1000)

\* "%u.%03u" of ms / 1000 and ms % 1000.
FormatMs(ms) == Decimal(ms \div 1000) \o <<".">> \o Decimal3(ms % 1000)

\* Lines 52-61: the Range line without its "Range: " tag and newline,
\* <<>> when none is printed.
RangeLine(startMs, endMs) ==
  CASE endMs > 0   -> FormatMs(startMs) \o <<"-">> \o FormatMs(endMs)
    [] startMs > 0 -> FormatMs(startMs) \o <<"-">>
    [] OTHER       -> <<>>

SongPrintUriNoEmptyCheck(song) ==
  IF song.inDb /\ song.parent # <<>>
  THEN [line |-> song.parent \o <<"/">> \o song.uri, mapArg |-> <<>>]
  ELSE [line |-> <<>>, mapArg |-> UriRemoveAuth(song.uri)]

\* Lines 30-43: the printed path of a database song outside the root as
\* line, or else the argument of map_to_relative_path as mapArg:
\* uri_remove_auth's copy, or the URI itself when the copy is empty
\* (nothing to remove).
SongPrintUri(song) ==
  IF song.inDb /\ song.parent # <<>>
  THEN [line |-> song.parent \o <<"/">> \o song.uri, mapArg |-> <<>>]
  ELSE LET allocated == UriRemoveAuth(song.uri)
       IN [line |-> <<>>,
           mapArg |-> IF allocated # <<>> THEN allocated ELSE song.uri]
====
