------------------------------ MODULE UriUtil -------------------------------
(***************************************************************************)
(* The URI helpers of src/src/util/UriUtil.cxx as operators over strings   *)
(* of a small alphabet.  A string is a sequence of one-character strings;  *)
(* its NUL terminator sits at index Len(u) + 1.  A C pointer into the      *)
(* string is an index.                                                     *)
(***************************************************************************)
EXTENDS Naturals, Sequences, SequencesExt

Separators == {"/", "\\"}

\* The result of a function returning a nullable pointer into the string.
Null == [null |-> TRUE]
Some(s) == [null |-> FALSE, str |-> s]

\* strchr(u + i - 1, c): the first index >= i holding c, or 0.
StrChr(u, i, c) == SelectInSubSeq(u, i, Len(u), LAMBDA x : x = c)

\* uri_has_scheme: the URI contains "://".
UriHasScheme(u) ==
  \E i \in 1..(Len(u) - 2) : u[i] = ":" /\ u[i + 1] = "/" /\ u[i + 2] = "/"

UriGetSuffixNoSepCheck(u) ==
  LET d      == SelectLastInSeq(u, LAMBDA x : x = ".")
      suffix == SubSeq(u, d + 1, Len(u))
  IN IF d = 0 \/ d = 1 \/ u[d - 1] \in Separators THEN Null
     ELSE Some(suffix)

\* uri_get_suffix: the text after the last '.', unless that dot starts the
\* string or a path component, or the text contains a separator.
UriGetSuffix(u) ==
  LET d      == SelectLastInSeq(u, LAMBDA x : x = ".")
      suffix == SubSeq(u, d + 1, Len(u))
  IN IF d = 0 \/ d = 1 \/ u[d - 1] \in Separators THEN Null
     ELSE IF \E i \in DOMAIN suffix : suffix[i] \in Separators THEN Null
     ELSE Some(suffix)

-----------------------------------------------------------------------------
(* uri_safe_local                                                          *)

\* verify_uri_segment(p) returns nullptr, "" or a pointer to the next '/'.
\* When a segment of three or more dots ends the string, strchr(p + 1)
\* starts after the terminator: the read is undefined and its outcome is
\* whatever the bytes behind the string hold (SegGarbage).
SegNull == -1
SegEnd == -2
SegGarbage == -3

VerifyUriSegmentLimit(u, i, limit) ==
  LET j    == CHOOSE j \in i..(Len(u) + 1) :
                /\ \A k \in i..(j - 1) : u[k] = "."
                /\ j <= Len(u) => u[j] # "."
      dots == j - i
  IN IF dots <= limit /\ (j > Len(u) \/ u[j] = "/") THEN SegNull
     ELSE IF j > Len(u) THEN SegGarbage
     ELSE LET q == StrChr(u, j + 1, "/")
          IN IF q = 0 THEN SegEnd ELSE q

VerifyUriSegmentOneDot(u, i) == VerifyUriSegmentLimit(u, i, 1)
VerifyUriSegmentThreeDots(u, i) == VerifyUriSegmentLimit(u, i, 3)

VerifyUriSegment(u, i) ==
  LET j    == CHOOSE j \in i..(Len(u) + 1) :
                /\ \A k \in i..(j - 1) : u[k] = "."
                /\ j <= Len(u) => u[j] # "."
      dots == j - i
  IN IF dots <= 2 /\ (j > Len(u) \/ u[j] = "/") THEN SegNull
     ELSE IF j > Len(u) THEN SegGarbage
     ELSE LET q == StrChr(u, j + 1, "/")
          IN IF q = 0 THEN SegEnd ELSE q

\* uri_safe_local: the set of results the loop can return.
RECURSIVE SafeFrom(_, _)
SafeFrom(u, i) ==
  LET r == VerifyUriSegment(u, i)
  IN CASE r = SegNull    -> {FALSE}
       [] r = SegEnd     -> {TRUE}
       [] r = SegGarbage -> BOOLEAN
       [] OTHER          -> SafeFrom(u, r + 1)

UriSafeLocal(u) == SafeFrom(u, 1)

-----------------------------------------------------------------------------
(* uri_remove_auth                                                         *)

Http  == <<"h", "t", "t", "p", ":", "/", "/">>
Https == <<"h", "t", "t", "p", "s", ":", "/", "/">>

\* The index where the authority starts, 0 for an unrecognized URI.
AuthStart(u) ==
  CASE IsPrefix(Http, u)  -> Len(Http) + 1
    [] IsPrefix(Https, u) -> Len(Https) + 1
    [] OTHER              -> 0

\* The index of the '/' ending the authority, or the terminator.
AuthEnd(u) ==
  LET s == StrChr(u, AuthStart(u), "/") IN IF s = 0 THEN Len(u) + 1 ELSE s

\* uri_remove_auth: the empty string when nothing is removed, else the URI
\* with everything from the authority start through its first '@' erased.
UriRemoveAuth(u) ==
  LET auth == AuthStart(u)
      at   == SelectInSubSeq(u, auth, AuthEnd(u) - 1, LAMBDA x : x = "@")
  IN IF auth = 0 \/ at = 0 THEN <<>>
     ELSE SubSeq(u, 1, auth - 1) \o SubSeq(u, at + 1, Len(u))
====
