------------------------------ MODULE TextFile ------------------------------
(***************************************************************************)
(* TextFile::ReadLine, src/src/TextFile.cxx: the line reader of playlist   *)
(* and state files.  It fgets into a GString that grows by step bytes      *)
(* while a line does not fit, up to max_length, strips "\n" and "\r", and  *)
(* keeps the buffer (its len is the last line's length) for the next      *)
(* call.  The file is a sequence of the characters "a", "\r" and "\n".     *)
(*                                                                         *)
(* Where the code reads buffer->str[length - 1] with length 0 the read is  *)
(* out of bounds: the byte before the buffer is either something else     *)
(* (the empty line is returned) or a '\n' or '\r', and then length wraps   *)
(* around and g_string_set_size aborts.                                    *)
(***************************************************************************)
EXTENDS Naturals, Sequences, SequencesExt

CONSTANTS
  Step,       \* TextFile::step (1024 in TextFile.hxx)
  MaxLength,  \* TextFile::max_length (512 KiB in TextFile.hxx)
  MaxFile     \* the longest file checked

Chars == {"a", "\r", "\n"}

VARIABLES
  file,       \* the content of the file
  pos,        \* the next character fgets reads (1-based)
  blen,       \* buffer->len
  alloc,      \* buffer->allocated_len
  lines,      \* the lines ReadLine has returned
  status,     \* "reading", "eof" or "crash"
  oob         \* a read outside the buffer has happened

vars == <<file, pos, blen, alloc, lines, status, oob>>

-----------------------------------------------------------------------------
(* GString                                                                 *)

\* nearest_power(1, n): the smallest power of two >= n.
RECURSIVE NearestPower(_, _)
NearestPower(b, n) == IF b >= n THEN b ELSE NearestPower(2 * b, n)

SizedNewAlloc == NearestPower(1, Step + 1)

\* allocated_len after g_string_set_size(buffer, len).
Grow(len, al) == IF len >= al THEN NearestPower(1, len + 1) ELSE al

\* The number of characters fgets(s, n, file) stores from pos: at most
\* n - 1, through the first '\n'; 0 at the end of the file (NULL).
FgetsCount(f, p, n) ==
  IF p > Len(f) THEN 0
  ELSE LET nl   == SelectInSubSeq(f, p, Len(f), LAMBDA c : c = "\n")
           line == IF nl = 0 THEN Len(f) - p + 1 ELSE nl - p + 1
       IN IF line < n - 1 THEN line ELSE n - 1

-----------------------------------------------------------------------------
(* ReadLine                                                                *)

RECURSIVE ReadLoopNoNewlineCheck(_, _, _, _, _)
ReadLoopNoNewlineCheck(f, start, length, bl, al) ==
  IF bl >= MaxLength THEN [length |-> length, bl |-> bl, al |-> al, eof |-> FALSE]
  ELSE LET i == FgetsCount(f, start + length, al - length)
       IN IF i = 0 THEN [length |-> length, bl |-> bl, al |-> al, eof |-> length = 0]
          ELSE IF i < Step - 1
          THEN [length |-> length + i, bl |-> bl, al |-> al, eof |-> FALSE]
          ELSE ReadLoopNoNewlineCheck(f, start, length + i, length + i + Step,
                                      Grow(length + i + Step, al))

\* The while loop: fgets appends to the buffer at length; the loop ends at
\* the end of the file, at a short read or a '\n', or when buffer->len
\* reaches max_length; otherwise the buffer grows by step.  eof is the
\* early "return nullptr" of an fgets failing with length 0.
RECURSIVE ReadLoop(_, _, _, _, _)
ReadLoop(f, start, length, bl, al) ==
  IF bl >= MaxLength THEN [length |-> length, bl |-> bl, al |-> al, eof |-> FALSE]
  ELSE LET i == FgetsCount(f, start + length, al - length)
       IN IF i = 0 THEN [length |-> length, bl |-> bl, al |-> al, eof |-> length = 0]
          ELSE IF i < Step - 1 \/ f[start + length + i - 1] = "\n"
          THEN [length |-> length + i, bl |-> bl, al |-> al, eof |-> FALSE]
          ELSE ReadLoop(f, start, length + i, length + i + Step,
                        Grow(length + i + Step, al))

\* buffer->str[k] (0-based) of the line read from start, or "oob" when k
\* is out of bounds.
CharAt(f, start, k) == IF k < 0 THEN "oob" ELSE f[start + k]

\* Lines 70-73: strip a '\n', then a '\r'.  Each outcome is the length
\* left and whether a read was out of bounds; an out-of-bounds byte that is
\* '\n' or '\r' wraps length around (-1).
Strip1(f, start, r, c) ==
  LET ch == CharAt(f, start, r.len - 1)
  IN IF r.len < 0 THEN {r}
     ELSE IF ch = "oob" THEN {[len |-> r.len, oob |-> TRUE], [len |-> -1, oob |-> TRUE]}
     ELSE {[len |-> IF ch = c THEN r.len - 1 ELSE r.len, oob |-> r.oob]}

StripNewline(f, start, length) ==
  UNION { Strip1(f, start, r, "\r") :
            r \in Strip1(f, start, [len |-> length, oob |-> FALSE], "\n") }

\* One call of ReadLine; g_string_set_size(buffer, length) ends it.  A
\* wrapped-around length makes g_string_set_size abort.
ReadLine ==
  /\ status = "reading"
  /\ LET r == ReadLoop(file, pos, 0, blen, alloc)
     IN IF r.eof
        THEN status' = "eof" /\ UNCHANGED <<pos, blen, alloc, lines, oob>>
        ELSE /\ pos' = pos + r.length
             /\ \E o \in StripNewline(file, pos, r.length) :
                  /\ oob' = (oob \/ o.oob)
                  /\ IF o.len < 0
                     THEN status' = "crash" /\ UNCHANGED <<blen, alloc, lines>>
                     ELSE /\ blen' = o.len
                          /\ alloc' = Grow(o.len, r.al)
                          /\ lines' = Append(lines, SubSeq(file, pos, pos + o.len - 1))
                          /\ UNCHANGED status
  /\ UNCHANGED file

Init ==
  /\ file \in BoundedSeq(Chars, MaxFile)
  /\ pos = 1
  \* TextFile::TextFile: g_string_sized_new(step).
  /\ blen = 0 /\ alloc = SizedNewAlloc
  /\ lines = <<>> /\ status = "reading" /\ oob = FALSE

Spec == Init /\ [][ReadLine]_vars

-----------------------------------------------------------------------------
(* Properties                                                              *)

\* The lines of the file: split at '\n' (a last line needs none), one
\* trailing '\r' removed.
RECURSIVE RawLines(_)
RawLines(f) ==
  IF f = <<>> THEN <<>>
  ELSE LET nl == SelectInSeq(f, LAMBDA c : c = "\n")
       IN IF nl = 0 THEN <<f>>
          ELSE <<SubSeq(f, 1, nl)>> \o RawLines(SubSeq(f, nl + 1, Len(f)))

Chomp(l) ==
  LET a == IF l # <<>> /\ Last(l) = "\n" THEN Front(l) ELSE l
  IN IF a # <<>> /\ Last(a) = "\r" THEN Front(a) ELSE a

FileLines(f) == [k \in DOMAIN RawLines(f) |-> Chomp(RawLines(f)[k])]

\* A file whose lines are none of them empty and all fit below max_length.
Ordinary(f) ==
  \A k \in DOMAIN RawLines(f) :
     /\ RawLines(f)[k] # <<"\n">>
     /\ Len(RawLines(f)[k]) + Step < MaxLength

\* The loop of ReadLine, its buffer growth and its short-read test: on an
\* ordinary file the calls return exactly the file's lines, in order, the
\* last one included when it has no '\n', and then nullptr.
LinesOfFile ==
  Ordinary(file) =>
    /\ IsPrefix(lines, FileLines(file))
    /\ status = "eof" => lines = FileLines(file)

\* ReadLine never reads outside the line it has read (buffer->str[-1]).
ReadLineInBounds == ~oob
====
