------------------------------- MODULE DsdLib -------------------------------
(***************************************************************************)
(* The stream helpers of src/src/decoder/DsdLib.cxx used by the DSDIFF and *)
(* DSF decoders: dsdlib_skip_to, dsdlib_skip and dsdlib_tag_id3.  On a     *)
(* stream that cannot seek they skip by reading into a buffer of Buf       *)
(* bytes; decoder_read may return fewer bytes than asked (a short read)   *)
(* and returns 0 at the end of the stream or on an error.  Each iteration *)
(* of a loop is one step.                                                  *)
(***************************************************************************)
EXTENDS Integers

CONSTANTS
  FileLen,    \* the bytes the stream really holds
  Buf,        \* sizeof(buffer) (8192 in the code)
  MaxTag,     \* the id3 size limit (4096 in the code)
  ULongMod    \* 2^64 in the code: id3_length_t is unsigned

Offsets == 0..(FileLen + 1)

VARIABLES
  offset,     \* is.GetOffset()
  size,       \* is.GetSize(): FileLen, or -1 when unknown
  seekable,   \* is.IsSeekable()
  call,       \* "idle", "skip_to", "skip", "tag_read"
  caller,     \* who called dsdlib_skip_to: "decoder" or "tag"
  target,     \* the offset argument of dsdlib_skip_to
  delta,      \* the delta local of dsdlib_skip
  start,      \* history: offset when the call began
  arg,        \* history: the argument of the call
  last        \* history: [op, ok, start, arg, at] of the last return

vars == <<offset, size, seekable, call, caller, target, delta, start, arg,
          last>>

Min2(a, b) == IF a < b THEN a ELSE b

\* What decoder_read(decoder, is, buffer, length) may return: a short or
\* full read of what is left, or 0 at the end or on an error.
ReadResults(length) == {0} \cup 1..Min2(length, FileLen - offset)

\* A seek through plugin.seek: it succeeds inside the file or fails.
SeekOutcomes(to) == IF to \in 0..FileLen THEN {to, -1} ELSE {-1}

Return(op, ok) ==
  /\ last' = [op |-> op, ok |-> ok, start |-> start', arg |-> arg', at |-> offset']
  /\ call' = "idle"

-----------------------------------------------------------------------------
(* dsdlib_skip_to                                                          *)

SkipToEntryNoBackCheck(t, who) ==
  /\ caller' = who /\ target' = t /\ delta' = delta
  /\ IF seekable
     THEN \E o \in SeekOutcomes(t) :
            /\ offset' = IF o = -1 THEN offset ELSE o
            /\ IF who = "tag" /\ o # -1 THEN call' = "tag_read" /\ UNCHANGED last
               ELSE Return(IF who = "tag" THEN "tag" ELSE "skip_to", o # -1)
     ELSE /\ offset' = offset
          /\ call' = "skip_to" /\ UNCHANGED last

\* Lines 67-71 and the first test of the loop: seek if the stream can,
\* refuse to go backwards, else start reading.
SkipToEntry(t, who) ==
  /\ caller' = who /\ target' = t /\ delta' = delta
  /\ IF seekable
     THEN \E o \in SeekOutcomes(t) :
            /\ offset' = IF o = -1 THEN offset ELSE o
            /\ IF who = "tag" /\ o # -1 THEN call' = "tag_read" /\ UNCHANGED last
               ELSE Return(IF who = "tag" THEN "tag" ELSE "skip_to", o # -1)
     ELSE /\ offset' = offset
          /\ IF offset > t THEN Return(IF who = "tag" THEN "tag" ELSE "skip_to", FALSE)
             ELSE call' = "skip_to" /\ UNCHANGED last

CallSkipTo ==
  /\ call = "idle"
  /\ \E t \in Offsets :
       /\ start' = offset /\ arg' = t
       /\ SkipToEntry(t, "decoder")
  /\ UNCHANGED <<size, seekable>>

SkipToLoopNoZeroCheck ==
  /\ call = "skip_to"
  /\ UNCHANGED <<size, seekable, caller, target, delta, start, arg>>
  /\ IF offset < target
     THEN \E n \in ReadResults(Min2(Buf, target - offset)) :
            offset' = offset + n /\ UNCHANGED <<call, last>>
     ELSE /\ offset' = offset
          /\ IF caller = "tag" THEN call' = "tag_read" /\ UNCHANGED last
             ELSE Return("skip_to", TRUE)

\* One iteration of the while loop (lines 74-82): read at most the bytes
\* left to the target, fail on 0.  When the loop ends, line 84 asserts the
\* offset is the target and the call returns true; when it ends inside
\* dsdlib_tag_id3 that function goes on (lines 158-167).
SkipToLoop ==
  /\ call = "skip_to"
  /\ UNCHANGED <<size, seekable, caller, target, delta, start, arg>>
  /\ IF offset < target
     THEN \E n \in ReadResults(Min2(Buf, target - offset)) :
            /\ offset' = offset + n
            /\ IF n = 0 THEN Return(IF caller = "tag" THEN "tag" ELSE "skip_to", FALSE)
               ELSE UNCHANGED <<call, last>>
     ELSE /\ offset' = offset
          /\ IF caller = "tag" THEN call' = "tag_read" /\ UNCHANGED last
             ELSE Return("skip_to", TRUE)

-----------------------------------------------------------------------------
(* dsdlib_skip                                                             *)

\* Lines 95-101: nothing to skip, or one relative seek.
CallSkip ==
  /\ call = "idle"
  /\ \E d \in Offsets :
       /\ start' = offset /\ arg' = d
       /\ IF d = 0 THEN offset' = offset /\ delta' = delta /\ Return("skip", TRUE)
          ELSE IF seekable
          THEN \E o \in SeekOutcomes(offset + d) :
                 /\ offset' = IF o = -1 THEN offset ELSE o
                 /\ delta' = delta
                 /\ Return("skip", o # -1)
          ELSE offset' = offset /\ delta' = d /\ call' = "skip" /\ UNCHANGED last
  /\ UNCHANGED <<size, seekable, caller, target>>

SkipLoopNoClamp ==
  /\ call = "skip"
  /\ UNCHANGED <<size, seekable, caller, target, start, arg>>
  /\ IF delta > 0
     THEN \E n \in ReadResults(Buf) :
            /\ offset' = offset + n /\ delta' = delta - n
            /\ IF n = 0 THEN Return("skip", FALSE) ELSE UNCHANGED <<call, last>>
     ELSE offset' = offset /\ delta' = delta /\ Return("skip", TRUE)

\* One iteration of the while loop (lines 104-114): read at most delta
\* bytes, fail on 0, subtract what was read.
SkipLoop ==
  /\ call = "skip"
  /\ UNCHANGED <<size, seekable, caller, target, start, arg>>
  /\ IF delta > 0
     THEN \E n \in ReadResults(Min2(Buf, delta)) :
            /\ offset' = offset + n /\ delta' = delta - n
            /\ IF n = 0 THEN Return("skip", FALSE) ELSE UNCHANGED <<call, last>>
     ELSE offset' = offset /\ delta' = delta /\ Return("skip", TRUE)

-----------------------------------------------------------------------------
(* dsdlib_tag_id3                                                          *)

\* Lines 146-151: no tag, or skip to it.
CallTagId3 ==
  /\ call = "idle"
  /\ \E t \in Offsets :
       /\ start' = offset /\ arg' = t
       /\ IF t = 0
          THEN offset' = offset /\ Return("tag", FALSE)
               /\ UNCHANGED <<caller, target, delta>>
          ELSE SkipToEntry(t, "tag")
  /\ UNCHANGED <<size, seekable>>

\* The unsigned count of line 163.
TagCountOf(o) == (size - o) % ULongMod

\* Lines 158-182: give up when the offset is at or past the size, or the
\* count is 0 or above the limit; else read count bytes into a stack
\* array of that size and parse them.
TagRead ==
  /\ call = "tag_read"
  /\ UNCHANGED <<size, seekable, caller, target, delta, start, arg>>
  /\ offset' = offset
  /\ IF offset >= size \/ TagCountOf(offset) = 0 \/ TagCountOf(offset) > MaxTag
     THEN Return("tag", FALSE)
     ELSE \E n \in ReadResults(TagCountOf(offset)) :
            Return("tag", n = TagCountOf(offset))

-----------------------------------------------------------------------------
Init ==
  /\ offset = 0
  /\ size \in {FileLen, -1}
  /\ seekable \in BOOLEAN
  /\ call = "idle" /\ caller = "decoder"
  /\ target = 0 /\ delta = 0 /\ start = 0 /\ arg = 0
  /\ last = [op |-> "none", ok |-> FALSE, start |-> 0, arg |-> 0, at |-> 0]

Next == CallSkipTo \/ SkipToLoop \/ CallSkip \/ SkipLoop \/ CallTagId3 \/ TagRead

\* Every loop iteration is taken once enabled: the decoder thread runs
\* these calls to their end.
Spec == Init /\ [][Next]_vars /\ WF_vars(SkipToLoop \/ SkipLoop \/ TagRead)

-----------------------------------------------------------------------------
(* Properties                                                              *)

\* dsdlib_skip_to returning true has put the stream at the requested
\* offset (the assert of line 84), on both paths and after short reads.
SkipToReachesTarget ==
  last.op = "skip_to" /\ last.ok => last.at = last.arg

\* dsdlib_skip returning true has advanced the stream by exactly delta,
\* whatever mix of short reads the loop met.
SkipAdvancesDelta ==
  last.op = "skip" /\ last.ok => last.at = last.start + last.arg

\* Every call returns: the loops end at the target or at a read of 0.
CallsReturn == [](call # "idle" => <>(call = "idle"))
====
