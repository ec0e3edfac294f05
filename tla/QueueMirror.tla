---------------------------- MODULE QueueMirror -----------------------------
(***************************************************************************)
(* What incremental synchronisation promises a client (spec.md 4.4, the   *)
(* Diff primitive, and 6, plchanges): whatever happens to the queue, a    *)
(* client that synchronises ends up with a copy of the whole queue, as if *)
(* it had asked for a full dump.  The queue is a sequence of the entries  *)
(* a client is shown; the queue operations are one abstract Change.       *)
(***************************************************************************)
EXTENDS Sequences

CONSTANTS
  Clients,
  Entries   \* what a client is shown of one queue entry

VARIABLES
  queue,    \* the queue as clients are to see it
  mirror    \* each client's copy

mvars == <<queue, mirror>>

Init ==
  /\ queue = <<>>
  /\ mirror = [c \in Clients |-> <<>>]

\* Any queue command; the clients' copies are not touched.
Change ==
  /\ queue' \in Seq(Entries)
  /\ UNCHANGED mirror

\* A client asks for the changes and applies them: it now holds the queue.
Sync(c) ==
  /\ mirror' = [mirror EXCEPT ![c] = queue]
  /\ UNCHANGED queue

Next == Change \/ \E c \in Clients : Sync(c)

Spec == Init /\ [][Next]_mvars
====
