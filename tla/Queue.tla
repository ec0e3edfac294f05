------------------------------- MODULE Queue --------------------------------
(***************************************************************************)
(* The playback queue (spec.md sections 3-4): QueueStore, OrderMapping,    *)
(* PriorityShuffler, VersionTracker and NextSongResolver.                  *)
(*                                                                         *)
(* The queue implementation (Queue.cxx, Playlist*.cxx) is not part of the  *)
(* sources under src/, so every operation here is modelled from spec.md;   *)
(* the rule for already played entries in SetPriority is the one pinned by *)
(* src/test/test_queue_priority.cxx, which exercises that code.            *)
(*                                                                         *)
(* Positions and order indices are 1-based (the code's are 0-based):       *)
(* items[p] is the entry at position p, order[k] the position played k-th, *)
(* current the order index playing now, NoSong (0) when none.              *)
(***************************************************************************)
EXTENDS Naturals, Sequences, SequencesExt, FiniteSets

CONSTANTS
  Ids,        \* client-visible entry ids (model values)
  Songs,      \* song handles (model values)
  Capacity,   \* fixed capacity of the queue
  Prio,       \* the priorities a client may set, a small subset of 0..255
  MaxVersion, \* bound on global_version (the counter is unbounded in code)
  Random      \* the random mode flag, fixed for a run

ASSUME Capacity \in Nat \ {0} /\ Cardinality(Ids) >= Capacity
ASSUME 0 \in Prio /\ Prio \subseteq 0..255
ASSUME MaxVersion \in Nat /\ Random \in BOOLEAN

NoSong == 0

VARIABLES
  items,    \* Seq of entries [id, song, mtime, prio, version], by position
  order,    \* Seq of positions: the playback order
  current,  \* order index of the entry playing, or NoSong
  version,  \* global_version
  mode      \* the flags repeat, single, consume the client toggles

qvars == <<items, order, current, version, mode>>

Flags == {"repeat", "single", "consume"}

Length == Len(items)

LiveIds == {items[p].id : p \in 1..Length}

\* PositionToOrder: the inverse of order.
PositionToOrder(ord, p) == CHOOSE k \in 1..Len(ord) : ord[k] = p

\* The id of the entry at order index k.
IdAtOrder(its, ord, k) == its[ord[k]].id

-----------------------------------------------------------------------------
(* QueueStore helpers                                                      *)

ItemsWithout(its, p, v) ==
  [i \in 1..Len(its) - 1 |->
     IF i < p THEN its[i] ELSE [its[i + 1] EXCEPT !.version = v]]

\* The order slot of position p is dropped and the positions renumbered.
Renumbered(q, p) == IF q > p THEN q - 1 ELSE q

OrderWithoutNoRenumber(ord, p) == RemoveAt(ord, PositionToOrder(ord, p))

OrderWithout(ord, p) ==
  LET rest == RemoveAt(ord, PositionToOrder(ord, p))
  IN [k \in 1..Len(rest) |-> Renumbered(rest[k], p)]

\* Where the current order index goes when order index k is dropped.
CurrentWithout(cur, k) ==
  CASE cur = k -> NoSong
    [] cur > k -> cur - 1
    [] OTHER   -> cur

RelabelItemsOnly(np) ==
  /\ items' = [i \in 1..Length |->
                 LET q == CHOOSE q \in 1..Length : np[q] = i
                 IN IF q = i THEN items[q]
                    ELSE [items[q] EXCEPT !.version = version + 1]]
  /\ order' = order

\* Entries move to new positions np[q]; the order keeps pointing at the same
\* entries, and every entry that changes position is stamped.
Relabel(np) ==
  /\ items' = [i \in 1..Length |->
                 LET q == CHOOSE q \in 1..Length : np[q] = i
                 IN IF q = i THEN items[q]
                    ELSE [items[q] EXCEPT !.version = version + 1]]
  /\ order' = [k \in 1..Length |-> np[order[k]]]

\* MoveRange: the new position of q when [from, from+count) moves to `to`.
MovedPosition(q, from, count, to) ==
  IF q \in from..(from + count - 1) THEN to + (q - from)
  ELSE LET r == IF q >= from + count THEN q - count ELSE q
       IN IF r < to THEN r ELSE r + count

-----------------------------------------------------------------------------
(* PriorityShuffler                                                        *)

PriorityShufflesUnsorted(its, ord, start) ==
  { SubSeq(ord, 1, start - 1) \o s :
      s \in SetToSeqs(ToSet(SubSeq(ord, start, Len(ord)))) }

\* ShuffleOrder(start): a random permutation of order[start..], re-sorted
\* by descending priority with ties kept in the random order; the prefix
\* before start is untouched.
PriorityShuffles(its, ord, start) ==
  { SubSeq(ord, 1, start - 1) \o s :
      s \in { t \in SetToSeqs(ToSet(SubSeq(ord, start, Len(ord)))) :
                IsSorted(t, LAMBDA a, b : its[a].prio >= its[b].prio) } }

\* The first order index >= start whose entry has priority <= p, skipping
\* exclude; one past the end when there is none.
FindPriorityOrder(its, ord, start, p, exclude) ==
  LET hits == {k \in start..Len(ord) : its[ord[k]].prio <= p /\ k # exclude}
  IN IF hits = {} THEN Len(ord) + 1 ELSE Min(hits)

\* SetPriority(position, priority, after_order) on st = [items, order,
\* current], with after_order the current order index.  An unplayed entry
\* moves to the front of its new priority tier after the current one; an
\* entry played already is moved only when its priority has just become
\* bigger than the current one's; the current entry is never moved.
SetPriority(st, pos, p, v) ==
  LET old    == st.items[pos].prio
      its    == [st.items EXCEPT ![pos].prio = p, ![pos].version = v]
      k      == PositionToOrder(st.order, pos)
      after  == st.current
      afterP == its[st.order[after]].prio
      stays  == \/ k = after
                \/ k < after /\ (old > afterP \/ p <= afterP)
      before == FindPriorityOrder(its, st.order, after + 1, p, k)
      newK   == IF before > k THEN before - 1 ELSE before
      ord    == InsertAt(RemoveAt(st.order, k), newK, pos)
  IN IF old = p THEN st
     ELSE IF stays THEN [st EXCEPT !.items = its]
     ELSE [items   |-> its,
           order   |-> ord,
           current |-> IF after = NoSong THEN NoSong
                       ELSE PositionToOrder(ord, st.order[after])]

\* SetPriorityRange applies SetPriority to positions from..to-1 in turn,
\* re-reading after_order from the current entry before each one.
RECURSIVE PrioritizeRange(_, _, _, _, _)
PrioritizeRange(st, pos, to, p, v) ==
  IF pos >= to THEN st
  ELSE PrioritizeRange(SetPriority(st, pos, p, v), pos + 1, to, p, v)

-----------------------------------------------------------------------------
(* Operations                                                              *)

QueueAppendAnyId(s, m) ==
  /\ Length < Capacity
  /\ version < MaxVersion
  /\ \E i \in Ids :
       items' = Append(items, [id |-> i, song |-> s, mtime |-> m,
                               prio |-> 0, version |-> version + 1])
  /\ order' = Append(order, Length + 1)
  /\ version' = version + 1
  /\ UNCHANGED <<current, mode>>

\* Append(song, priority=0): a fresh id, stamped with the incremented
\* version, at the end of both the positions and the order.
QueueAppend(s, m) ==
  /\ Length < Capacity
  /\ version < MaxVersion
  /\ \E i \in Ids \ LiveIds :
       items' = Append(items, [id |-> i, song |-> s, mtime |-> m,
                               prio |-> 0, version |-> version + 1])
  /\ order' = Append(order, Length + 1)
  /\ version' = version + 1
  /\ UNCHANGED <<current, mode>>

DeletePosition(p) ==
  /\ p \in 1..Length
  /\ version < MaxVersion
  /\ items' = ItemsWithout(items, p, version + 1)
  /\ order' = OrderWithout(order, p)
  /\ current' = CurrentWithout(current, PositionToOrder(order, p))
  /\ version' = version + 1
  /\ UNCHANGED mode

\* MoveRange(from, count, to): InvalidRange unless both ranges are inside
\* the queue and the destination does not overlap the moved range.
MoveRange(from, count, to) ==
  /\ count >= 1
  /\ from + count - 1 <= Length /\ to + count - 1 <= Length
  /\ (to + count <= from \/ from + count <= to)
  /\ version < MaxVersion
  /\ Relabel([q \in 1..Length |-> MovedPosition(q, from, count, to)])
  /\ version' = version + 1
  /\ UNCHANGED <<current, mode>>

Swap(a, b) ==
  /\ a \in 1..Length /\ b \in 1..Length /\ a < b
  /\ version < MaxVersion
  /\ Relabel([q \in 1..Length |-> CASE q = a -> b [] q = b -> a [] OTHER -> q])
  /\ version' = version + 1
  /\ UNCHANGED <<current, mode>>

ClearKeepCurrent ==
  /\ version < MaxVersion
  /\ items' = <<>> /\ order' = <<>>
  /\ version' = version + 1
  /\ UNCHANGED <<current, mode>>

Clear ==
  /\ version < MaxVersion
  /\ items' = <<>> /\ order' = <<>> /\ current' = NoSong
  /\ version' = version + 1
  /\ UNCHANGED mode

\* SetPriorityRange(from, to, priority, after_order = current):
\* InvalidPriorityRange unless from < to <= length; a call that changes no
\* priority is not a mutation.
SetPriorityRange(from, to, p) ==
  LET st == PrioritizeRange([items |-> items, order |-> order,
                             current |-> current], from, to, p, version + 1)
  IN /\ 1 <= from /\ from < to /\ to <= Length + 1
     /\ version < MaxVersion
     /\ st.items # items
     /\ items' = st.items /\ order' = st.order /\ current' = st.current
     /\ version' = version + 1
     /\ UNCHANGED mode

\* The shuffle command reshuffles only what is left to play.
ShuffleOrder ==
  /\ Random
  /\ Length - current >= 2
  /\ version < MaxVersion
  /\ \E ord \in PriorityShuffles(items, order, current + 1) : order' = ord
  /\ version' = version + 1
  /\ UNCHANGED <<items, current, mode>>

-----------------------------------------------------------------------------
(* NextSongResolver and playback control                                   *)

\* Playback starts at order index 1 of a fresh priority shuffle.
Play ==
  /\ current = NoSong
  /\ Length > 0
  /\ \E ord \in IF Random THEN PriorityShuffles(items, order, 1) ELSE {order} :
       order' = ord
  /\ current' = 1
  /\ UNCHANGED <<items, version, mode>>

\* The current entry finished: Advance, Stop, Advance(0) or WrapAndReshuffle
\* per the policy table, then with consume the finished entry is removed
\* and the resolved next entry is looked up again.  single+repeat replays
\* the entry, which changes no state and is not an action here.
NextSong ==
  /\ current # NoSong
  /\ ~(mode["single"] /\ mode["repeat"])
  /\ LET fin   == order[current]
         atEnd == current = Length
         nxt   == CASE ~atEnd         -> current + 1
                    [] mode["repeat"] -> 1
                    [] OTHER          -> NoSong
     IN \E ord \in IF atEnd /\ mode["repeat"] /\ Random
                   THEN PriorityShuffles(items, order, 1) ELSE {order} :
          IF ~mode["consume"]
          THEN /\ order' = ord /\ current' = nxt
               /\ UNCHANGED <<items, version>>
          ELSE LET rest == OrderWithout(ord, fin)
               IN /\ version < MaxVersion
                  /\ items' = ItemsWithout(items, fin, version + 1)
                  /\ order' = rest
                  /\ current' = IF nxt = NoSong \/ ord[nxt] = fin THEN NoSong
                                ELSE PositionToOrder(rest, Renumbered(ord[nxt], fin))
                  /\ version' = version + 1
  /\ UNCHANGED mode

SetMode(f) ==
  /\ mode' = [mode EXCEPT ![f] = ~@]
  /\ UNCHANGED <<items, order, current, version>>

-----------------------------------------------------------------------------
QInit ==
  /\ items = <<>>
  /\ order = <<>>
  /\ current = NoSong
  /\ version = 0
  /\ mode = [f \in Flags |-> FALSE]

Positions == 1..Capacity

QNext(s, m) ==
  \/ QueueAppend(s, m)
  \/ \E p \in Positions : DeletePosition(p)
  \/ \E f, c, t \in Positions : MoveRange(f, c, t)
  \/ \E a, b \in Positions : Swap(a, b)
  \/ Clear
  \/ \E f, t \in 1..Capacity + 1, p \in Prio : SetPriorityRange(f, t, p)
  \/ ShuffleOrder
  \/ Play
  \/ NextSong
  \/ \E f \in Flags : SetMode(f)

Next == \E s \in Songs : QNext(s, 0)

Spec == QInit /\ [][Next]_qvars

-----------------------------------------------------------------------------
(* Properties                                                              *)

TypeOK ==
  /\ items \in Seq([id : Ids, song : Songs, mtime : Nat, prio : Prio,
                    version : 0..MaxVersion])
  /\ Length <= Capacity
  /\ order \in Seq(Positions)
  /\ current \in 0..Len(order)
  /\ version \in 0..MaxVersion
  /\ mode \in [Flags -> BOOLEAN]

\* order and position_to_order are mutual inverses: order is a bijection
\* onto the live positions after every Delete, consume removal, Move, Swap,
\* SetPriority relocation and reshuffle (spec.md section 8, first bullet).
OrderIsBijection ==
  /\ Len(order) = Length
  /\ ToSet(order) = 1..Length

\* Every live id maps to exactly one position: the fresh-id choice of
\* Append and the compaction of Delete never leave two entries one id.
IdsUnique ==
  \A p, q \in 1..Length : p # q => items[p].id # items[q].id

\* Descending-priority invariant over the unplayed suffix while a song is
\* playing: it must survive SetPriority relocations (including re-enqueued
\* history), appends, deletions, consume removals and wrap reshuffles.
PriorityDescending ==
  current # NoSong =>
    \A i, j \in (current + 1)..Length :
      i < j => items[order[i]].prio >= items[order[j]].prio

\* The spec's wording of the same invariant, which also covers the case
\* where no song is current ("both unplayed").
PriorityDescendingSpec ==
  \A i, j \in (current + 1)..Length :
    i < j => items[order[i]].prio >= items[order[j]].prio

\* The entry playing is only ever replaced by the resolver: Delete, Move,
\* Swap, SetPriority (which may re-enqueue a played entry before it and so
\* shift its order index) must keep current on the same entry.
CurrentSongStable ==
  [][ current # NoSong /\ current' # NoSong
      /\ IdAtOrder(items', order', current') # IdAtOrder(items, order, current)
      => NextSong ]_qvars

\* spec.md 4.3 / Scenario E: SetPriority never relocates an entry at or
\* before current_order, whatever its new priority.
HistoryFrozen ==
  [][ (\E f, t \in 1..Capacity + 1, p \in Prio : SetPriorityRange(f, t, p))
      => \A k \in 1..current :
           IdAtOrder(items', order', k) = IdAtOrder(items, order, k) ]_qvars
====
