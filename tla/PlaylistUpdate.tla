--------------------------- MODULE PlaylistUpdate ---------------------------
(***************************************************************************)
(* The queue composed with the song database and with clients that keep a  *)
(* copy of the queue in sync through plchanges.                            *)
(*                                                                         *)
(* The queue holds detached copies of database songs (spec.md 9, detach    *)
(* pattern).  When the update thread changes a song, the main loop later   *)
(* runs playlist::DatabaseModified (src/src/PlaylistUpdate.cxx), which     *)
(* patches each stale copy with ModifyAtPosition and then bumps the        *)
(* version once.  Clients diff with plchanges(since) = the entries whose   *)
(* last_changed_version > since (spec.md 4.4).                             *)
(***************************************************************************)
EXTENDS Queue

CONSTANTS
  DbSongs,    \* songs of the database (the others in Songs are remote URIs)
  MaxMtime,   \* bound on how often the update thread changes one song
  Clients,
  Unknown     \* model value: a position the client was never told about

ASSUME DbSongs \subseteq Songs /\ MaxMtime \in Nat

VARIABLES
  db,       \* the catalog: the mtime of each database song
  dbEvent,  \* a "database modified" event is pending for the main loop
  cview,    \* each client's copy of the queue: a Seq of entry views
  cver      \* the version each client last synchronized at

vars == <<qvars, db, dbEvent, cview, cver>>

\* What plchanges reports of an entry.
View(e) == [id |-> e.id, prio |-> e.prio, mtime |-> e.mtime]

\* A song is added to the queue as a detached copy of the catalog entry.
Snapshot(s) == IF s \in DbSongs THEN db[s] ELSE 0

-----------------------------------------------------------------------------
DbUpdateUnbounded(s) ==
  /\ db' = [db EXCEPT ![s] = @ + 1]
  /\ dbEvent' = TRUE
  /\ UNCHANGED <<qvars, cview, cver>>

\* The update thread changes a song of the database and signals the main
\* loop (idle event).
DbUpdate(s) ==
  /\ db[s] < MaxMtime
  /\ db' = [db EXCEPT ![s] = @ + 1]
  /\ dbEvent' = TRUE
  /\ UNCHANGED <<qvars, cview, cver>>

\* UpdatePlaylistSong: only a detached copy of a database song is updated,
\* and only when its mtime differs from the catalog's.
UpdatePlaylistSong(e) ==
  /\ e.song \in DbSongs
  /\ db[e.song] # e.mtime

DatabaseModifiedFirstOnly ==
  /\ dbEvent
  /\ LET changed == {p \in 1..Length : UpdatePlaylistSong(items[p])}
          first   == IF changed = {} THEN {} ELSE {Min(changed)}
     IN /\ items' = [p \in 1..Length |->
                       IF p \in first
                       THEN [items[p] EXCEPT !.mtime = db[items[p].song],
                                             !.version = version]
                       ELSE items[p]]
        /\ version' = IF changed # {} THEN version + 1 ELSE version
  /\ dbEvent' = FALSE
  /\ UNCHANGED <<order, current, mode, db, cview, cver>>

\* playlist::DatabaseModified: every updated position is stamped by
\* ModifyAtPosition with the current version, then IncrementVersion runs
\* once if anything was modified.
DatabaseModified ==
  /\ dbEvent
  /\ LET changed == {p \in 1..Length : UpdatePlaylistSong(items[p])}
     IN /\ items' = [p \in 1..Length |->
                       IF p \in changed
                       THEN [items[p] EXCEPT !.mtime = db[items[p].song],
                                             !.version = version]
                       ELSE items[p]]
        /\ version' = IF changed # {} THEN version + 1 ELSE version
  /\ dbEvent' = FALSE
  /\ UNCHANGED <<order, current, mode, db, cview, cver>>

\* plchanges(cver[c]): the client overwrites every position whose entry
\* changed after its version, and truncates to the queue length.
ClientSync(c) ==
  /\ cview' = [cview EXCEPT ![c] =
                 [p \in 1..Length |->
                    IF items[p].version > cver[c] THEN View(items[p])
                    ELSE IF p <= Len(cview[c]) THEN cview[c][p]
                    ELSE Unknown]]
  /\ cver' = [cver EXCEPT ![c] = version]
  /\ UNCHANGED <<qvars, db, dbEvent>>

-----------------------------------------------------------------------------
Init ==
  /\ QInit
  /\ db = [s \in DbSongs |-> 0]
  /\ dbEvent = FALSE
  /\ cview = [c \in Clients |-> <<>>]
  /\ cver = [c \in Clients |-> 0]

QueueStep ==
  /\ \E s \in Songs : QNext(s, Snapshot(s))
  /\ UNCHANGED <<db, dbEvent, cview, cver>>

\* Queue commands and client synchronization only.
QueueNext ==
  \/ QueueStep
  \/ \E c \in Clients : ClientSync(c)

FullNext ==
  \/ QueueNext
  \/ \E s \in DbSongs : DbUpdate(s)
  \/ DatabaseModified

QueueSpec == Init /\ [][QueueNext]_vars

\* The main loop dispatches every pending event: DatabaseModified is
\* weakly fair.  Clients and the update thread are not.
FullSpec == Init /\ [][FullNext]_vars /\ WF_vars(DatabaseModified)

-----------------------------------------------------------------------------
(* Properties                                                              *)

Views == [id : Ids, prio : Prio, mtime : 0..MaxMtime]

PUTypeOK ==
  /\ items \in Seq([id : Ids, song : Songs, mtime : 0..MaxMtime, prio : Prio,
                    version : Nat])
  /\ db \in [DbSongs -> 0..MaxMtime]
  /\ dbEvent \in BOOLEAN
  /\ cview \in [Clients -> Seq(Views \cup {Unknown})]
  /\ cver \in [Clients -> Nat]

\* A client whose last plchanges was at the current version sees exactly
\* the queue: every mutation stamps every entry it moves or changes with a
\* version the client has not seen yet.
ClientInSync ==
  \A c \in Clients :
    cver[c] = version => cview[c] = [p \in 1..Length |-> View(items[p])]

Stale(p) == UpdatePlaylistSong(items[p])

\* Every stale copy of a song in the queue is eventually refreshed (or
\* removed from the queue).
StaleRefreshed ==
  \A i \in Ids :
    (\E p \in 1..Length : items[p].id = i /\ Stale(p))
      ~> ~(\E p \in 1..Length : items[p].id = i /\ Stale(p))

\* The version-stamp protocol implements the full-dump promise: under the
\* refinement mapping below, every queue command is a Change, and every
\* plchanges(cver) applied by a client (ClientSync) leaves that client
\* with exactly the queue, as a full dump would; it holds only if every
\* mutation stamps every entry it moves, renumbers or changes with a
\* version newer than any client has seen.
Mirror == INSTANCE QueueMirror
            WITH Entries <- Views,
                 queue <- [p \in 1..Length |-> View(items[p])],
                 mirror <- cview
====
