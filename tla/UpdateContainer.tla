--------------------------- MODULE UpdateContainer --------------------------
(***************************************************************************)
(* update_container_file, src/src/UpdateContainer.cxx: the update thread   *)
(* turns a container file (a file holding several virtual tracks) into a   *)
(* directory of songs.  It takes the database lock three ways: once to     *)
(* find or make the directory, once per added song, and once to delete     *)
(* the directory again when the file holds no track.  Between those       *)
(* sections it calls the decoder plugin (container_scan, ScanFile) without *)
(* the lock, while the file on disk may change.                            *)
(*                                                                         *)
(* Each step of the update thread below is one locked section or one call *)
(* made outside the lock; the database is only changed inside a locked    *)
(* section, so every state between two steps is one that the main thread  *)
(* (a client listing the database) can observe under db_lock.  One run is *)
(* one update walk reaching this file, which resets the walk's "modified" *)
(* flag.                                                                  *)
(***************************************************************************)
EXTENDS Naturals, FiniteSets

CONSTANTS
  MaxTracks,  \* the most virtual tracks the file holds
  MaxMtime    \* how often the file may change

\* No child of that name (Directory::FindChild returns nullptr).
NoDir == [mtime |-> 0, device |-> "absent", songs |-> {}]
DEVICE_CONTAINER == "container"

VARIABLES
  file,       \* the file on disk: [mtime, tracks]
  dir,        \* the child directory of that name: NoDir or [mtime, device, songs]
  upc,        \* the update thread: "idle", "scan", "add", "finish"
  st,         \* the struct stat the walk took of the file
  tnum,       \* the track number passed to container_scan
  modified,   \* the update walk's "modified" flag
  startDir,   \* history: dir when the run began
  clean       \* history: a run has started and the file has not changed
              \* since its stat

vars == <<file, dir, upc, st, tnum, modified, startDir, clean>>

-----------------------------------------------------------------------------
\* The user rewrites the file: a new mtime and a new set of tracks.
FileChange ==
  /\ file.mtime < MaxMtime
  /\ \E n \in 0..MaxTracks : file' = [mtime |-> file.mtime + 1, tracks |-> n]
  /\ clean' = FALSE
  /\ UNCHANGED <<dir, upc, st, tnum, modified, startDir>>

StartRunNoModified ==
  /\ upc = "idle"
  /\ st' = file.mtime /\ startDir' = dir /\ clean' = TRUE
  /\ \E discard \in BOOLEAN :
     IF dir # NoDir /\ dir.mtime = file.mtime /\ ~discard
     THEN UNCHANGED <<dir, upc, tnum>> /\ modified' = FALSE
     ELSE /\ dir' = [mtime |-> file.mtime, device |-> DEVICE_CONTAINER,
                     songs |-> {}]
          /\ modified' = FALSE
          /\ tnum' = 0 /\ upc' = "scan"
  /\ UNCHANGED file

\* The walk stats the file; under the first db_lock,
\* make_directory_if_modified keeps an unmodified directory (return true)
\* unless walk_discard forces a rescan, or deletes the old one (modified =
\* true) and makes a new one, whose device is set to DEVICE_CONTAINER
\* before db_unlock.
StartRun ==
  /\ upc = "idle"
  /\ st' = file.mtime /\ startDir' = dir /\ clean' = TRUE
  /\ \E discard \in BOOLEAN :
     IF dir # NoDir /\ dir.mtime = file.mtime /\ ~discard
     THEN UNCHANGED <<dir, upc, tnum>> /\ modified' = FALSE
     ELSE /\ dir' = [mtime |-> file.mtime, device |-> DEVICE_CONTAINER,
                     songs |-> {}]
          /\ modified' = (dir # NoDir)
          /\ tnum' = 0 /\ upc' = "scan"
  /\ UNCHANGED file

\* container_scan(pathname, ++tnum) without the lock: the next virtual
\* track of the file as it is now, or nullptr.  The song is made and its
\* tags scanned, still without the lock.
Scan ==
  /\ upc = "scan"
  /\ tnum' = tnum + 1
  /\ upc' = IF tnum + 1 <= file.tracks THEN "add" ELSE "finish"
  /\ UNCHANGED <<file, dir, st, modified, startDir, clean>>

\* db_lock; contdir->AddSong(song); db_unlock; modified = true.  The song
\* carries the mtime of the walk's stat.
AddSong ==
  /\ upc = "add"
  /\ dir' = [dir EXCEPT !.songs = @ \cup {[track |-> tnum, mtime |-> st]}]
  /\ modified' = TRUE
  /\ upc' = "scan"
  /\ UNCHANGED <<file, st, tnum, startDir, clean>>

FinishOffByOne ==
  /\ upc = "finish"
  /\ IF tnum = 0 THEN dir' = NoDir ELSE UNCHANGED dir
  /\ upc' = "idle"
  /\ UNCHANGED <<file, st, tnum, modified, startDir, clean>>

\* tnum == 1: the file held no track; under db_lock the directory is
\* deleted again and the function returns false.
Finish ==
  /\ upc = "finish"
  /\ IF tnum = 1 THEN dir' = NoDir ELSE UNCHANGED dir
  /\ upc' = "idle"
  /\ UNCHANGED <<file, st, tnum, modified, startDir, clean>>

Init ==
  /\ file \in [mtime : {0}, tracks : 0..MaxTracks]
  /\ dir = NoDir
  /\ upc = "idle" /\ st = 0 /\ tnum = 0 /\ modified = FALSE
  /\ startDir = NoDir /\ clean = FALSE

UpdateNext == StartRun \/ Scan \/ AddSong \/ Finish

Next == FileChange \/ UpdateNext

Spec == Init /\ [][Next]_vars

-----------------------------------------------------------------------------
(* Properties                                                              *)

\* A run that ran while the file stayed unchanged leaves the database
\* matching the file: a directory with one song per virtual track when it
\* has tracks, no directory when it has none (the tnum == 1 case).
ContainerMatchesFile ==
  upc = "idle" /\ clean =>
    IF file.tracks = 0 THEN dir = NoDir
    ELSE /\ dir # NoDir /\ dir.mtime = file.mtime
         /\ {s.track : s \in dir.songs} = 1..file.tracks

\* "modified" tells the main thread to reload the database: a run that
\* leaves the directory different from how it found it sets it.
ModifiedWhenChanged == upc = "idle" /\ dir # startDir => modified
====
