--------------------------- MODULE DatabaseUpdate ---------------------------
(***************************************************************************)
(* The main thread running sticker commands (StickerCommands) while the   *)
(* update thread turns a container file into a directory of songs         *)
(* (UpdateContainer).  They share db_lock: each locked section of         *)
(* update_container_file (lines 76-85, 109-113, 120-126) is one step that *)
(* needs the lock free, and the main thread holds it through "find".  The *)
(* songs the sticker commands can borrow are the container's tracks.      *)
(***************************************************************************)
EXTENDS Naturals, FiniteSets

CONSTANTS MaxTracks, MaxMtime, Names, MaxCmds

VARIABLES
  enabled, hasDb, stickers, dbLock, hpc, borrowed, reply, cur, cmds,
  file, dir, upc, st, tnum, modified, startDir, clean

mainVars == <<enabled, hasDb, stickers, dbLock, hpc, borrowed, reply, cur, cmds>>
updateVars == <<file, dir, upc, st, tnum, modified, startDir, clean>>
vars == <<mainVars, updateVars>>

U == INSTANCE UpdateContainer

\* The container directory's songs by track number, and the directory.
ContainerDir == "container"
Tracks == {s.track : s \in dir.songs}
DirsOf == IF dir = U!NoDir THEN {} ELSE {ContainerDir}

S == INSTANCE StickerCommands
       WITH Songs <- 1..MaxTracks, Dirs <- {ContainerDir},
            songs <- Tracks, dirs <- DirsOf

\* A sticker command step of the main thread.
MainStep ==
  /\ UNCHANGED updateVars
  /\ \/ S!Rejected \/ S!UnknownDomain \/ S!GetSong \/ S!SongOp \/ S!FindStart \/ S!FindEnd

\* The update thread: its locked sections wait for db_lock; the scans of
\* the file and the user's edits of it do not take the lock.
UpdateStep ==
  /\ \/ dbLock = "none" /\ (U!StartRun \/ U!AddSong \/ U!Finish)
     \/ U!Scan
     \/ U!FileChange
  /\ UNCHANGED mainVars

Init == U!Init /\ S!Init

Next == MainStep \/ UpdateStep

Spec == Init /\ [][Next]_vars

-----------------------------------------------------------------------------
(* Properties                                                              *)

\* Every song a sticker command borrowed is returned before its reply,
\* also when the update thread removed it from the database meanwhile.
SongsReturned == S!SongsReturned

\* The main thread never keeps db_lock after a command, so the update
\* thread's next locked section can always run.
DbLockReleased == S!DbLockReleased

\* A run that met no change of the file leaves the database matching the
\* file, though sticker "find" commands held db_lock between its sections.
ContainerMatchesFile == U!ContainerMatchesFile

\* A run that changed the container directory sets "modified".
ModifiedWhenChanged == U!ModifiedWhenChanged
====
