-------------------------- MODULE StickerCommands --------------------------
(***************************************************************************)
(* The sticker command, src/src/command/StickerCommands.cxx, run by the   *)
(* main thread while the update thread edits the database.  Both take the *)
(* global database mutex db_lock.  "get", "list", "set" and "delete"      *)
(* borrow a song with db->GetSong (which locks the database itself, so    *)
(* the caller must not hold db_lock) and give it back with ReturnSong;    *)
(* "find" holds db_lock across the directory lookup and the sticker scan. *)
(* The sticker database (SongSticker, StickerDatabase) is a set of        *)
(* (song, name) pairs; its SQL calls may fail.                            *)
(***************************************************************************)
EXTENDS Naturals, FiniteSets

CONSTANTS
  Songs,      \* song URIs
  Dirs,       \* directory URIs
  Names,      \* sticker names
  MaxCmds     \* commands the client sends


VARIABLES
  enabled,    \* sticker_enabled()
  hasDb,      \* GetDatabase() != nullptr
  songs,      \* the songs in the database
  dirs,       \* the directories in the database
  stickers,   \* the (song, name) pairs of the sticker database
  dbLock,     \* holder of db_lock: "none", "main", "update"
  hpc,        \* the main thread: "idle", a song subcommand, or "find"
  borrowed,   \* songs GetSong returned and ReturnSong has not taken back
  reply,      \* the last command's result: "none", "OK" or an ACK code
  cur,        \* the <<song, name>> arguments of the running subcommand
  cmds        \* commands handled so far

vars == <<enabled, hasDb, songs, dirs, stickers, dbLock, hpc, borrowed,
          reply, cur, cmds>>

\* A command that returns: the main thread is idle again.
Done(r) == reply' = r /\ hpc' = "idle"

-----------------------------------------------------------------------------
(* The main thread                                                         *)

\* handle_sticker (lines 163-167) needs the sticker database enabled;
\* handle_sticker_song (lines 57-60) needs a database, and answers a
\* request it does not know with "bad request" (lines 155-157).
Rejected ==
  /\ hpc = "idle" /\ cmds < MaxCmds
  /\ \/ ~enabled /\ Done("ACK_ERROR_UNKNOWN")
     \/ enabled /\ ~hasDb /\ Done("ACK_ERROR_NO_DB")
     \/ enabled /\ hasDb /\ Done("ACK_ERROR_ARG")
  /\ cmds' = cmds + 1
  /\ UNCHANGED <<enabled, hasDb, songs, dirs, stickers, dbLock, borrowed, cur>>

\* handle_sticker (lines 169-176): a domain other than "song" is rejected
\* before the database is looked up.
UnknownDomain ==
  /\ hpc = "idle" /\ cmds < MaxCmds /\ enabled
  /\ Done("ACK_ERROR_ARG")
  /\ cmds' = cmds + 1
  /\ UNCHANGED <<enabled, hasDb, songs, dirs, stickers, dbLock, borrowed, cur>>

SongCmds == {"get", "list", "set", "delete", "delete_all"}

\* db->GetSong(argv[3]) (lines 64, 81, 95, 111): a song missing from the
\* database is ACK_ERROR_NO_EXIST; a found one is borrowed, and the
\* command goes on without db_lock.
GetSong ==
  /\ hpc = "idle" /\ cmds < MaxCmds /\ enabled /\ hasDb
  /\ dbLock = "none"
  /\ \E c \in SongCmds, s \in Songs, n \in Names :
       IF s \in songs
       THEN hpc' = c /\ cur' = <<s, n>> /\ borrowed' = borrowed + 1
            /\ UNCHANGED reply
       ELSE Done("ACK_ERROR_NO_EXIST") /\ UNCHANGED <<cur, borrowed>>
  /\ cmds' = cmds + 1
  /\ UNCHANGED <<enabled, hasDb, songs, dirs, stickers, dbLock>>

\* The sticker call of each subcommand, whose result decides the reply:
\* "get" of a missing sticker is ACK_ERROR_NO_EXIST; a failing
\* sticker_song_set_value or delete is ACK_ERROR_SYSTEM.
StickerCall(c, s, n) ==
  \/ c = "get" /\ UNCHANGED stickers
     /\ Done(IF <<s, n>> \in stickers THEN "OK" ELSE "ACK_ERROR_NO_EXIST")
  \/ c = "list" /\ UNCHANGED stickers /\ Done("OK")
  \/ c = "set" /\ stickers' = stickers \cup {<<s, n>>} /\ Done("OK")
  \/ c = "set" /\ UNCHANGED stickers /\ Done("ACK_ERROR_SYSTEM")
  \/ c = "delete" /\ stickers' = stickers \ {<<s, n>>}
     /\ Done(IF <<s, n>> \in stickers THEN "OK" ELSE "ACK_ERROR_SYSTEM")
  \/ c = "delete_all" /\ stickers' = {p \in stickers : p[1] # s}
     /\ Done(IF \E p \in stickers : p[1] = s THEN "OK" ELSE "ACK_ERROR_SYSTEM")

SongOpLeak ==
  /\ hpc \in SongCmds
  /\ StickerCall(hpc, cur[1], cur[2])
  /\ borrowed' = IF hpc = "get" /\ cur \notin stickers THEN borrowed
                  ELSE borrowed - 1
  /\ UNCHANGED <<enabled, hasDb, songs, dirs, dbLock, cur, cmds>>

\* Lines 68-78, 85-92, 99-107, 115-125: the sticker call, then
\* db->ReturnSong(song) before any reply is sent.
SongOp ==
  /\ hpc \in SongCmds
  /\ StickerCall(hpc, cur[1], cur[2])
  /\ borrowed' = borrowed - 1
  /\ UNCHANGED <<enabled, hasDb, songs, dirs, dbLock, cur, cmds>>

FindStartNoUnlock ==
  /\ hpc = "idle" /\ cmds < MaxCmds /\ enabled /\ hasDb
  /\ dbLock = "none"
  /\ \E d \in Dirs :
       IF d \in dirs THEN hpc' = "find" /\ dbLock' = "main" /\ UNCHANGED reply
       ELSE dbLock' = "main" /\ Done("ACK_ERROR_NO_EXIST")
  /\ cmds' = cmds + 1
  /\ UNCHANGED <<enabled, hasDb, songs, dirs, stickers, borrowed, cur>>

\* "find" (lines 135-142): db_lock, look the directory up; a missing one
\* is db_unlock and ACK_ERROR_NO_EXIST.
FindStart ==
  /\ hpc = "idle" /\ cmds < MaxCmds /\ enabled /\ hasDb
  /\ dbLock = "none"
  /\ \E d \in Dirs :
       IF d \in dirs THEN hpc' = "find" /\ dbLock' = "main" /\ UNCHANGED reply
       ELSE dbLock' = "none" /\ Done("ACK_ERROR_NO_EXIST")
  /\ cmds' = cmds + 1
  /\ UNCHANGED <<enabled, hasDb, songs, dirs, stickers, borrowed, cur>>

\* Lines 144-153: sticker_song_find prints every match through the
\* callback, still under db_lock; then db_unlock and the reply.
FindEnd ==
  /\ hpc = "find"
  /\ dbLock' = "none"
  /\ \/ Done("OK")
     \/ Done("ACK_ERROR_SYSTEM")
  /\ UNCHANGED <<enabled, hasDb, songs, dirs, stickers, borrowed, cur, cmds>>

-----------------------------------------------------------------------------
Init ==
  /\ enabled \in BOOLEAN /\ hasDb \in BOOLEAN
  /\ songs \in SUBSET Songs /\ dirs \in SUBSET Dirs
  /\ stickers = {} /\ dbLock = "none" /\ hpc = "idle"
  /\ borrowed = 0 /\ reply = "none" /\ cmds = 0
  /\ cur = <<CHOOSE s \in Songs : TRUE, CHOOSE n \in Names : TRUE>>

\* The main thread alone; DatabaseUpdate composes it with the update thread.
Next == Rejected \/ UnknownDomain \/ GetSong \/ SongOp \/ FindStart \/ FindEnd

Spec == Init /\ [][Next]_vars

-----------------------------------------------------------------------------
(* Properties                                                              *)

\* Every song GetSong lent out has been given back with ReturnSong when a
\* command has sent its reply, on the error paths too (the database's
\* borrowed_song_count must be 0 when it is closed).
SongsReturned == hpc = "idle" => borrowed = 0

\* db_lock is never left held by the main thread after a command, on the
\* "no such directory" path too; the next GetSong or the update thread
\* would block on it for ever.
DbLockReleased == hpc = "idle" => dbLock # "main"
====
