\* A container file of up to two tracks, rewritten up to three times; one
\* sticker name and three sticker commands, enough for a "find" holding
\* db_lock across an update run and a "get" of a track being rescanned.
CONSTANTS
  MaxTracks = 2
  MaxMtime = 3
  Names = {n1}
  MaxCmds = 3
SPECIFICATION Spec
INVARIANT SongsReturned
INVARIANT DbLockReleased
INVARIANT ContainerMatchesFile
INVARIANT ModifiedWhenChanged
