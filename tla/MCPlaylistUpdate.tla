-------------------------- MODULE MCPlaylistUpdate --------------------------
EXTENDS PlaylistUpdate, TLC

CONSTANTS i1, i2, i3, s1, s2, c1

MCIds == {i1, i2, i3}
MCSongs == {s1, s2}     \* s1 is a database song, s2 a remote URI
MCDbSongs == {s1}
MCOneSong == {s1}   \* queue commands alone: the song handle is irrelevant
MCClients == {c1}

IdSymmetry == Permutations(MCIds)
====
