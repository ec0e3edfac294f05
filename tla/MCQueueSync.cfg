CONSTANTS
  i1 = i1
  i2 = i2
  i3 = i3
  s1 = s1
  s2 = s2
  c1 = c1
  Unknown = Unknown
  Ids <- MCIds
  Songs <- MCOneSong
  DbSongs <- MCDbSongs
  Clients <- MCClients
  Capacity = 3
  Prio = {0, 1, 2}
  MaxVersion = 5
  MaxMtime = 1
  Random = TRUE

SPECIFICATION QueueSpec
SYMMETRY IdSymmetry

INVARIANT TypeOK
INVARIANT OrderIsBijection
INVARIANT IdsUnique
INVARIANT PriorityDescending
PROPERTY CurrentSongStable
 
