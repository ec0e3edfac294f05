CONSTANTS
  i1 = i1
  i2 = i2
  i3 = i3
  s1 = s1
  s2 = s2
  c1 = c1
  Unknown = Unknown
  Ids <- MCIds
  Songs <- MCSongs
  DbSongs <- MCDbSongs
  Clients <- MCClients
  Capacity = 2
  Prio = {0, 1}
  MaxVersion = 3
  MaxMtime = 1
  Random = TRUE

SPECIFICATION FullSpec

PROPERTY StaleRefreshed
