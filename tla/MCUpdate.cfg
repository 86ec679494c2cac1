SPECIFICATION FairSpec
CONSTANTS
  Latest <- MCLatest
  Files <- MCFiles
  Ships <- MCShips
  Removes <- MCRemoves
  Pack <- MCPack
  ZipSize <- MCZipSize
  Size <- MCSize
  Cluster = 2
  FreeSpace <- MCFreeSpace
  MaxFaults = 2
  Absent = Absent
  Partial = Partial
  Empty = Empty
INVARIANTS
  TypeOK
  PackMatchesVersion
  GameOnWholePack
  ReportIsTrue
  WritesFit
PROPERTIES
  EventuallyCurrent
  AbsSpec
