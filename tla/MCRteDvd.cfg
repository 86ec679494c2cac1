SPECIFICATION Spec
CONSTANTS
  e1 = e1
  e2 = e2
  e3 = e3
  h1 = h1
  h2 = h2
  h3 = h3
  Disc = Disc
  Nothing = Nothing
  MaxFiles = 2
  Entries <- MCEntries
  FileInfos <- MCFileInfos
  Paths <- MCPaths
  Replacement <- MCReplacement
INVARIANTS
  TypeOK
  RefcountExact
  SlotsAccounted
  NoBugHalt
PROPERTY AbsSpec
