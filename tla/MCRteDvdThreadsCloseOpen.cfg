SPECIFICATION TSpec
CONSTANTS
  e1 = e1
  e2 = e2
  e3 = e3
  h1 = h1
  h2 = h2
  h3 = h3
  t1 = t1
  t2 = t2
  Disc = Disc
  Nothing = Nothing
  MaxFiles = 2
  Entries <- MCEntries
  FileInfos <- MCFileInfos
  Paths <- MCPaths
  Replacement <- MCReplacement
  Threads <- MCThreads
  Offsets <- MCOffsets
  Serial <- ClosesOverlapOpens
SYMMETRY Symmetric
INVARIANT OpenFilesReadable
