SPECIFICATION Spec
CONSTANTS
  VersionOf <- MCVersionOf
  BadVersions = {"1..3"}
  Names = {"n", "m"}
  MaxLines = 2
  MaxTrailing = 1
  SplitLim = 16
INVARIANTS
  ListsReadWhole
  ResumesWithTheRest
