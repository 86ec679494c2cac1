SPECIFICATION Spec
CONSTANTS
  VersionOf <- MCVersionOf
  BadVersions = {"1..3"}
  Names = {"n", "m"}
  MaxLines = 3
  MaxTrailing = 1
  SplitLim = 8
INVARIANT
  UpToTheLimit
