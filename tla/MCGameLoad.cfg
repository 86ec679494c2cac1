SPECIFICATION LoadSpec
CONSTANTS
  Discs <- MCDiscs
  Externals <- MCExternals
  Folders <- MCFolders
  Tree <- MCTree
  OnCard <- MCOnCard
  GamePaths <- MCGamePaths
  Lower <- MCLower
  Hash <- MCHash
  MaxPatches = 3
  MaxFiles = 3
  MainDol <- MCMainDol
  DotUnderscore <- MCDotUnderscore
  Nothing = Nothing
  Top = 57
  LauncherEnd = 4
  PatchCopy = 7
  CopierSize = 1
  DolBuffer = 8
  DolSize = 6
  Dols <- MCDols
  MainDolReads <- MCMainDolReads
  FstSizes <- MCFstSizes
  FstFloor = 36
  Bi2Size = 2
  RteStart = 42
  RteEnd = 55
  RteFiles <- MCRteFiles
  TrampolineStart = 45
  Trampolines <- MCTrampolines
  RiivoDisc = 49
  Statics <- MCStatics
  Hooked <- MCHooked
  PulDests <- MCPulDests
  PulSize = 1
  MemPatches <- MCMemPatches
  MaxMemPatches = 2
  PatchSize = 1
  SdFileSize = 1
  ReplacementSize = 2
  StringSize = 1
  Line = 2
  Word = 2
INVARIANTS
  GTypeOK
  ResolvesToLastPatch
  OneEntryPerFile
  KeptIntact
  GameImage
  HooksReachOriginals
PROPERTY
  RunsOnOwnCode
