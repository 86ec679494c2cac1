SPECIFICATION LSpec
CONSTANTS
  Limit = 2
  MaxClock = 4
  MaxPresses = 2
  WaitRounds = 2
INVARIANTS
  LTypeOK
  ResetIsWanted
  AutoLaunchIsNormal
  AlertIsCurrent
PROPERTIES
  ForgetsLateOrRacing
  HearsPresses
