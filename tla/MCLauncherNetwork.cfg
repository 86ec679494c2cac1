\* No buttons; the time does not matter.
SPECIFICATION LSpec
CONSTANTS
  Limit = 2
  MaxClock = 2
  MaxPresses = 0
  WaitRounds = 1
INVARIANT
  StatusFromNetwork
