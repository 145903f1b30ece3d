SPECIFICATION Spec
CONSTANTS
  Quorum = 1
  Rounds = 2
  Response = 7
  BaseDelay = 1
  MaxDelay = 3
  MaxMissed = 0
  TickBlocks = 1
  Latency = 1
  MaxFails = 1
INVARIANT NeverMissed
PROPERTY SealsWhenItCan
PROPERTY PinPaysOff
