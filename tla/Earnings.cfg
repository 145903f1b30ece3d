SPECIFICATION Spec
CONSTANTS
  Cap = 256
  NoKey = NoKey
  NoTx = NoTx
  Threshold = 2
  ClaimCall = ClaimCall
  NoReading = NoReading
  MaxEarned = 5
INVARIANT DustNeverClaimed
PROPERTY FirstSweep
CHECK_DEADLOCK FALSE
