SPECIFICATION Spec
CONSTANTS
  Cap = 2
  NoKey = NoKey
  NoTx = NoTx
  OneShots = {w1, w2}
  Beat = Beat
  Jobs = {j1}
  Prices = {1, 2}
  RepeatReports = TRUE
  MaxId = 3
  MaxTx = 3
  MaxBeats = 2
  MaxRestarts = 1
CHECK_DEADLOCK FALSE
INVARIANT NoDuplicateWrites
INVARIANT AtMostOneBroadcast
INVARIANT SubmittedWasSent
PROPERTY OneShotNeverRearmed
PROPERTY RetentionBounded
PROPERTY PendingKept
