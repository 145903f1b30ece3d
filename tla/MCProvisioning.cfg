SPECIFICATION FairSpec
CONSTANTS
  Jobs = {"j1", "j2"}
  Models = {"m1", "m2"}
  Cids = {"short", "long", "plain", "path"}
  ModelOf <- MCModelOf
  Posted <- MCPosted
  Sends <- MCSends
  Blocks = {"a", "b"}
  Allowed = {"short", "long", "plain"}
  Names <- MCNames
  Configured = NoDigest
  Resident = NoModel
  Registered0 <- MCRegistered
  MaxWeights = 2
  MaxResponse = 1
  MaxInput = 2
  NoLength = NoLength
  NoHash = NoHash
  NoDigest = NoDigest
  NoModel = NoModel
  NoFile = NoFile
  NoRun = NoRun
  Special = Special
  MaxFaults = 1
CHECK_DEADLOCK FALSE
INVARIANT VerifiedWeights
INVARIANT BodyBounded
INVARIANT RunIsBound
PROPERTY GoodWeightsKept
PROPERTY StepEnds
PROPERTY EventuallyRuns
