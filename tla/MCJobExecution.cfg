SPECIFICATION Spec
CONSTANTS
  Cap = 256
  NoKey = NoKey
  NoTx = NoTx
  NoArt = NoArt
  NoNonce = NoNonce
  Torn = Torn
  Nonces = {n1, n2}
  Outputs = {o1, o2}
  Deadline = 3
  Window = 2
  MaxBlock = 5
  FaultModels <- CrashOrPowerLoss
SYMMETRY Symmetry
CHECK_DEADLOCK FALSE
INVARIANT TypeOK
INVARIANT OneCommitment
INVARIANT RevealOpensCommitment
INVARIANT RevealAfterCommitBlock
INVARIANT CompletionIsDue
PROPERTY CommittedFilesKept
PROPERTY CommitThenReveal
