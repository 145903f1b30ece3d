SPECIFICATION Spec
CONSTANTS
  Cap = 256
  NoKey = NoKey
  NoTx = NoTx
  NoArt = NoArt
  NoNonce = NoNonce
  Torn = Torn
  Nonces = {n1, n2}
  Outputs = {o1, o2}
  Deadline = 4
  Window = 2
  MaxBlock = 5
  FaultModels <- PowerLossAndSyncFails
SYMMETRY Symmetry
CHECK_DEADLOCK FALSE
INVARIANT RevealOpensCommitment
