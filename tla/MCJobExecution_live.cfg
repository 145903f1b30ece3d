SPECIFICATION LiveSpec
CONSTANTS
  Cap = 256
  NoKey = NoKey
  NoTx = NoTx
  NoArt = NoArt
  NoNonce = NoNonce
  Torn = Torn
  Nonces = {n1}
  Outputs = {o1}
  Deadline = 2
  Window = 1
  MaxBlock = 4
  FaultModels <- NoFaults
CHECK_DEADLOCK FALSE
PROPERTY SlotReleased
PROPERTY VerifiedIsPaid
