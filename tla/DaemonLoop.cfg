SPECIFICATION Spec
CONSTANTS
  Cap = 256
  NoKey = NoKey
  NoTx = NoTx
  Job = Job
  Prices = {p1, p2}
  Beat = Beat
  Stakes = {1, 2}
  Scores = {94, 100}
  NotYet = NotYet
INVARIANT PausedNeverBidding
INVARIANT StopsWithinATick
INVARIANT LossIsAlerted
