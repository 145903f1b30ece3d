SPECIFICATION MCSpec
CONSTANTS
  Inputs <- MCInputs
  Salt = 10
  MaxU64 = 1000000
  MaxU128 = 20000
  NodePflops = 60
  NoBid = NoBid
  Undecided = Undecided
  Base = 16
  Nibble = 4
  NotHex = NotHex
  WordLen = 5
  AddrLen = 4
  U128Len = 3
  UsizeLen = 2
  NotUtf8 = 15
  AbiError = AbiError
  NoHash = NoHash
  Revert = Revert
  CharBits = 2
  ByteBits = 3
  CharB = 1
  CharQ = 4
  CharM = 2
  Base58 = {0, 1, 2, 3, 4}
  Alphanumeric = {0, 1, 2, 3, 4, 5}
  V0Len = 5
  MaxLen = 9
  DigestLen = 1
  Raw = 5
  Sha256 = 2
  NotDecoded = NotDecoded
  Pending = Pending
  Answers <- MCAnswers
  JobAnswers <- MCJobAnswers
  ModelAnswers <- MCModelAnswers
  Calls <- MCCalls
  Proofs <- MCProofs
  Cids <- MCCids
  Bond = 5
  Challenges = 4
  LowRange = 8
  Seals <- MCSeals
  Posts <- MCPosts
  Unanswered = Unanswered
CHECK_DEADLOCK FALSE
INVARIANT NeverAtALoss
INVARIANT MeetsDeadline
INVARIANT BidIsProvable
INVARIANT FinishesInWindow
INVARIANT AnswersFaithful
INVARIANT CallsReadBack
INVARIANT CidsCanonical
INVARIANT AnswersOpenTheSeal
