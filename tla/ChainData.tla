----------------------------- MODULE ChainData ------------------------------
(***************************************************************************)
(* One piece of data on its way between a contract and the agent: what the *)
(* contract returns is decoded, what the agent builds is read by the       *)
(* contract, and a CID is checked.                                         *)
(*                                                                         *)
(* A probe is one such piece.  The bytes of an answer may end early: RPC   *)
(* endpoints answer in good faith, but not always completely.              *)
(***************************************************************************)
EXTENDS ContractSide, ContentId

CONSTANTS
  Answers,   \* [types, numbers, cut, bad]: static values, the hex digits that
             \* arrive, and one that is none (0: all are)
  JobAnswers,\* [numbers, hash, gap, cut]: getJob's head, inputHash, words between
  ModelAnswers, \* [owner, cid, name, active, cut]
  Calls,     \* [selector, args]
  Proofs,    \* [output, nonce, of]: a proof, and the output and nonce committed to
  Cids,      \* strings of characters
  Pending    \* the outcome before it is computed

Uint256 == 0 .. Power[WordLen] - 1
Bytes32 == {b \in Bytes : Len(b) = WordLen}

\* What an answer's words are read as, and the values a contract returns in them.
ASSUME AnswerAssumption ==
  \A a \in Answers :
    /\ a.types \in Seq({"word", "u128", "address", "bool", "state", "tier", "status"})
    /\ a.numbers \in Seq(Uint256) /\ Len(a.numbers) = Len(a.types)
    /\ a.cut \in Nat /\ a.bad \in Nat

\* A nonce is one word; outputs have any length.
ASSUME ProofAssumption ==
  Proofs \subseteq [output : Bytes, nonce : Bytes32, of : [output : Bytes, nonce : Bytes32]]

ASSUME StringAssumption == Cids \subseteq Seq(Nat)

VARIABLES probe, outcome

dataVars == <<probe, outcome>>

Cut(data, n) == SubSeq(data, 1, IF n < Len(data) THEN n ELSE Len(data))

\* getJob's answer: an offset, and the tuple with its dynamic inputHash (the 4th).
\* The contract's struct may have more static words than the agent reads.
WholeJobAnswer(a) ==
  LET words == [i \in 1 .. Len(a.numbers) |-> WordFromU128(a.numbers[i])]
                 \o [i \in 1 .. a.gap |-> WordFromU128(1)]
      tuple == ReturnTuple(words, <<4>>, <<a.hash>>, 0)
  IN WordFromU128(WordLen) \o tuple
JobAnswer(a) == Cut(WholeJobAnswer(a), a.cut)

\* getModel's answer: four strings of which ipfsCID is the last.
WholeModelAnswer(a) ==
  LET zero == WordFromU128(0)
      head == <<WordFromU128(a.owner), zero, zero, zero, zero, zero, zero,
                WordFromU128(a.active)>>
  IN ReturnTuple(head, <<2, 3, 4, 5>>, <<a.name, a.name, a.name, a.cid>>, 0)
ModelAnswer(a) == Cut(WholeModelAnswer(a), a.cut)

\* What arrives fits a Vec.  What decodes is no error.
ASSUME JobAssumption ==
  \A a \in JobAnswers :
    /\ a.numbers \in Seq(Uint256) /\ Len(a.numbers) = Len(JobTypes) - 1
    /\ a.hash \in Bytes /\ a.gap \in Nat /\ a.cut \in Nat
    /\ Len(WholeJobAnswer(a)) <= MaxUsize
    /\ Decode(JobTypes, JobAnswer(a)) # AbiError => DecodeJob(JobAnswer(a)) # AbiError

ASSUME ModelAssumption ==
  \A a \in ModelAnswers :
    /\ a.owner \in Uint256 /\ a.active \in Uint256
    /\ a.cid \in Bytes /\ a.name \in Bytes /\ a.cut \in Nat
    /\ Len(WholeModelAnswer(a)) <= MaxUsize

\* The calldata the agent builds for a call.
Build(selector, a) ==
  CASE selector \in {"getJob", "assignBestBid", "startExecution", "completeJob",
                     "getRecord", "commitmentBlock", "resultVerifiedAt",
                     "disputeResolvedForProvider"} -> EncodeJobCall(selector, a[1])
    [] selector \in {"getProvider", "claimable", "registered"} ->
         EncodeAccountCall(selector, a[1])
    [] selector \in {"claimRewards", "heartbeat", "saltPerPflopHour", "isPriceStale",
                     "registerPinner", "unallocatedSlotFunding"} -> EncodeCall(selector, <<>>)
    [] selector = "getModel" -> EncodeGetModel(a[1])
    [] selector = "bidOnJob" -> EncodeBidOnJob(a[1], a[2], a[3])
    [] selector = "submitCommitment" -> EncodeSubmitCommitment(a[1], a[2])
    [] selector = "submitResult" -> EncodeSubmitResult(a[1], a[2], a[3])
    [] selector = "registerProvider" -> EncodeRegisterProvider(a[1])
    [] selector \in {"getPin", "owedOf"} -> EncodePinRead(selector, a[1], a[2], a[3])
    [] selector \in {"getSlot", "challenge", "claim", "returnBond"} ->
         EncodeSlotCall(selector, a[1], a[2])
    [] selector = "sealCommit" ->
         EncodeSealCommit(a[1], a[2], a[3], a[4], a[5], a[6], a[7], a[8])
    [] selector = "submitPoSt" -> EncodeSubmitPost(a[1], a[2], a[3], a[4], WordFromU128(a[5]), a[6])

ArgumentsOf(type) ==
  CASE type = "uint256" -> Uint256
    [] type = "bytes32" -> Bytes32
    [] type = "address" -> {a \in Bytes : Len(a) = AddrLen}
    [] type = "bytes" -> Bytes
    [] type = "bytes32[]" -> Seq(Bytes32)

\* A call has arguments of its signature's types, and calldata is a Vec: its length is
\* a usize.
ASSUME CallAssumption ==
  \A c \in Calls :
    /\ c.selector \in DOMAIN Signatures
    /\ LET types == Signatures[c.selector]
       IN /\ c.args = [i \in 1 .. Len(types) |-> c.args[i]]
          /\ \A i \in 1 .. Len(types) : c.args[i] \in ArgumentsOf(types[i])
    /\ Len(Build(c.selector, c.args).data) <= MaxUsize

\* The hex string of an answer.
AnswerDigits(a) ==
  LET digits == Cut(HexEncode(ReturnWords(a.numbers)), a.cut)
  IN [i \in 1 .. Len(digits) |-> IF i = a.bad THEN NotHex ELSE digits[i]]

\* eth_call_params: calldata travels as hex.
Transmitted(call) == [call EXCEPT !.data = HexDecode(HexEncode(@))]

\* What is done with a probe.
Handle(p) ==
  CASE p.kind = "answer" -> EthCall(p.of.types, AnswerDigits(p.of))
    [] p.kind = "job" -> DecodeJob(JobAnswer(p.of))
    [] p.kind = "model" -> DecodeGetModel(ModelAnswer(p.of))
    [] p.kind = "call" -> ReadCall(Transmitted(Build(p.of.selector, p.of.args)))
    [] p.kind = "proof" ->
         VerifyCommitment(Commitment(p.of.of.output, p.of.of.nonce),
                          ProofData(p.of.output, p.of.nonce))
    [] p.kind = "cid" -> [allowed |-> CidAllowed(p.of), sha256 |-> EmbeddedSha256(p.of)]

DataInit ==
  /\ outcome = Pending
  /\ \/ \E a \in Answers : probe = [kind |-> "answer", of |-> a]
     \/ \E a \in JobAnswers : probe = [kind |-> "job", of |-> a]
     \/ \E a \in ModelAnswers : probe = [kind |-> "model", of |-> a]
     \/ \E c \in Calls : probe = [kind |-> "call", of |-> c]
     \/ \E w \in Proofs : probe = [kind |-> "proof", of |-> w]
     \/ \E c \in Cids : probe = [kind |-> "cid", of |-> c]

DataStep ==
  /\ outcome = Pending
  /\ outcome' = Handle(probe)
  /\ UNCHANGED probe

DataSpec == DataInit /\ [][DataStep]_dataVars

-----------------------------------------------------------------------------
(* Properties. *)

Done(kind) == outcome # Pending /\ probe.kind = kind

\* The value a contract means by a number, or AbiError when the agent has no room
\* or no name for it.
Meant(type, n) ==
  CASE type = "word" -> WordFromU128(n)
    [] type = "u128" -> IF n < Power[U128Len] THEN n ELSE AbiError
    [] type = "address" ->
         IF n < Power[AddrLen]
         THEN SubSeq(WordFromU128(n), WordLen - AddrLen + 1, WordLen) ELSE AbiError
    [] type = "bool" -> IF n <= 1 THEN n = 1 ELSE AbiError
    [] type = "state" -> IF n < 10 THEN JobStateNames[n + 1] ELSE AbiError
    [] type = "tier" -> IF n < 3 THEN TierNames[n + 1] ELSE AbiError
    [] type = "status" -> IF n < 4 THEN PinStatusNames[n + 1] ELSE AbiError

\* A decoded head is what the contract returned, value by value; it is refused
\* exactly when its bytes end early or a value has no representation.
Faithful(types, numbers, complete, decoded) ==
  IF complete /\ \A i \in 1 .. Len(types) : Meant(types[i], numbers[i]) # AbiError
  THEN decoded = [i \in 1 .. Len(types) |-> Meant(types[i], numbers[i])]
  ELSE decoded = AbiError

\* getProvider, getRecord, getPin, getSlot, the oracle and the balances: no number is
\* cut to fewer bits and no answer that ends early is taken for a shorter one.
StaticFaithful ==
  Done("answer") =>
    LET digits == 2 * WordLen * Len(probe.of.types)
        complete == /\ probe.of.cut >= digits
                    /\ probe.of.bad \notin 1 .. digits
    IN Faithful(probe.of.types, probe.of.numbers, complete, outcome)

\* getJob: the same for the head, whose offsets are words like any other; and an
\* inputHash is only ever the one the requester posted, given exactly when it is one
\* word long and arrived as a whole (PBA-L6b-021: the executor binds its input to it).
JobFaithful ==
  Done("job") =>
    LET a == probe.of
        numbers == <<WordLen, a.numbers[1], a.numbers[2], a.numbers[3],
                     (Len(a.numbers) + a.gap) * WordLen>>
                     \o SubSeq(a.numbers, 5, Len(a.numbers))
        size == (1 + Len(a.numbers) + a.gap) * WordLen + WordLen + Len(a.hash)
    IN /\ Faithful(JobTypes, numbers, a.cut >= Len(JobTypes) * WordLen,
                   IF outcome = AbiError THEN AbiError ELSE outcome.head)
       /\ outcome # AbiError =>
            outcome.inputHash =
              IF Len(a.hash) = WordLen /\ a.cut >= size THEN a.hash ELSE NoHash

\* getModel: owner, CID and activity are the registered ones or the answer is refused;
\* strings of any length in front of the CID do not shift it.
ModelFaithful ==
  Done("model") =>
    LET a == probe.of
        good == /\ a.owner < Power[AddrLen] /\ a.active <= 1
                /\ \A i \in 1 .. Len(a.cid) : a.cid[i] # NotUtf8
        size == 8 * WordLen + 3 * Len(BytesTail(a.name)) + WordLen + Len(a.cid)
    IN IF good /\ a.cut >= size
       THEN outcome = [owner |-> Meant("address", a.owner), cid |-> a.cid,
                       active |-> a.active = 1]
       ELSE outcome = AbiError

\* What the agent believes of the chain is what the contracts returned.
AnswersFaithful == StaticFaithful /\ JobFaithful /\ ModelFaithful

\* Every call the agent builds is read by the contract, by the types of the signature
\* its selector names, as the arguments it was built from: proofs and hashes of every
\* length around a word included.
ArgumentsReadBack == Done("call") => outcome = probe.of.args

\* The proof that submitResult carries opens the commitment to its own output and
\* nonce and no other, whatever their lengths: what module JobExecution takes for
\* granted of a commitment.
ProofsOpen ==
  Done("proof") =>
    (outcome <=> probe.of.of = [output |-> probe.of.output, nonce |-> probe.of.nonce])

\* What the contracts read is what the agent meant.
CallsReadBack == ArgumentsReadBack /\ ProofsOpen

\* An accepted CID is one path segment of a gateway's URL and the only spelling of its
\* bytes; the digest taken from it is the one it was encoded from.
CidsCanonical ==
  Done("cid") =>
    /\ outcome.allowed =>
         /\ \A i \in 1 .. Len(probe.of) : probe.of[i] \in Alphanumeric
         /\ probe.of[1] = CharB => probe.of = CidOf(Payload(probe.of))
    /\ outcome.sha256 # NotDecoded =>
         probe.of = CidOf(<<1, Raw, Sha256, DigestLen>> \o outcome.sha256)
=============================================================================
