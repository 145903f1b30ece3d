------------------------------ MODULE AbiCodec ------------------------------
(***************************************************************************)
(* The ABI data the agent exchanges with the contracts: chainio's Decoder, *)
(* return decoders and calldata builders (crates/chainio/src/abi.rs,       *)
(* marketplace.rs, model_registry.rs, verifier.rs, accounting.rs,          *)
(* pinning.rs, selectors.rs).                                              *)
(*                                                                         *)
(* Data is a sequence of bytes, a word is WordLen of them.  The widths are *)
(* parameters, so that TLC can enumerate what the code handles at 32 bytes *)
(* of 256.  Which AbiError is returned is left out.  A hex string is the   *)
(* sequence of its digits, upper and lower case being one, and one without *)
(* its 0x is refused like any other that is not hex.  A selector is its    *)
(* signature's name: module ContractSide reads calldata by the types of    *)
(* that signature.  A hash is an injective value.                          *)
(***************************************************************************)
EXTENDS Integers, Sequences

CONSTANTS
  Base,      \* values of a byte, 256 in the code
  Nibble,    \* values of a hex digit, 16
  NotHex,    \* a character that is no hex digit
  WordLen,   \* bytes of a word, 32
  AddrLen,   \* of an address, 20
  U128Len,   \* of a u128, 16
  UsizeLen,  \* of a usize, 8
  NotUtf8,   \* a byte no UTF-8 string has
  AbiError,  \* what a decoder returns when it refuses
  NoHash     \* Job.input_hash is None

JobStateNames ==
  <<"Posted", "Bidding", "Assigned", "Executing", "Verifying", "Completed",
    "Expired", "Timeout", "Failed", "Disputed">>
TierNames == <<"Commitment", "ZKProof", "Tee">>
PinStatusNames == <<"None", "Active", "Done", "Slashed">>

\* An enum's discriminants are less than a byte's values.
ASSUME WidthAssumption ==
  /\ {Base, WordLen, AddrLen, U128Len, UsizeLen} \subseteq Nat \ {0}
  /\ Nibble \in Nat /\ Base = Nibble * Nibble /\ Base >= Len(JobStateNames)
  /\ NotHex \notin 0 .. Nibble - 1
  /\ WordLen >= AddrLen /\ WordLen >= U128Len /\ U128Len >= UsizeLen

Bytes == Seq(0 .. Base - 1)

\* An error is no value: Rust's Result keeps Err apart from Ok.
ASSUME ErrorAssumption ==
  /\ AbiError \notin Nat \cup BOOLEAN \cup Bytes
  /\ \A names \in {JobStateNames, TierNames, PinStatusNames} :
       \A i \in 1 .. Len(names) : names[i] # AbiError

Power[n \in Nat] == IF n = 0 THEN 1 ELSE Base * Power[n - 1]
MaxUsize == Power[UsizeLen] - 1

\* word_from_u128 (the builders' u256_word): big-endian, left-padded with zeros.
WordFromU128(n) == [i \in 1 .. WordLen |-> (n \div Power[WordLen - i]) % Base]

\* word_from_address
WordFromAddress(a) == [i \in 1 .. WordLen - AddrLen |-> 0] \o a

Zeros(n) == [i \in 1 .. n |-> 0]
Flat(words) ==
  LET flat[i \in 0 .. Len(words)] == IF i = 0 THEN <<>> ELSE flat[i - 1] \o words[i]
  IN flat[Len(words)]

-----------------------------------------------------------------------------
(* Decoding. *)

Number(w) ==
  LET value[i \in 0 .. Len(w)] == IF i = 0 THEN 0 ELSE Base * value[i - 1] + w[i]
  IN value[Len(w)]

\* All but the last n bytes of the word are zero.
Fits(w, n) == \A i \in 1 .. WordLen - n : w[i] = 0

Member(w, names) == Fits(w, 1) /\ w[WordLen] < Len(names)

\* What Decoder::u128, address, bool, u8_enum and the from_u8 accept.
Accepts(type, w) ==
  CASE type = "word" -> TRUE
    [] type = "u128" -> Fits(w, U128Len)
    [] type = "address" -> Fits(w, AddrLen)
    [] type = "bool" -> Fits(w, 1) /\ w[WordLen] \in {0, 1}
    [] type = "state" -> Member(w, JobStateNames)
    [] type = "tier" -> Member(w, TierNames)
    [] type = "status" -> Member(w, PinStatusNames)

\* What they return of a word they accept.
Value(type, w) ==
  CASE type = "word" -> w
    [] type = "u128" -> Number(SubSeq(w, WordLen - U128Len + 1, WordLen))
    [] type = "address" -> SubSeq(w, WordLen - AddrLen + 1, WordLen)
    [] type = "bool" -> w[WordLen] = 1
    [] type = "state" -> JobStateNames[w[WordLen] + 1]
    [] type = "tier" -> TierNames[w[WordLen] + 1]
    [] type = "status" -> PinStatusNames[w[WordLen] + 1]

\* Decoder::word, the i-th read from the left.
WordAt(data, i) == SubSeq(data, (i - 1) * WordLen + 1, i * WordLen)

\* A decoder reads its words from left to right and stops at the first it refuses;
\* data behind the last word is not looked at.
Decode(types, data) ==
  IF /\ Len(types) * WordLen <= Len(data)
     /\ \A i \in 1 .. Len(types) : Accepts(types[i], WordAt(data, i))
  THEN [i \in 1 .. Len(types) |-> Value(types[i], WordAt(data, i))]
  ELSE AbiError

\* hex_decode
HexDecode(digits) ==
  IF Len(digits) % 2 = 1 \/ \E i \in 1 .. Len(digits) : digits[i] = NotHex
  THEN AbiError
  ELSE [i \in 1 .. Len(digits) \div 2 |-> Nibble * digits[2 * i - 1] + digits[2 * i]]

\* hex_encode
HexEncode(bytes) ==
  [i \in 1 .. 2 * Len(bytes) |->
     IF i % 2 = 1 THEN bytes[(i + 1) \div 2] \div Nibble ELSE bytes[i \div 2] % Nibble]

\* RpcClient::eth_call and a decoder of what it returns.
EthCall(types, digits) ==
  LET data == HexDecode(digits)
  IN IF data = AbiError THEN AbiError ELSE Decode(types, data)

\* ProviderProfile: registered, stake, completed, failed, reputation, active, max.
ProfileTypes == <<"bool", "u128", "u128", "u128", "u128", "u128", "u128">>

\* Job::decode: the outer offset, id, requester, model, offset of inputHash, maximum
\* price, tier, state, provider, escrow, bid and execution deadline, creation, bids.
JobTypes ==
  <<"word", "u128", "address", "word", "word", "u128", "tier", "state", "address",
    "u128", "u128", "u128", "u128", "u128">>

\* getRecord: word 5 is commitmentSubmitted; read for the tier, only 3 words count.
CommittedTypes == <<"word", "word", "word", "word", "word", "bool">>
RecordTierTypes == <<"word", "word", "tier">>

\* getPin, getSlot and the Challenged event's data.
PinTypes == <<"status", "u128", "u128", "u128", "u128", "bool", "u128", "word">>
SlotTypes == <<"bool", "u128", "u128">>
ChallengedTypes == <<"word", "u128", "u128">>

\* word_usize, be_usize
IsUsize(w) == Fits(w, UsizeLen)

\* Mutant of InputHash: the length of the tail is not looked at.
AnyInputHash(data) ==
  LET lenAt == Number(WordAt(data, 1)) + Number(WordAt(data, 5))
      end == lenAt + 2 * WordLen
  IN IF /\ IsUsize(WordAt(data, 1)) /\ IsUsize(WordAt(data, 5))
        /\ end <= MaxUsize /\ end <= Len(data)
     THEN SubSeq(data, lenAt + WordLen + 1, end) ELSE NoHash

\* decode_input_hash: the tail the two offsets point at, when it is inside the data
\* and says that it is one word long.
InputHash(data) ==
  LET lenAt == Number(WordAt(data, 1)) + Number(WordAt(data, 5))
      end == lenAt + 2 * WordLen
      length == SubSeq(data, lenAt + 1, lenAt + WordLen)
  IN IF /\ IsUsize(WordAt(data, 1)) /\ IsUsize(WordAt(data, 5))
        /\ end <= MaxUsize /\ end <= Len(data)
        /\ IsUsize(length) /\ Number(length) = WordLen
     THEN SubSeq(data, lenAt + WordLen + 1, end) ELSE NoHash

\* Job::decode
DecodeJob(data) ==
  LET head == Decode(JobTypes, data)
  IN IF head = AbiError THEN AbiError ELSE [head |-> head, inputHash |-> InputHash(data)]

\* decode_get_model: the owner (word 0), the string that word 4 points at, and
\* isActive (word 7).
DecodeGetModel(data) ==
  LET offset == Number(WordAt(data, 5))
      length == SubSeq(data, offset + 1, offset + WordLen)
      start == offset + WordLen
      end == start + Number(length)
      cid == SubSeq(data, start + 1, end)
  IN IF /\ 8 * WordLen <= Len(data)
        /\ Accepts("address", WordAt(data, 1))
        /\ IsUsize(WordAt(data, 5)) /\ Accepts("bool", WordAt(data, 8))
        /\ start <= Len(data) /\ offset % WordLen = 0
        /\ IsUsize(length) /\ end <= MaxUsize /\ end <= Len(data)
        /\ \A i \in 1 .. Len(cid) : cid[i] # NotUtf8
     THEN [owner |-> Value("address", WordAt(data, 1)), cid |-> cid,
           active |-> Value("bool", WordAt(data, 8))]
     ELSE AbiError

-----------------------------------------------------------------------------
(* Calldata. *)

\* selectors.rs: the signatures the calls are selected by, by their argument types.
Signatures ==
  LET number == <<"uint256">>
      account == <<"address">>
      slot == <<"bytes32", "uint256">>
      pin == <<"address", "bytes32", "uint256">>
  IN [getProvider |-> account, getJob |-> number, getModel |-> <<"bytes32">>,
      claimable |-> account, claimRewards |-> <<>>, getRecord |-> number,
      commitmentBlock |-> number, resultVerifiedAt |-> number,
      disputeResolvedForProvider |-> number,
      registerProvider |-> <<"bytes32[]">>,
      bidOnJob |-> <<"uint256", "uint256", "uint256">>,
      assignBestBid |-> number, startExecution |-> number,
      submitCommitment |-> <<"uint256", "bytes32">>,
      submitResult |-> <<"uint256", "bytes", "bytes">>, completeJob |-> number,
      saltPerPflopHour |-> <<>>, isPriceStale |-> <<>>, heartbeat |-> <<>>,
      registerPinner |-> <<>>,
      sealCommit |-> <<"bytes32", "uint256", "bytes32", "uint256", "bytes32", "bytes32",
                       "bytes32", "bytes">>,
      challenge |-> slot,
      submitPoSt |-> <<"bytes32", "uint256", "bytes32", "bytes32", "uint256", "bytes">>,
      claim |-> slot, returnBond |-> slot, getPin |-> pin, getSlot |-> slot,
      owedOf |-> pin, registered |-> account, unallocatedSlotFunding |-> <<>>]

\* encode_call
EncodeCall(selector, args) == [selector |-> selector, data |-> Flat(args)]

\* encode_bytes_tail: the length, the bytes, zeros up to the next word.
Padding(n) == (WordLen - (n % WordLen)) % WordLen
BytesTail(bytes) == WordFromU128(Len(bytes)) \o bytes \o Zeros(Padding(Len(bytes)))

\* encode_get_job, encode_assign_best_bid, encode_start_execution, encode_complete_job
\* and the reads of a job's gates: one number.
EncodeJobCall(selector, job) == EncodeCall(selector, <<WordFromU128(job)>>)

\* getProvider, claimable, registered: one address.
EncodeAccountCall(selector, account) == EncodeCall(selector, <<WordFromAddress(account)>>)

EncodeGetModel(model) == EncodeCall("getModel", <<model>>)

EncodeBidOnJob(job, price, latency) ==
  EncodeCall("bidOnJob", <<WordFromU128(job), WordFromU128(price), WordFromU128(latency)>>)

EncodeSubmitCommitment(job, commitment) ==
  EncodeCall("submitCommitment", <<WordFromU128(job), commitment>>)

\* Mutant of EncodeSubmitResult: the second offset forgets the padding of the first tail.
EncodeSubmitResultUnpadded(job, output, proof) ==
  EncodeCall("submitResult",
    <<WordFromU128(job), WordFromU128(3 * WordLen),
      WordFromU128(4 * WordLen + Len(output)), BytesTail(output), BytesTail(proof)>>)

\* encode_submit_result: two dynamic arguments, their offsets in the head.
EncodeSubmitResult(job, output, proof) ==
  LET head == 3 * WordLen
  IN EncodeCall("submitResult",
       <<WordFromU128(job), WordFromU128(head),
         WordFromU128(head + Len(BytesTail(output))), BytesTail(output), BytesTail(proof)>>)

\* encode_register_provider
EncodeRegisterProvider(models) ==
  EncodeCall("registerProvider",
    <<WordFromU128(WordLen), WordFromU128(Len(models))>> \o models)

\* encode_get_pin, encode_owed_of
EncodePinRead(selector, pinner, cid, sector) ==
  EncodeCall(selector, <<WordFromAddress(pinner), cid, WordFromU128(sector)>>)

\* encode_get_slot, encode_challenge, encode_claim, encode_return_bond
EncodeSlotCall(selector, cid, sector) == EncodeCall(selector, <<cid, WordFromU128(sector)>>)

\* encode_seal_commit: seven words, the offset of the proof, the proof.
EncodeSealCommit(cid, sector, replica, epoch, commD, commR, commC, proof) ==
  EncodeCall("sealCommit",
    <<cid, WordFromU128(sector), replica, WordFromU128(epoch), commD, commR, commC,
      WordFromU128(8 * WordLen), BytesTail(proof)>>)

\* encode_submit_post
EncodeSubmitPost(cid, sector, commR, commC, nonce, proof) ==
  EncodeCall("submitPoSt",
    <<cid, WordFromU128(sector), commR, commC, nonce, WordFromU128(6 * WordLen),
      BytesTail(proof)>>)

-----------------------------------------------------------------------------
(* CommitmentProver (executor/src/proof.rs). *)

\* The hash of the output and, behind it, the nonce, which is one word long.
Commitment(output, nonce) == [keccak |-> output \o nonce]

\* commitment, nonce, output; the commitment's 32 bytes are one element here.
ProofData(output, nonce) == <<Commitment(output, nonce)>> \o nonce \o output
=============================================================================
