---------------------------- MODULE ContractSide ----------------------------
(***************************************************************************)
(* The other end of module AbiCodec: what a contract reads from calldata   *)
(* and what it returns, by the rules of the Solidity ABI.  External to the *)
(* repository.                                                             *)
(***************************************************************************)
EXTENDS AbiCodec

CONSTANT Revert  \* the contract cannot read the calldata

ASSUME RevertAssumption == Revert \notin Bytes

\* A length-prefixed run of units at offset: bytes, or the words of an array.
DynamicTail(data, offset, unit) ==
  LET start == offset + WordLen
      end == start + unit * Number(SubSeq(data, offset + 1, start))
  IN IF start <= Len(data) /\ end <= Len(data) THEN SubSeq(data, start + 1, end) ELSE Revert

Words(bytes) ==
  IF bytes = Revert THEN Revert
  ELSE [i \in 1 .. Len(bytes) \div WordLen |-> WordAt(bytes, i)]

Argument(type, data, i) ==
  LET w == WordAt(data, i)
  IN CASE type = "uint256" -> Number(w)
       [] type = "bytes32" -> w
       [] type = "address" ->
            IF Fits(w, AddrLen) THEN SubSeq(w, WordLen - AddrLen + 1, WordLen) ELSE Revert
       [] type = "bytes" -> DynamicTail(data, Number(w), 1)
       [] type = "bytes32[]" -> Words(DynamicTail(data, Number(w), WordLen))

\* The arguments of a call, by its signature.
ReadCall(call) ==
  LET types == Signatures[call.selector]
  IN IF Len(types) * WordLen > Len(call.data) THEN Revert
     ELSE [i \in 1 .. Len(types) |-> Argument(types[i], call.data, i)]

\* ComputeVerifier's _verifyCommitment: the proof is cut after the commitment and
\* after the nonce.
VerifyCommitment(stored, proof) ==
  /\ Len(proof) >= 1 + WordLen
  /\ LET nonce == SubSeq(proof, 2, 1 + WordLen)
         output == SubSeq(proof, 2 + WordLen, Len(proof))
     IN proof[1] = stored /\ [keccak |-> output \o nonce] = stored

\* Returned static values, given as numbers.
ReturnWords(numbers) == Flat([i \in 1 .. Len(numbers) |-> WordFromU128(numbers[i])])

\* A returned tuple whose words at the positions in "at" are the offsets of the
\* given dynamic values; origin is where the offsets count from.
ReturnTuple(head, at, tails, origin) ==
  LET before[k \in 0 .. Len(tails)] ==
        IF k = 0 THEN 0 ELSE before[k - 1] + Len(BytesTail(tails[k]))
      Offset(k) == Len(head) * WordLen - origin + before[k - 1]
      words == [i \in 1 .. Len(head) |->
                  IF \E k \in 1 .. Len(at) : at[k] = i
                  THEN WordFromU128(Offset(CHOOSE k \in 1 .. Len(at) : at[k] = i))
                  ELSE head[i]]
  IN Flat(words) \o Flat([k \in 1 .. Len(tails) |-> BytesTail(tails[k])])
=============================================================================
