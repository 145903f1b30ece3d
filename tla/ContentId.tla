----------------------------- MODULE ContentId ------------------------------
(***************************************************************************)
(* Content identifiers: which ipfsCID the agent accepts and which digest   *)
(* one commits to (validate_cid, base32_lower_decode, cid_embedded_sha256  *)
(* of crates/executor/src/models.rs, validate_cid of node-agent's          *)
(* execution.rs).                                                          *)
(*                                                                         *)
(* A character is a number: 0 .. 2^CharBits - 1 are the base32 letters, in *)
(* the order of their values.  The widths of a letter and of a byte are    *)
(* parameters, 5 and 8 in the code.                                        *)
(***************************************************************************)
EXTENDS Integers, Sequences

CONSTANTS
  CharBits, ByteBits,
  CharB, CharQ, CharM,   \* the characters 'b', 'Q' and 'm'
  Base58, Alphanumeric,  \* the characters of base58btc; all that are alphanumeric
  V0Len, MaxLen,         \* 46 and 256
  DigestLen,             \* bytes of a sha-256, 32
  Raw, Sha256,           \* the multicodec bytes 0x55 and 0x12
  NotDecoded             \* None

ASSUME CidAssumption ==
  /\ {CharBits, ByteBits, V0Len, MaxLen, DigestLen} \subseteq Nat
  /\ 0 < CharBits /\ CharBits < ByteBits /\ V0Len <= MaxLen
  /\ CharB # CharQ

TwoTo[n \in Nat] == IF n = 0 THEN 1 ELSE 2 * TwoTo[n - 1]

\* Bit k of the numbers in s, each of them width bits, the highest first.
Bit(s, width, k) == (s[k \div width + 1] \div TwoTo[width - 1 - (k % width)]) % 2

\* The number that bits, the highest first, make up.
FromBits(bits) ==
  LET value[j \in 0 .. Len(bits)] == IF j = 0 THEN 0 ELSE 2 * value[j - 1] + bits[j]
  IN value[Len(bits)]

\* The first n numbers of the given width in the bits of s, zeros behind its end.
Regroup(s, from, width, n) ==
  LET bit(k) == IF k < Len(s) * from THEN Bit(s, from, k) ELSE 0
  IN [i \in 1 .. n |-> FromBits([j \in 1 .. width |-> bit((i - 1) * width + j - 1)])]

\* Mutant of Base32Decode: what is left over is not looked at.
Base32DecodeLoosely(s) ==
  IF \E i \in 1 .. Len(s) : s[i] >= TwoTo[CharBits] THEN NotDecoded
  ELSE Regroup(s, CharBits, ByteBits, (Len(s) * CharBits) \div ByteBits)

\* base32_lower_decode: the bits that are left over are fewer than a letter's, and
\* zero.
Base32Decode(s) ==
  LET bits == Len(s) * CharBits
      left == bits % ByteBits
  IN IF \/ \E i \in 1 .. Len(s) : s[i] >= TwoTo[CharBits]
        \/ left >= CharBits
        \/ \E k \in bits - left .. bits - 1 : Bit(s, CharBits, k) = 1
     THEN NotDecoded
     ELSE Regroup(s, CharBits, ByteBits, bits \div ByteBits)

\* The bytes behind the multibase prefix 'b'.
Payload(cid) ==
  IF cid # <<>> /\ cid[1] = CharB THEN Base32Decode(SubSeq(cid, 2, Len(cid))) ELSE NotDecoded

\* executor::models::validate_cid
ValidCid(cid) ==
  LET payload == Payload(cid)
  IN \/ /\ Len(cid) = V0Len /\ cid[1] = CharQ /\ cid[2] = CharM
        /\ \A i \in 1 .. V0Len : cid[i] \in Base58
     \/ payload # NotDecoded /\ Len(payload) >= 4 /\ payload[1] = 1

\* execution.rs validate_cid: in front of it, bounds on the length and the charset.
\* (The prefixes it allows include every one ValidCid does.)
CidAllowed(cid) ==
  /\ Len(cid) \in V0Len .. MaxLen
  /\ \A i \in 1 .. Len(cid) : cid[i] \in Alphanumeric
  /\ ValidCid(cid)

\* cid_embedded_sha256: only a raw sha2-256 CIDv1 names the digest of the bytes.
EmbeddedSha256(cid) ==
  LET payload == Payload(cid)
  IN IF /\ payload # NotDecoded /\ Len(payload) = 4 + DigestLen
        /\ SubSeq(payload, 1, 4) = <<1, Raw, Sha256, DigestLen>>
     THEN SubSeq(payload, 5, Len(payload)) ELSE NotDecoded

-----------------------------------------------------------------------------
(* The encoding a registrant is meant to use (external): reference for the  *)
(* properties.                                                              *)

Base32Encode(bytes) ==
  Regroup(bytes, ByteBits, CharBits, (Len(bytes) * ByteBits + CharBits - 1) \div CharBits)

CidOf(bytes) == <<CharB>> \o Base32Encode(bytes)
=============================================================================
