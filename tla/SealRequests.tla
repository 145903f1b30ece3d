---------------------------- MODULE SealRequests ----------------------------
(***************************************************************************)
(* From a replica's bytes to the two writes that need the prover:          *)
(* seal_inputs and nonce_to_index (pinning/src/runloop.rs), the sidecar    *)
(* process (pinning/src/sidecar.rs) and the request builders               *)
(* (pinning/src/lib.rs).  Module Pinning says when they are made.          *)
(*                                                                         *)
(* keccak and the circuit's commitments are injective: a digest is the     *)
(* tuple it was taken of.  What may be missing is a set of at most one     *)
(* value.  A request is the arguments its calldata is built from (modules  *)
(* AbiCodec and ChainData).                                                *)
(***************************************************************************)
EXTENDS Integers

CONSTANTS
  Bond,       \* BOND
  Challenges, \* CHALLENGE_N
  LowRange,   \* values of a nonce's low eight bytes, 2^64
  Seals,      \* [me, cid, sector, replica, reply]: a seal that is asked for
  Posts,      \* the same with post, nonce and deadline: a challenge to answer
  Unanswered  \* the outcome before it is computed

\* challenge_n is a u64; the contract stores a nonce modulo CHALLENGE_N; a replica is
\* one value or none.
ASSUME SealAssumption ==
  /\ Bond \in Nat /\ LowRange \in Nat /\ Challenges \in 1 .. LowRange - 1
  /\ \A t \in Seals \cup Posts : \A bytes, other \in t.replica : bytes = other
  /\ \A t \in Posts : t.nonce \in 0 .. Challenges - 1

VARIABLES seal, post, requests

sealVars == <<seal, post, requests>>

(* ------------------------------- inputs -------------------------------- *)

\* Inputs derived from the public names only, whatever is stored.
SealInputsOfNames(t) ==
  {[pinner |-> t.me, cid |-> t.cid, sector |-> t.sector,
    epoch |-> <<"PIN-epoch", t.cid, t.sector>>,
    data |-> [i \in 0 .. 3 |-> <<t.cid, t.sector, i>>]] : bytes \in t.replica}

\* No bytes, no inputs; otherwise every element depends on the bytes.
SealInputs(t) ==
  {[pinner |-> t.me, cid |-> t.cid, sector |-> t.sector,
    epoch |-> <<"PIN-epoch", t.cid, t.sector>>,
    data |-> [i \in 0 .. 3 |-> <<t.cid, t.sector, i, bytes>>]] : bytes \in t.replica}

\* The low 64 bits of the committed nonce, cut to the circuit's size.
NonceToIndex(nonce) ==
  IF Challenges = 0 THEN 0 ELSE (nonce % LowRange) % Challenges

(* ------------------------------- sidecar ------------------------------- *)

\* What ends a call: it is not spawned, does not take its request, has not answered
\* when the timeout kills it, exits badly, or has no line of JSON that says ok.
CallFlaws == {"spawn", "stdin", "timeout", "exit_status", "no_line", "not_json", "not_ok"}

\* How a call may go.  no_root: one of the roots is missing or not 32 bytes of hex.
\* no_proof: the proof is missing or not hex.  cut_proof: the proof is hex, but not
\* all of it, or none.
Replies == CallFlaws \cup {"no_root", "no_proof", "cut_proof", "whole"}

\* The prover (external): its artifacts are a function of the request.
Prover(op, inputs, index, whole) ==
  [op |-> op, of |-> inputs, index |-> index, whole |-> whole]

\* SidecarSealer::call and request_json.
Call(op, inputs, index, reply) ==
  {Prover(op, i, index, reply # "cut_proof") : i \in {j \in inputs : reply \notin CallFlaws}}

\* seal reads four roots (field_bytes32) and a proof of any length (field_proof).
SealArtifacts(t) ==
  {a \in Call("seal", SealInputs(t), 0, t.reply) : t.reply \notin {"no_root", "no_proof"}}

\* prove_post reads the proof alone.
PostProofs(t) ==
  {p \in Call("prove_post", SealInputs(t), NonceToIndex(t.nonce), t.post) :
     t.post # "no_proof"}

(* ------------------------------- requests ------------------------------ *)

SealCommitRequest(t) ==
  {[intent |-> "sealCommit", cid |-> t.cid, sector |-> t.sector,
    replicaId |-> <<a.of.pinner, a.of.cid, a.of.sector>>,
    epoch |-> a.of.epoch,
    roots |-> a.of, proof |-> a, value |-> Bond, expires |-> 0] :
     a \in SealArtifacts(t)}

\* The artifacts are not kept: the replica is sealed again, then proved.
SubmitPostRequest(t) ==
  {[intent |-> "submitPoSt", cid |-> t.cid, sector |-> t.sector,
    roots |-> a.of, nonce |-> t.nonce, proof |-> p, value |-> 0,
    expires |-> t.deadline] :
     a \in SealArtifacts(t), p \in PostProofs(t)}

SealInit ==
  /\ seal \in Seals /\ post \in Posts
  /\ requests = Unanswered

SealStep ==
  /\ requests = Unanswered
  /\ requests' = [commit |-> SealCommitRequest(seal), answer |-> SubmitPostRequest(post)]
  /\ UNCHANGED <<seal, post>>

SealSpec == SealInit /\ [][SealStep]_sealVars

(* ------------------------------ properties ----------------------------- *)

\* What the contract checks (external): the commitment's proof, the answer's roots
\* against those committed for the slot, and its proof against these roots and the
\* challenged node.
Verifies(commit, answer) ==
  /\ commit.proof = Prover("seal", commit.roots, 0, TRUE)
  /\ commit.cid = answer.cid /\ commit.sector = answer.sector
  /\ commit.roots = answer.roots
  /\ answer.proof = Prover("prove_post", commit.roots, answer.nonce, TRUE)

\* An answer to a challenge is built ticks or restarts after the seal, with nothing
\* kept from it.  A commitment and an answer verify together exactly when both are
\* of the same node, slot and bytes and neither proof was cut: the agent passes a
\* proof on at any length, and does not need the second seal's.  A sidecar that
\* answers gets its request made, and no bond is put, nor challenge answered, without
\* the bytes (NA-B-002: "never bond a proof of nothing").
AnswersOpenTheSeal ==
  requests # Unanswered =>
    /\ requests.commit # {} => seal.replica # {}
    /\ requests.answer # {} => post.replica # {}
    /\ seal.replica # {} /\ seal.reply = "whole" => requests.commit # {}
    /\ post.replica # {} /\ post.reply = "whole" /\ post.post = "whole"
         => requests.answer # {}
    /\ \A c \in requests.commit, a \in requests.answer :
         Verifies(c, a) <=>
           /\ seal.me = post.me /\ seal.replica = post.replica
           /\ seal.cid = post.cid /\ seal.sector = post.sector
           /\ seal.reply # "cut_proof" /\ post.post # "cut_proof"
=============================================================================
