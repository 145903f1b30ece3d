------------------------ MODULE Provisioning_proofs -------------------------
(* Proofs about module Provisioning, for any jobs, models, CIDs and caps, and  *)
(* any number of faults: types, bounded bodies, verified weights, bound runs.  *)
EXTENDS Provisioning, TLAPS

\* What the others do to the world leaves the step alone, and the other way round.
LEMMA NextCases ==
  ASSUME Next
  PROVE  \/ Daemon /\ UNCHANGED world
         \/ StoreFails /\ UNCHANGED world
         \/ Peer /\ UNCHANGED world
         \/ \E j \in Jobs : Deliver(j)
         \/ \E m \in Models : Update(m) \/ Evict(m) \/ Corrupt(m)
         \/ Crash
         \/ Settle
BY DEF Next, World

-----------------------------------------------------------------------------
(* Types. *)

Exchanges ==
  [phase : {"quiet", "sent", "streaming", "complete", "failed"},
   declared : Nat \cup {NoLength}, body : Seq(Blocks)]

\* A quiet and a fresh exchange are exchanges, and what follows one is one.
LEMMA ExchangeType ==
  /\ Quiet \in Exchanges /\ Sent \in Exchanges
  /\ \A x \in Exchanges :
       /\ Failed(x) \in Exchanges /\ Ended(x) \in Exchanges
       /\ \A status, max, d : d \in Nat \cup {NoLength} => Answered(x, status, d, max) \in Exchanges
       /\ \A max : \A block \in Blocks : Received(x, <<block>>, max) \in Exchanges
<1>1. Quiet \in Exchanges /\ Sent \in Exchanges
  BY DEF Quiet, Sent, Exchanges
<1>2. ASSUME NEW x \in Exchanges
      PROVE  Failed(x) \in Exchanges /\ Ended(x) \in Exchanges
  BY <1>2 DEF Failed, Ended, Exchanges
<1>3. ASSUME NEW x \in Exchanges, NEW status, NEW max, NEW d \in Nat \cup {NoLength}
      PROVE  Answered(x, status, d, max) \in Exchanges
  BY <1>3 DEF Answered, Failed, Exchanges
<1>4. ASSUME NEW x \in Exchanges, NEW block \in Blocks, NEW max
      PROVE  Received(x, <<block>>, max) \in Exchanges
  <2>1. x.body \o <<block>> \in Seq(Blocks)
    BY <1>4 DEF Exchanges
  <2>2. QED
    BY <1>4, <2>1 DEF Received, Failed, Exchanges
<1>5. QED
  BY <1>1, <1>2, <1>3, <1>4

\* The part of a sequence of blocks that has been written so far.
LEMMA PrefixType ==
  ASSUME NEW s \in Seq(Blocks), NEW n \in Nat, n < Len(s)
  PROVE  SubSeq(s, 1, n + 1) \in Seq(Blocks)
OBVIOUS

-----------------------------------------------------------------------------
(* The inductive invariant.  VerifiedWeights at "infer" rests on what was  *)
(* compared before the file was written; RunIsBound on what was compared   *)
(* before the weights were looked for.                                     *)

\* The file being written exists, and what is written to it has been verified.
Writing ==
  pc = "store" =>
    cache[Model] # NoFile /\ http.phase = "complete" /\ http.body = Commitment

\* From the comparison with Job.inputHash on, the step works on the posted input.
Bound ==
  pc \in {"provision", "fetch", "store", "infer"} =>
    ctx.input = Posted[job] /\ Len(ctx.input) <= MaxInput

\* The resident server is only asked for its own model.
Asked == pc = "infer" /\ http # Quiet => Resident \in {NoModel, Model}

Safe == VerifiedWeights /\ BodyBounded /\ RunIsBound /\ Writing /\ Bound /\ Asked
IInv == TypeOK /\ Safe

\* The invariant holds at first.
LEMMA InitInv == Init => IInv
<1>1. ASSUME Init PROVE IInv
  <2>1. http \in Exchanges
    BY <1>1, ExchangeType DEF Init
  <2>2. ctx \in Contexts
    BY <1>1, ProvisioningAssumption DEF Init, Contexts, Model
  <2>3. TypeOK
    <3>1. registered \in [Models -> [cid : Cids, active : BOOLEAN]]
      BY <1>1, ProvisioningAssumption DEF Init
    <3>2. /\ delivery \in [Jobs -> Seq(Blocks) \cup {NoFile, Special}]
          /\ cache \in [Models -> Seq(Blocks) \cup {NoFile}]
      BY <1>1 DEF Init
    <3>3. faults \in 0 .. MaxFaults
      BY <1>1, ProvisioningAssumption DEF Init
    <3>4. QED
      BY <1>1, <2>1, <2>2, <3>1, <3>2, <3>3 DEF Init, TypeOK, Exchanges
  <2>4. BodyBounded
    BY <1>1, ProvisioningAssumption DEF Init, BodyBounded, MaxBody, Quiet
  <2>5. QED
    BY <1>1, <2>3, <2>4 DEF Init, IInv, Safe, VerifiedWeights, RunIsBound, Writing, Bound, Asked
<1>2. QED
  BY <1>1

\* Every step keeps the types.
LEMMA TypeStep == IInv /\ [Next]_vars => TypeOK'
<1> SUFFICES ASSUME IInv, [Next]_vars PROVE TypeOK'
  OBVIOUS
<1> USE ProvisioningAssumption
<1>0. /\ TypeOK /\ Writing /\ Model \in Models
      /\ http \in Exchanges /\ Quiet \in Exchanges /\ Sent \in Exchanges
  BY ExchangeType DEF IInv, Safe, TypeOK, Exchanges, Model
<1>1. CASE Daemon /\ UNCHANGED world
  <2>1. pc' \in {"idle", "open", "read", "provision", "fetch", "store", "infer"}
    BY <1>0, <1>1 DEF Daemon, Resolve, OpenInput, ReadInput, Provision, Fetched, StoreBlock,
       Stored, Infer, Inferred, EndStep, step, TypeOK
  <2>2. http' \in Exchanges
    BY <1>0, <1>1 DEF Daemon, Resolve, OpenInput, ReadInput, Provision, Fetched, StoreBlock,
       Stored, Infer, Inferred, EndStep, step
  <2>3. ctx' \in Contexts
    <3>1. CASE Resolve
      BY <1>0, <3>1 DEF Resolve, Contexts, TypeOK
    <3>2. CASE ReadInput
      <4>1. delivery[job] = Posted[job] => delivery[job] \in Seq(Blocks)
        BY <1>0 DEF TypeOK
      <4>2. CASE ctx' = [ctx EXCEPT !.input = delivery[job]] /\ delivery[job] = Posted[job]
        BY <1>0, <4>1, <4>2 DEF Contexts, TypeOK
      <4>3. CASE ctx' = ctx
        BY <1>0, <4>3 DEF TypeOK
      <4>4. QED
        BY <3>2, <4>2, <4>3 DEF ReadInput, EndStep
    <3>3. CASE ~Resolve /\ ~ReadInput
      BY <1>0, <1>1, <3>3 DEF Daemon, OpenInput, Provision, Fetched, StoreBlock,
         Stored, Infer, Inferred, EndStep, step, TypeOK
    <3>4. QED
      BY <3>1, <3>2, <3>3
  <2>4. cache' \in [Models -> Seq(Blocks) \cup {NoFile}]
    <3>1. CASE StoreBlock
      <4>1. cache[Model] \in Seq(Blocks) /\ http.body \in Seq(Blocks)
        BY <1>0, <3>1 DEF StoreBlock, Writing, TypeOK
      <4>2. SubSeq(http.body, 1, Len(cache[Model]) + 1) \in Seq(Blocks)
        BY <3>1, <4>1, PrefixType DEF StoreBlock
      <4>3. QED
        BY <1>0, <3>1, <4>2 DEF StoreBlock, TypeOK
    <3>2. CASE Fetched
      <4>1. <<>> \in Seq(Blocks)
        OBVIOUS
      <4>2. cache' = cache \/ cache' = [cache EXCEPT ![Model] = <<>>]
        BY <3>2 DEF Fetched
      <4>3. QED
        BY <1>0, <4>1, <4>2 DEF TypeOK
    <3>3. CASE Provision
      BY <1>0, <3>3 DEF Provision, TypeOK
    <3>4. CASE ~StoreBlock /\ ~Fetched /\ ~Provision
      BY <1>0, <1>1, <3>4 DEF Daemon, Resolve, OpenInput, ReadInput, Stored, Infer, Inferred, TypeOK
    <3>5. QED
      BY <3>1, <3>2, <3>3, <3>4
  <2>5. QED
    BY <1>0, <1>1, <2>1, <2>2, <2>3, <2>4 DEF world, TypeOK, Exchanges
<1>2. CASE StoreFails /\ UNCHANGED world
  BY <1>0, <1>2 DEF StoreFails, EndStep, world, TypeOK, Exchanges
<1>3. CASE Peer /\ UNCHANGED world
  <2>1. http' \in Exchanges
    <3>1. CASE PeerAnswers
      <4>1. 0 .. MaxBody + 1 \subseteq Nat
        BY DEF MaxBody
      <4>2. PICK status \in Statuses, declared \in 0 .. MaxBody + 1 \cup {NoLength} :
              http' = Answered(http, status, declared, MaxBody)
        BY <3>1 DEF PeerAnswers
      <4>3. QED
        BY <1>0, <4>1, <4>2, ExchangeType
    <3>2. CASE PeerSends
      <4>1. RightBlocks \subseteq Blocks
        BY DEF RightBlocks
      <4>2. PICK block \in Blocks : http' = Received(http, <<block>>, MaxBody)
        BY <3>2, <4>1 DEF PeerSends
      <4>3. QED
        BY <1>0, <4>2, ExchangeType
    <3>3. CASE PeerCloses
      BY <1>0, <3>3, ExchangeType DEF PeerCloses
    <3>4. CASE Breaks
      BY <1>0, <3>4, ExchangeType DEF Breaks
    <3>5. QED
      BY <1>3, <3>1, <3>2, <3>3, <3>4 DEF Peer
  <2>2. QED
    BY <1>0, <1>3, <2>1 DEF Peer, world, TypeOK, Exchanges
<1>4. ASSUME NEW j \in Jobs, Deliver(j) PROVE TypeOK'
  <2>1. CASE delivery' = [delivery EXCEPT ![j] = SubSeq(Sends[j], 1, Len(@) + 1)]
             /\ delivery[j] \notin {NoFile, Special} /\ Len(delivery[j]) < Len(Sends[j])
    <3>1. delivery[j] \in Seq(Blocks) /\ Sends[j] \in Seq(Blocks)
      BY <1>0, <2>1 DEF TypeOK
    <3>2. SubSeq(Sends[j], 1, Len(delivery[j]) + 1) \in Seq(Blocks)
      BY <2>1, <3>1, PrefixType
    <3>3. QED
      BY <1>0, <1>4, <2>1, <3>2 DEF Deliver, step, TypeOK
  <2>2. CASE delivery' \in {[delivery EXCEPT ![j] = Special], [delivery EXCEPT ![j] = <<>>]}
    <3>1. <<>> \in Seq(Blocks)
      OBVIOUS
    <3>2. delivery' \in [Jobs -> Seq(Blocks) \cup {NoFile, Special}]
      BY <1>0, <2>2, <3>1 DEF TypeOK
    <3>3. QED
      BY <1>0, <1>4, <3>2 DEF Deliver, step, TypeOK
  <2>3. QED
    BY <1>4, <2>1, <2>2 DEF Deliver
<1>5. ASSUME NEW m \in Models, Update(m) \/ Evict(m) \/ Corrupt(m) PROVE TypeOK'
  <2>1. faults' \in 0 .. MaxFaults
    BY <1>0, <1>5 DEF Update, Evict, Corrupt, Fault, TypeOK
  <2>2. registered' \in [Models -> [cid : Cids, active : BOOLEAN]]
    <3>1. CASE \E cid \in Cids, active \in BOOLEAN :
                 registered' = [registered EXCEPT ![m] = [cid |-> cid, active |-> active]]
      BY <1>0, <3>1 DEF TypeOK
    <3>2. CASE registered' = registered
      BY <1>0, <3>2 DEF TypeOK
    <3>3. QED
      BY <1>5, <3>1, <3>2 DEF Update, Evict, Corrupt
  <2>3. cache' \in [Models -> Seq(Blocks) \cup {NoFile}]
    <3>1. \A b \in Blocks : <<b>> \in Seq(Blocks)
      OBVIOUS
    <3>2. CASE Evict(m)
      BY <1>0, <3>2 DEF Evict, TypeOK
    <3>3. CASE Corrupt(m)
      BY <1>0, <3>1, <3>3 DEF Corrupt, TypeOK
    <3>4. CASE Update(m)
      BY <1>0, <3>4 DEF Update, TypeOK
    <3>5. QED
      BY <1>5, <3>2, <3>3, <3>4
  <2>4. QED
    BY <1>0, <1>5, <2>1, <2>2, <2>3 DEF Update, Evict, Corrupt, step, TypeOK
<1>6. CASE Crash
  <2>1. faults' \in 0 .. MaxFaults
    BY <1>0, <1>6 DEF Crash, Fault, TypeOK
  <2>2. job' \in Jobs /\ ctx' \in Contexts
    BY <1>0, <1>6 DEF Crash, TypeOK, Contexts
  <2>3. QED
    BY <1>0, <1>6, <2>1, <2>2 DEF Crash, TypeOK, Exchanges
<1>7. CASE Settle
  BY <1>0, <1>7 DEF Settle, step, TypeOK
<1>8. CASE UNCHANGED vars
  BY <1>0, <1>8 DEF vars, TypeOK
<1>9. QED
  BY <1>1, <1>2, <1>3, <1>4, <1>5, <1>6, <1>7, <1>8, NextCases

\* What follows an exchange within its cap is within its cap.
LEMMA ExchangeBound ==
  ASSUME NEW x \in Exchanges, NEW max \in Nat, Len(x.body) <= max
  PROVE  /\ Len(Failed(x).body) <= max /\ Len(Ended(x).body) <= max
         /\ \A status, d : Len(Answered(x, status, d, max).body) <= max
         /\ \A block \in Blocks : Len(Received(x, <<block>>, max).body) <= max
<1>1. Len(Failed(x).body) <= max /\ Len(Ended(x).body) <= max
  BY DEF Failed, Ended, Exchanges
<1>2. \A status, d : Len(Answered(x, status, d, max).body) <= max
  BY DEF Answered, Failed, Exchanges
<1>3. ASSUME NEW block \in Blocks
      PROVE  Len(Received(x, <<block>>, max).body) <= max
  <2>1. x.body \in Seq(Blocks) /\ Len(x.body \o <<block>>) = Len(x.body) + Len(<<block>>)
    BY DEF Exchanges
  <2>2. QED
    BY <2>1 DEF Received, Failed, Exchanges
<1>4. QED
  BY <1>1, <1>2, <1>3

\* Every step keeps what is safe.
LEMMA SafeStep == IInv /\ [Next]_vars => Safe'
<1> SUFFICES ASSUME IInv, [Next]_vars PROVE Safe'
  OBVIOUS
<1> USE ProvisioningAssumption
<1>0. TypeOK /\ Safe /\ Model \in Models /\ http \in Exchanges
  BY DEF IInv, TypeOK, Exchanges, Model
<1>a. Len(Quiet.body) = 0 /\ Len(Sent.body) = 0 /\ MaxBody \in Nat
  BY DEF Quiet, Sent, MaxBody
<1>1. CASE Daemon /\ UNCHANGED world
  <2>0. Model' = Model
    BY <1>1 DEF world, Model
  <2>1. VerifiedWeights'
    BY <1>0, <1>1, <2>0 DEF Daemon, Resolve, OpenInput, ReadInput, Provision, Fetched, StoreBlock,
       Stored, Infer, Inferred, EndStep, step, Safe, VerifiedWeights, Writing, Commitment
  <2>2. BodyBounded'
    BY <1>0, <1>1, <1>a DEF Daemon, Resolve, OpenInput, ReadInput, Provision, Fetched, StoreBlock,
       Stored, Infer, Inferred, EndStep, step, Safe, BodyBounded, MaxBody
  <2>3. RunIsBound'
    <3>1. CASE Inferred
      BY <1>0, <1>1, <3>1, <2>0 DEF Inferred, EndStep, Safe, RunIsBound, Bound, Asked, world, Quiet
    <3>2. CASE ~Inferred
      BY <1>0, <1>1, <2>0, <3>2 DEF Daemon, Resolve, OpenInput, ReadInput, Provision, Fetched,
         StoreBlock, Stored, Infer, EndStep, step, world, Safe, RunIsBound
    <3>3. QED
      BY <3>1, <3>2
  <2>4. Writing'
    <3>1. CASE Fetched
      <4>0. <<>> \in Seq(Blocks) /\ NoFile \notin Seq(Blocks)
        BY ProvisioningAssumption
      <4>1. <<>> # NoFile
        BY <4>0
      <4>2. QED
        BY <1>0, <2>0, <3>1, <4>1 DEF Fetched, EndStep, Writing, Commitment, TypeOK
    <3>2. CASE StoreBlock
      <4>1. cache[Model] \in Seq(Blocks) /\ http.body \in Seq(Blocks)
        BY <1>0, <3>2 DEF StoreBlock, Safe, Writing, TypeOK, Exchanges
      <4>2. SubSeq(http.body, 1, Len(cache[Model]) + 1) \in Seq(Blocks)
        BY <3>2, <4>1, PrefixType DEF StoreBlock
      <4>3. cache'[Model] # NoFile
        BY <1>0, <3>2, <4>2 DEF StoreBlock, TypeOK
      <4>4. QED
        BY <1>0, <2>0, <3>2, <4>3 DEF StoreBlock, step, Safe, Writing, Commitment
    <3>3. CASE ~Fetched /\ ~StoreBlock
      BY <1>0, <1>1, <3>3 DEF Daemon, Resolve, OpenInput, ReadInput, Provision, Stored, Infer,
         Inferred, EndStep, Safe, Writing
    <3>4. QED
      BY <3>1, <3>2, <3>3
  <2>5. Bound'
    BY <1>0, <1>1 DEF Daemon, Resolve, OpenInput, ReadInput, Provision, Fetched, StoreBlock,
       Stored, Infer, Inferred, EndStep, step, world, Safe, Bound, TypeOK, Contexts
  <2>6. Asked'
    BY <1>0, <1>1, <2>0 DEF Daemon, Resolve, OpenInput, ReadInput, Provision, Fetched, StoreBlock,
       Stored, Infer, Inferred, EndStep, step, world, Safe, Asked
  <2>7. QED
    BY <2>1, <2>2, <2>3, <2>4, <2>5, <2>6 DEF Safe
<1>2. CASE StoreFails /\ UNCHANGED world
  BY <1>0, <1>2, <1>a DEF StoreFails, EndStep, world, Model, Safe, VerifiedWeights, BodyBounded,
     MaxBody, RunIsBound, Writing, Bound, Asked
<1>3. CASE Peer /\ UNCHANGED world
  <2>1. Len(http'.body) <= MaxBody
    <3>1. Len(http.body) <= MaxBody
      BY <1>0 DEF Safe, BodyBounded
    <3>2. CASE PeerAnswers
      BY <1>0, <1>a, <3>1, <3>2, ExchangeBound DEF PeerAnswers
    <3>3. CASE PeerSends
      <4>1. PICK block \in Blocks : http' = Received(http, <<block>>, MaxBody)
        BY <3>3 DEF PeerSends, RightBlocks
      <4>2. QED
        BY <1>0, <1>a, <3>1, <4>1, ExchangeBound
    <3>4. CASE PeerCloses \/ Breaks
      BY <1>0, <1>a, <3>1, <3>4, ExchangeBound DEF PeerCloses, Breaks
    <3>5. QED
      BY <1>3, <3>2, <3>3, <3>4 DEF Peer
  <2>2. http.phase \in {"sent", "streaming"}
    BY <1>3 DEF Peer, PeerAnswers, PeerSends, PeerCloses, Breaks, Waiting
  <2>3. http # Quiet /\ pc' = pc /\ Model' = Model /\ ctx' = ctx
    BY <1>3, <2>2 DEF Quiet, Peer, world, Model
  <2>4. BodyBounded' /\ VerifiedWeights' /\ RunIsBound' /\ Bound' /\ Asked'
    BY <1>0, <1>3, <2>1, <2>3 DEF Peer, world, Safe, BodyBounded, MaxBody, VerifiedWeights,
       RunIsBound, Bound, Asked, Commitment
  <2>5. Writing'
    <3>1. pc # "store"
      BY <1>0, <2>2 DEF Safe, Writing
    <3>2. QED
      BY <2>3, <3>1 DEF Writing
  <2>6. QED
    BY <2>4, <2>5 DEF Safe
<1>4. ASSUME NEW j \in Jobs, Deliver(j) PROVE Safe'
  BY <1>0, <1>4 DEF Deliver, step, Model, Safe, VerifiedWeights, BodyBounded, MaxBody, RunIsBound,
     Writing, Bound, Asked, Commitment
<1>5. ASSUME NEW m \in Models, Update(m) \/ Evict(m) \/ Corrupt(m) PROVE Safe'
  <2>1. UNCHANGED <<pc, ctx, http, run, job>>
    BY <1>5 DEF Update, Evict, Corrupt, step
  <2>2. BodyBounded' /\ RunIsBound' /\ Bound' /\ Asked'
    BY <1>0, <2>1 DEF Safe, BodyBounded, MaxBody, RunIsBound, Bound, Asked, Model
  <2>3. VerifiedWeights' /\ Writing'
    BY <1>0, <1>5, <2>1 DEF Update, Evict, Corrupt, Safe, VerifiedWeights, Writing, Commitment, Model, TypeOK
  <2>4. QED
    BY <2>2, <2>3 DEF Safe
<1>6. CASE Crash
  BY <1>0, <1>6, <1>a DEF Crash, Safe, VerifiedWeights, BodyBounded, MaxBody, RunIsBound,
     Writing, Bound, Asked
<1>7. CASE Settle
  BY <1>0, <1>7 DEF Settle, step, Model, Safe, VerifiedWeights, BodyBounded, MaxBody, RunIsBound,
     Writing, Bound, Asked, Commitment
<1>8. CASE UNCHANGED vars
  BY <1>0, <1>8 DEF vars, Model, Safe, VerifiedWeights, BodyBounded, MaxBody, RunIsBound,
     Writing, Bound, Asked, Commitment
<1>9. QED
  BY <1>1, <1>2, <1>3, <1>4, <1>5, <1>6, <1>7, <1>8, NextCases

-----------------------------------------------------------------------------
(* Theorems. *)

\* The strengthened invariant holds in every state of every behaviour.
THEOREM Inductive == Spec => []IInv
<1>1. IInv /\ [Next]_vars => IInv'
  BY TypeStep, SafeStep DEF IInv
<1>2. QED
  BY InitInv, <1>1, PTL DEF Spec

\* The variables keep their types: in particular nothing but blocks is ever cached.
THEOREM TypeCorrect == Spec => []TypeOK
<1>1. IInv => TypeOK
  BY DEF IInv
<1>2. QED
  BY <1>1, Inductive, PTL

\* provision's promise, for any registry, gateway, cache and crashes: the resident
\* server is asked only when the cached file is what was committed to, or is gone.
THEOREM WeightsAreVerified == Spec => []VerifiedWeights
<1>1. IInv => VerifiedWeights
  BY DEF IInv, Safe
<1>2. QED
  BY <1>1, Inductive, PTL

\* read_body_capped's promise, for any cap and any way of cutting a body into chunks.
THEOREM BodiesAreBounded == Spec => []BodyBounded
<1>1. IInv => BodyBounded
  BY DEF IInv, Safe
<1>2. QED
  BY <1>1, Inductive, PTL

\* What an inference is bound to, for any input file and any way it grows.
THEOREM RunsAreBound == Spec => []RunIsBound
<1>1. IInv => RunIsBound
  BY DEF IInv, Safe
<1>2. QED
  BY <1>1, Inductive, PTL

-----------------------------------------------------------------------------
(* GoodWeightsKept.  While the step downloads, what it needs is not in the    *)
(* cache: provision looked, and since then the file has at most been deleted. *)

Needed == pc = "fetch" => Commitment # NoDigest /\ cache[Model] # Commitment

\* Every step keeps it.
LEMMA StaysNeeded == IInv /\ Needed /\ [Next]_vars => Needed'
<1> SUFFICES ASSUME IInv, Needed, [Next]_vars PROVE Needed'
  OBVIOUS
<1>0. TypeOK /\ Safe /\ Model \in Models
  BY ProvisioningAssumption DEF IInv, TypeOK, Model
<1>1. CASE Daemon /\ UNCHANGED world
  <2>1. Model' = Model
    BY <1>1 DEF world, Model
  <2>2. CASE Provision
    <3>1. CASE ~Provisionable
      BY <2>2, <3>1 DEF Provision, EndStep, Needed
    <3>2. CASE Provisionable
      <4>1. Commitment # NoDigest /\ NoFile # Commitment
        BY <1>0, <3>2, ProvisioningAssumption DEF Provisionable, Commitment, TypeOK, Contexts
      <4>2. Commitment' = Commitment /\ (pc' = "fetch" => cache'[Model] \in {NoFile, cache[Model]})
        BY <1>0, <2>2, <3>2 DEF Provision, Commitment, TypeOK
      <4>3. pc' = "fetch" => cache[Model] # Commitment
        BY <2>2, <3>2 DEF Provision
      <4>4. QED
        BY <2>1, <4>1, <4>2, <4>3 DEF Needed
    <3>3. QED
      BY <3>1, <3>2
  <2>3. CASE ~Provision
    BY <1>1, <2>1, <2>3 DEF Daemon, Resolve, OpenInput, ReadInput, Fetched, StoreBlock, Stored,
       Infer, Inferred, EndStep, step, Needed, Commitment
  <2>4. QED
    BY <2>2, <2>3
<1>2. CASE StoreFails /\ UNCHANGED world
  BY <1>2 DEF StoreFails, EndStep, Needed
<1>3. CASE Peer /\ UNCHANGED world
  BY <1>3 DEF Peer, world, Model, Needed, Commitment
<1>4. ASSUME NEW j \in Jobs, Deliver(j) PROVE Needed'
  BY <1>4 DEF Deliver, step, Model, Needed, Commitment
<1>5. ASSUME NEW m \in Models, Update(m) \/ Evict(m) \/ Corrupt(m) PROVE Needed'
  <2>1. UNCHANGED <<pc, ctx, job>>
    BY <1>5 DEF Update, Evict, Corrupt, step
  <2>2. CASE pc = "fetch" /\ Evict(m)
    <3>1. NoFile # Commitment
      BY <1>0, <2>2, ProvisioningAssumption DEF Needed, Commitment, TypeOK, Contexts
    <3>2. QED
      BY <1>0, <2>1, <2>2, <3>1 DEF Evict, Needed, Commitment, Model, TypeOK
  <2>3. CASE ~(pc = "fetch" /\ Evict(m))
    BY <1>5, <2>1, <2>3 DEF Update, Evict, Corrupt, Needed, Commitment, Model
  <2>4. QED
    BY <2>2, <2>3
<1>6. CASE Crash
  BY <1>6 DEF Crash, Needed
<1>7. CASE Settle
  BY <1>7 DEF Settle, step, Model, Needed, Commitment
<1>8. CASE UNCHANGED vars
  BY <1>8 DEF vars, Model, Needed, Commitment
<1>9. QED
  BY <1>1, <1>2, <1>3, <1>4, <1>5, <1>6, <1>7, <1>8, NextCases

\* Gigabytes are not thrown away: for any caches, peers and registry updates no step
\* of the daemon deletes, truncates or downloads again what it needs.
THEOREM GoodWeightsAreKept == Spec => GoodWeightsKept
<1>1. IInv /\ Needed /\ [Next]_vars
        => [pc # "idle" /\ cache[Model] = Commitment /\ cache'[Model] # cache[Model]
              => UNCHANGED pc]_vars
  <2> SUFFICES ASSUME Needed, [Next]_vars, cache[Model] = Commitment,
                      cache'[Model] # cache[Model], pc # "idle"
               PROVE  UNCHANGED pc
    OBVIOUS
  <2>1. CASE Daemon /\ UNCHANGED world
    BY <2>1 DEF Daemon, Resolve, OpenInput, ReadInput, Provision, Fetched, StoreBlock, Stored,
       Infer, Inferred, EndStep, step, Needed
  <2>2. CASE (StoreFails \/ Peer) /\ UNCHANGED world
    BY <2>2 DEF StoreFails, Peer
  <2>3. CASE World
    BY <2>3 DEF World, Deliver, Update, Evict, Corrupt, Crash, Settle, step
  <2>4. CASE UNCHANGED vars
    BY <2>4 DEF vars
  <2>5. QED
    BY <2>1, <2>2, <2>3, <2>4 DEF Next
<1>2. Init => Needed
  BY DEF Init, Needed
<1>3. QED
  BY Inductive, StaysNeeded, <1>1, <1>2, PTL DEF Spec, GoodWeightsKept
=============================================================================
