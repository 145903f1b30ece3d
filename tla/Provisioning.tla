---------------------------- MODULE Provisioning ----------------------------
(***************************************************************************)
(* The inference step of a won job in detail, the part that module         *)
(* JobExecution takes as one action: the input that the requester delivers *)
(* as a file (FileInputSource, live.rs), the weights from the cache or an  *)
(* IPFS gateway (provision and IpfsGatewaySource, executor's models.rs)    *)
(* and the completion by the resident server (LlamaServerInference,        *)
(* runtime.rs), in the order of JobExecutor::step and drive_job            *)
(* (execution.rs).                                                         *)
(*                                                                         *)
(* The gateway, the resident server and the sender of the input may send   *)
(* anything, anything late, or nothing.  Bytes are sequences of blocks; a  *)
(* digest is the content it stands for; a CID is a value of which module   *)
(* ContentId says whether it is allowed and what digest it names.          *)
(***************************************************************************)
EXTENDS HttpExchange

CONSTANTS
  Jobs, Models, Cids,
  ModelOf,      \* [Jobs -> Models]: Job.modelHash
  Posted,       \* [Jobs -> Seq(Blocks), or NoHash]: what Job.inputHash is the hash of
  Sends,        \* [Jobs -> Seq(Blocks)]: what the sender of the input writes in the end
  Blocks,
  Allowed,      \* the CIDs that pass both validate_cid
  Names,        \* [Cids -> Seq(Blocks), or NoDigest]: cid_embedded_sha256
  Configured,   \* CITRATE_MODEL_SHA256, or NoDigest
  Resident,     \* CITRATE_RESIDENT_MODEL_HASH, or NoModel
  Registered0,  \* [Models -> [cid, active]]: ModelRegistry at the start
  MaxWeights, MaxResponse, MaxInput,  \* CITRATE_MAX_WEIGHT_BYTES, ..._RESPONSE_, ..._JOB_INPUT_
  NoHash, NoDigest, NoModel, NoFile, NoRun, Special,
  MaxFaults     \* bound: crashes, damaged files and registry updates

ASSUME ProvisioningAssumption ==
  /\ ModelOf \in [Jobs -> Models]
  /\ Posted \in [Jobs -> Seq(Blocks) \cup {NoHash}] /\ NoHash \notin Seq(Blocks)
  /\ Sends \in [Jobs -> Seq(Blocks)]
  /\ Allowed \subseteq Cids
  /\ Names \in [Cids -> Seq(Blocks) \cup {NoDigest}]
  /\ Configured \in Seq(Blocks) \cup {NoDigest} /\ NoDigest \notin Seq(Blocks)
  /\ Resident \in Models \cup {NoModel}
  /\ Registered0 \in [Models -> [cid : Cids, active : BOOLEAN]]
  /\ {MaxWeights, MaxResponse, MaxInput, MaxFaults} \subseteq Nat
  /\ {NoFile, Special} \cap Seq(Blocks) = {} /\ NoFile # Special
  /\ NoHash \notin {NoFile, Special}
  /\ NoLength \notin Nat

VARIABLES
  registered,  \* ModelRegistry: CID and activity of a model
  delivery,    \* <input dir>/<job>.bin: NoFile, Special (a symlink, a FIFO), or its bytes
  cache,       \* <cache dir>/<model hash>.bin: NoFile or its bytes
  pc,          \* where the running step is; "idle" between steps
  job,         \* CITRATE_JOB_ID
  ctx,         \* JobContext: what the step has read of the registry and the input
  http,        \* the exchange the step waits for
  run,         \* the inference of this job that succeeded, or NoRun
  faults,
  settled      \* from here on the others do their part (for liveness only)

vars == <<registered, delivery, cache, pc, job, ctx, http, run, faults, settled>>
step == <<pc, ctx, http>>
world == <<registered, delivery, job, faults, settled>>


Contexts == [cid : Cids, active : BOOLEAN, input : Seq(Blocks)]
Model == ModelOf[job]

Init ==
  /\ registered = Registered0
  /\ delivery = [j \in Jobs |-> NoFile]
  /\ cache = [m \in Models |-> NoFile]
  /\ pc = "idle"
  /\ job \in Jobs
  /\ ctx = [cid |-> registered[Model].cid, active |-> FALSE, input |-> <<>>]
  /\ http = Quiet
  /\ run = NoRun
  /\ faults = 0
  /\ settled = FALSE

\* The step returns, with or without an error.
EndStep == pc' = "idle" /\ http' = Quiet /\ UNCHANGED <<ctx, run>>

-----------------------------------------------------------------------------
(* JobExecutor::step: the registry's answer, then the input. *)

\* LiveJobView::resolve has read getModel; artifacts of an earlier run end the need.
Resolve ==
  /\ pc = "idle" /\ run = NoRun
  /\ pc' = "open"
  /\ ctx' = [cid |-> registered[Model].cid, active |-> registered[Model].active,
             input |-> <<>>]
  /\ UNCHANGED <<http, run, cache>>

\* read_capped_regular_file up to the fstat.  No file yet: AwaitingInput.
OpenInput ==
  /\ pc = "open"
  /\ IF delivery[job] \in {NoFile, Special} \/ Len(delivery[job]) > MaxInput
     THEN EndStep
     ELSE pc' = "read" /\ UNCHANGED <<ctx, http, run>>
  /\ UNCHANGED cache

\* Mutant of ReadInput: what was read is not compared with Job.inputHash.
ReadAnyInput ==
  /\ pc = "read"
  /\ IF Len(delivery[job]) > MaxInput
     THEN EndStep
     ELSE /\ ctx' = [ctx EXCEPT !.input = delivery[job]]
          /\ pc' = "provision" /\ UNCHANGED <<http, run>>
  /\ UNCHANGED cache

\* The bytes, at most one more than the cap: the file may have grown since.  Then the
\* binding to Job.inputHash.  (drive_job compares the length with the same cap again.)
ReadInput ==
  /\ pc = "read"
  /\ IF Len(delivery[job]) > MaxInput \/ delivery[job] # Posted[job]
     THEN EndStep
     ELSE /\ ctx' = [ctx EXCEPT !.input = delivery[job]]
          /\ pc' = "provision" /\ UNCHANGED <<http, run>>
  /\ UNCHANGED cache

-----------------------------------------------------------------------------
(* provision. *)

\* The digest the weights must have, from the operator or else from the CID.
Commitment == IF Configured # NoDigest THEN Configured ELSE Names[ctx.cid]

Provisionable == ctx.active /\ ctx.cid \in Allowed /\ Commitment # NoDigest

\* Mutant of Provision: what is cached was verified when it was downloaded.
TrustCache ==
  /\ pc = "provision"
  /\ IF ~Provisionable THEN EndStep /\ UNCHANGED cache
     ELSE IF cache[Model] # NoFile
     THEN pc' = "infer" /\ http' = Quiet /\ UNCHANGED <<ctx, run, cache>>
     ELSE pc' = "fetch" /\ http' = Sent /\ UNCHANGED <<ctx, run, cache>>

\* Mutant of Provision: the cached file is dropped before it is looked at.
DropCache ==
  /\ pc = "provision"
  /\ IF ~Provisionable THEN EndStep /\ UNCHANGED cache
     ELSE /\ pc' = "fetch" /\ http' = Sent /\ UNCHANGED <<ctx, run>>
          /\ cache' = [cache EXCEPT ![Model] = NoFile]

\* Refused before anything is asked of the gateway; or a cached file that verifies;
\* or a request, the file that does not verify deleted if it can be.
Provision ==
  /\ pc = "provision"
  /\ IF ~Provisionable THEN EndStep /\ UNCHANGED cache
     ELSE IF cache[Model] = Commitment
     THEN pc' = "infer" /\ http' = Quiet /\ UNCHANGED <<ctx, run, cache>>
     ELSE /\ pc' = "fetch" /\ http' = Sent /\ UNCHANGED <<ctx, run>>
          /\ \/ cache' = [cache EXCEPT ![Model] = NoFile]
             \/ UNCHANGED cache

\* The exchange with the gateway is over; the bytes are dropped unless they verify.
\* fs::write begins by truncating the file.
Fetched ==
  /\ pc = "fetch" /\ http.phase \in {"complete", "failed"}
  /\ IF http.phase = "failed" \/ http.body # Commitment
     THEN EndStep /\ UNCHANGED cache
     ELSE /\ pc' = "store" /\ UNCHANGED <<ctx, http, run>>
          /\ cache' = [cache EXCEPT ![Model] = <<>>]

\* One write(2) of fs::write.
StoreBlock ==
  /\ pc = "store" /\ Len(cache[Model]) < Len(http.body)
  /\ cache' = [cache EXCEPT ![Model] = SubSeq(http.body, 1, Len(@) + 1)]
  /\ UNCHANGED <<step, run>>

Stored ==
  /\ pc = "store" /\ cache[Model] = http.body
  /\ pc' = "infer" /\ http' = Quiet
  /\ UNCHANGED <<ctx, run, cache>>

\* The directory cannot be made, or the disk is full: what was written stays.
StoreFails ==
  /\ pc = "store" /\ ~settled
  /\ EndStep
  /\ UNCHANGED cache

-----------------------------------------------------------------------------
(* LlamaServerInference::run. *)

\* The file must exist, and the model be the one the resident server is declared for.
Infer ==
  /\ pc = "infer" /\ http = Quiet
  /\ IF cache[Model] = NoFile \/ Resident \notin {NoModel, Model}
     THEN EndStep
     ELSE http' = Sent /\ UNCHANGED <<pc, ctx, run>>
  /\ UNCHANGED cache

\* The completion: its body must be JSON with a content.  Then profiler.record and the
\* artifacts.
Inferred ==
  /\ pc = "infer" /\ http.phase \in {"complete", "failed"}
  /\ \/ EndStep /\ (http.phase = "failed" \/ ~settled)
     \/ /\ http.phase = "complete"
        /\ run' = [job |-> job, input |-> ctx.input, cid |-> ctx.cid, output |-> http.body]
        /\ pc' = "idle" /\ http' = Quiet /\ UNCHANGED ctx
  /\ UNCHANGED cache

-----------------------------------------------------------------------------
(* The other end of an exchange. *)

MaxBody == IF pc = "infer" THEN MaxResponse ELSE MaxWeights

\* What a settled peer sends, block by block: the gateway what the CID names, the
\* resident server an answer of one block.
RightBlocks ==
  IF pc = "fetch"
  THEN {b \in Blocks : /\ Len(http.body) < Len(Commitment)
                      /\ b = Commitment[Len(http.body) + 1]}
  ELSE IF http.body = <<>> THEN Blocks ELSE {}

PeerAnswers ==
  /\ http.phase = "sent"
  /\ \E status \in Statuses, declared \in 0 .. MaxBody + 1 \cup {NoLength} :
       /\ settled => status = "success" /\ declared = NoLength
       /\ http' = Answered(http, status, declared, MaxBody)

\* (External: the client yields no byte beyond the declared length.)
PeerSends ==
  /\ http.phase = "streaming"
  /\ http.declared # NoLength => Len(http.body) < http.declared
  /\ \E block \in IF settled THEN RightBlocks ELSE Blocks :
       http' = Received(http, <<block>>, MaxBody)

PeerCloses ==
  /\ http.phase = "streaming"
  /\ settled => RightBlocks = {}
  /\ http' = Ended(http)

\* Mutant of Breaks: clients without timeouts, and connections that only stall.
NeverBreaks == Waiting(http) /\ ~settled /\ http = Quiet /\ UNCHANGED http

\* The connection cannot be made or breaks, or a timeout fires: of the request and its
\* answer as a whole, or of one read of the weights.
Breaks ==
  /\ Waiting(http) /\ ~settled
  /\ http' = Failed(http)

Peer ==
  /\ PeerAnswers \/ PeerSends \/ PeerCloses \/ Breaks
  /\ UNCHANGED <<pc, ctx, run, cache>>

-----------------------------------------------------------------------------
(* The rest of the world. *)

\* The input file appears, a block at a time; or something that is not a file.
Deliver(j) ==
  /\ \/ /\ delivery[j] = NoFile /\ ~settled
        /\ delivery' = [delivery EXCEPT ![j] = Special]
     \/ /\ delivery[j] \in {NoFile, Special}
        /\ delivery' = [delivery EXCEPT ![j] = <<>>]
     \/ /\ delivery[j] \notin {NoFile, Special} /\ Len(delivery[j]) < Len(Sends[j])
        /\ delivery' = [delivery EXCEPT ![j] = SubSeq(Sends[j], 1, Len(@) + 1)]
  /\ UNCHANGED <<registered, cache, step, job, run, faults, settled>>

Fault == faults < MaxFaults /\ ~settled /\ faults' = faults + 1

\* The owner of a model registers other weights, or deactivates it.
Update(m) ==
  /\ Fault
  /\ \E cid \in Cids, active \in BOOLEAN :
       registered' = [registered EXCEPT ![m] = [cid |-> cid, active |-> active]]
  /\ UNCHANGED <<delivery, cache, step, job, run, settled>>

\* Somebody deletes a cached file.  (Not while it is being written.)
Evict(m) ==
  /\ Fault /\ pc # "store"
  /\ cache[m] # NoFile
  /\ cache' = [cache EXCEPT ![m] = NoFile]
  /\ UNCHANGED <<registered, delivery, step, job, run, settled>>

\* Between steps, a cached file changes: it was never synced to the disk.
Corrupt(m) ==
  /\ Fault /\ pc = "idle"
  /\ cache[m] # NoFile
  /\ \E b \in Blocks : cache' = [cache EXCEPT ![m] = <<b>>]
  /\ UNCHANGED <<registered, delivery, step, job, run, settled>>

\* The process dies and is started again, perhaps for another job.  (Artifacts that
\* were saved are module JobExecution's.)
Crash ==
  /\ Fault
  /\ pc' = "idle" /\ http' = Quiet /\ run' = NoRun
  /\ \E j \in Jobs : job' = j /\ ctx' = [cid |-> registered[ModelOf[j]].cid,
                                         active |-> FALSE, input |-> <<>>]
  /\ UNCHANGED <<registered, delivery, cache, settled>>

Settle ==
  /\ pc = "idle" /\ ~settled
  /\ settled' = TRUE
  /\ UNCHANGED <<registered, delivery, cache, step, job, run, faults>>

-----------------------------------------------------------------------------
Daemon ==
  \/ Resolve \/ OpenInput \/ ReadInput \/ Provision \/ Fetched
  \/ StoreBlock \/ Stored \/ Infer \/ Inferred

World ==
  \/ \E j \in Jobs : Deliver(j)
  \/ \E m \in Models : Update(m) \/ Evict(m) \/ Corrupt(m)
  \/ Crash \/ Settle

Next == ((Daemon \/ StoreFails \/ Peer) /\ UNCHANGED world) \/ World

Spec == Init /\ [][Next]_vars

\* The daemon's own steps are taken, and its timeouts fire; nobody else has to move
\* before things have settled.
Fairness ==
  /\ WF_vars(Daemon /\ UNCHANGED world)
  /\ WF_vars(Breaks /\ UNCHANGED <<pc, ctx, run, cache, world>>)
  /\ WF_vars(settled /\ Peer /\ UNCHANGED world)
  /\ \A j \in Jobs : WF_vars(Deliver(j) /\ delivery'[j] # Special)

FairSpec == Spec /\ Fairness

-----------------------------------------------------------------------------
(* Properties. *)

TypeOK ==
  /\ registered \in [Models -> [cid : Cids, active : BOOLEAN]]
  /\ delivery \in [Jobs -> Seq(Blocks) \cup {NoFile, Special}]
  /\ cache \in [Models -> Seq(Blocks) \cup {NoFile}]
  /\ pc \in {"idle", "open", "read", "provision", "fetch", "store", "infer"}
  /\ job \in Jobs
  /\ ctx \in Contexts
  /\ http \in [phase : {"quiet", "sent", "streaming", "complete", "failed"},
               declared : Nat \cup {NoLength}, body : Seq(Blocks)]
  /\ faults \in 0 .. MaxFaults /\ settled \in BOOLEAN

\* "the bytes are never used": when the resident server is asked, the cached file is
\* what the operator's digest or the CID names, or was deleted since; never the rest of
\* a write that a crash cut short, nor what an earlier CID of the model named.
VerifiedWeights ==
  pc = "infer" => cache[Model] \in {Commitment, NoFile}

\* No endpoint makes the daemon hold more of an answer than its cap (PBA-L6b-024,
\* FUA-NODE-AGENT-04), whatever it declares and however it cuts its chunks.
BodyBounded == Len(http.body) <= MaxBody

\* An output is of the posted input, for the model the resident server is declared to
\* hold, also when the input file was read while it was being written.
RunIsBound ==
  run # NoRun =>
    /\ run.job = job /\ run.input = Posted[job] /\ Len(run.input) <= MaxInput
    /\ Resident \in {NoModel, Model}

\* A cached file that is what the step needs is not deleted, truncated or downloaded
\* again by the step: gigabytes, against a deadline.
GoodWeightsKept ==
  [][pc # "idle" /\ cache[Model] = Commitment /\ cache'[Model] # cache[Model]
       => UNCHANGED pc]_vars

\* Whatever the peers do, a step comes to its end, and the heartbeat to its turn
\* (NA-B-001: no endpoint that goes silent parks the daemon).
StepEnds == pc # "idle" ~> pc = "idle"

\* A job the node is able to run: the input fits and is what was posted, the weights
\* are known, fit and are the declared ones.
Runnable ==
  /\ Sends[job] = Posted[job] /\ Len(Posted[job]) <= MaxInput
  /\ registered[Model].active /\ registered[Model].cid \in Allowed
  /\ LET weights == IF Configured # NoDigest THEN Configured ELSE Names[registered[Model].cid]
     IN weights # NoDigest /\ Len(weights) <= MaxWeights
  /\ Resident \in {NoModel, Model}

\* Once the others do their part, such a job runs, whatever state files, cache and
\* registry were left in: nothing an earlier step left behind blocks it.
EventuallyRuns == settled /\ Runnable ~> run # NoRun
=============================================================================
