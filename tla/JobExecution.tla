---------------------------- MODULE JobExecution ----------------------------
(***************************************************************************)
(* One won job, from assignment to payout: JobExecutor::step and drive_job *)
(* (crates/node-agent/src/execution.rs), the NonceStore they persist to    *)
(* (nonce.rs), the signing queue (module SigningQueue) and, outside the    *)
(* repository, the signing surface, the network and the contracts.         *)
(*                                                                         *)
(* A step of the executor is cut where other parties can act: between the  *)
(* eth_calls of LiveJobView::resolve, between the disk operations, and     *)
(* around inference.  Everything between two cuts is one action.           *)
(*                                                                         *)
(* The hash commitment of artifacts is injective and hiding, so it is      *)
(* modelled as the artifacts themselves, a record of nonce and output.     *)
(*                                                                         *)
(* Simplifications: one job (the daemon drives one); to, value, context    *)
(* and expires_block of a request are left out (advisory); last_error is   *)
(* left out (a step that records an error ends the step); provisioning,    *)
(* CID checks and the input's size and hash only make inference fail.      *)
(***************************************************************************)
EXTENDS LifecyclePlan, SigningQueue

CONSTANTS
  Nonces, Outputs,  \* what the CSPRNG and the (sampled) model can produce
  NoNonce, Torn,    \* nonce-<job> is absent; is not 32 bytes long
  MaxBlock,         \* bound: block height
  FaultModels       \* what may go wrong in a behaviour, one of these: how often the
                    \* process crashes and the machine loses power (bound), and
                    \* whether fsync of the nonce directory can fail

ASSUME JobAssumption ==
  /\ Cap \in Nat /\ Deadline \in Nat /\ Window \in Nat
  /\ MaxBlock \in Nat
  /\ FaultModels \subseteq [crashes : Nat, powerLosses : Nat, syncFails : BOOLEAN]
  /\ NoNonce \notin Nonces /\ Torn \notin Nonces
  /\ NoArt \notin [nonce : Nonces, output : Outputs]

Artifacts == [nonce : Nonces, output : Outputs]

\* The calldata of the job's writes.  Only a commitment and a reveal carry art.
Write(intent, art) == [intent |-> intent, art |-> art]
Start == Write("startExecution", NoArt)
Commit(a) == Write("submitCommitment", a)
Reveal(a) == Write("submitResult", a)
Complete == Write("completeJob", NoArt)
Intents == {"startExecution", "submitCommitment", "submitResult", "completeJob"}
Writes == [intent : Intents, art : Artifacts \cup {NoArt}]

VARIABLES
  chain,     \* marketplace and verifier contracts: the job's record
  net,       \* broadcast writes that are not mined yet
  q,         \* AgentState.pending_requests (in memory)
  receipts,  \* surface: ids of broadcasts it has still to report
  disk,      \* the nonce directory as the process reads it
  synced,    \* the part of it that a power loss spares
  mem,       \* JobProgress (in memory): nonce and artifacts
  active,    \* AgentState.active_jobs
  view,      \* the ResolvedJob of the running step
  pc,        \* where the running step is; "idle" between steps
  faults,    \* the faults that may still happen
  offered    \* history: artifacts whose commitment was ever requested

executor == <<q, mem, active, view, pc>>
vars == <<chain, net, receipts, disk, synced, executor, faults, offered>>

NoView == [state |-> "Posted", ours |-> FALSE, tier |-> "Commitment", block |-> 0,
           committed |-> FALSE, commitBlock |-> 0, verifiedAt |-> 0,
           resolvedForProvider |-> FALSE]
NoProgress == [nonce |-> NoNonce, art |-> NoArt]
NoFiles == [nonce |-> NoNonce, art |-> NoArt]

Init ==
  /\ \E tier \in {"Commitment", "ZKProof"} :
       chain = [block |-> 1, state |-> "Bidding", ours |-> FALSE, tier |-> tier,
                commitment |-> NoArt, commitBlock |-> 0, verifiedAt |-> 0,
                resolvedForProvider |-> FALSE]
  /\ net = {} /\ receipts = {}
  /\ q = EmptyQueue
  /\ disk = NoFiles /\ synced = NoFiles
  /\ mem = NoProgress
  /\ active = 0
  /\ view = NoView /\ pc = "idle"
  /\ faults \in FaultModels
  /\ offered = {}

-----------------------------------------------------------------------------
(* LiveJobView::resolve: getJob, then blockNumber, then the gates.  The     *)
(* gates are read one by one too; each of them changes once, so reading     *)
(* them together loses no reading that matters to the plan.                 *)

\* The step returns: what it read is dropped.
EndStep == pc' = "idle" /\ view' = NoView

ReadJob ==
  /\ pc = "idle"
  /\ pc' = "head"
  /\ view' = [NoView EXCEPT !.state = chain.state, !.ours = chain.ours,
                            !.tier = chain.tier]
  /\ UNCHANGED <<q, mem, active>>

ReadHead ==
  /\ pc = "head"
  /\ pc' = "gates"
  /\ view' = [view EXCEPT !.block = chain.block]
  /\ UNCHANGED <<q, mem, active>>

\* A job that is not assigned to this provider ends the step here.
ReadGates ==
  /\ pc = "gates"
  /\ IF view.ours
     THEN /\ pc' = "nonce"
          /\ view' = [view EXCEPT
               !.committed = chain.commitment # NoArt,
               !.commitBlock = chain.commitBlock,
               !.verifiedAt = chain.verifiedAt,
               !.resolvedForProvider = chain.resolvedForProvider]
     ELSE EndStep
  /\ UNCHANGED <<q, mem, active>>

\* Any of the calls, or the reading of a file further on, fails: record_error.
ReadFails ==
  /\ pc \in {"head", "gates", "nonce", "artifacts"}
  /\ EndStep
  /\ UNCHANGED <<q, mem, active>>

Resolve ==
  /\ ReadJob \/ ReadHead \/ ReadGates \/ ReadFails
  /\ UNCHANGED <<disk, synced, offered>>

-----------------------------------------------------------------------------
(* The commitment nonce and the committed artifacts, from disk. *)

\* Mutant of LoadNonce: a torn nonce is taken for a nonce.
LoadTornNonce ==
  /\ pc = "nonce"
  /\ IF disk.nonce # NoNonce THEN pc' = "artifacts" /\ UNCHANGED view
     ELSE view.committed /\ EndStep
  /\ UNCHANGED <<q, mem, active, disk, synced, offered>>

\* NonceStore::load.  Absent and committed, or torn: refuse.
LoadNonce ==
  /\ pc = "nonce"
  /\ IF disk.nonce \in Nonces THEN pc' = "artifacts" /\ UNCHANGED view
     ELSE (disk.nonce = Torn \/ view.committed) /\ EndStep
  /\ UNCHANGED <<q, mem, active, disk, synced, offered>>

\* NonceStore::mint: create_new, write, fsync of the file but not of its
\* directory.  A write that fails leaves what it wrote.
MintNonce ==
  /\ pc = "nonce" /\ disk.nonce = NoNonce /\ ~view.committed
  /\ \/ /\ \E n \in Nonces : disk' = [disk EXCEPT !.nonce = n]
        /\ pc' = "artifacts" /\ UNCHANGED view
     \/ /\ \E left \in {NoNonce, Torn} : disk' = [disk EXCEPT !.nonce = left]
        /\ EndStep
  /\ UNCHANGED <<q, mem, active, synced, offered>>

\* Mutant of LoadArtifacts: what was saved is not looked for.
ForgetArtifacts ==
  /\ pc = "artifacts"
  /\ pc' = "plan"
  /\ UNCHANGED <<q, mem, active, view, disk, synced, offered>>

\* NonceStore::load_artifacts, unless this process holds them already.  The
\* file's nonce must be the persisted one.
LoadArtifacts ==
  /\ pc = "artifacts"
  /\ LET missing == disk.art = NoArt
         usable  == ~missing /\ disk.art.nonce = disk.nonce
         refused == missing /\ view.committed /\ view.state = "Executing"
     IN \/ /\ mem.art # NoArt \/ (missing /\ ~refused)
           /\ pc' = "plan" /\ UNCHANGED <<view, mem>>
        \/ /\ mem.art = NoArt /\ usable
           /\ mem' = [nonce |-> disk.nonce, art |-> disk.art]
           /\ pc' = "plan" /\ UNCHANGED view
        \/ /\ mem.art = NoArt /\ (refused \/ (~missing /\ ~usable))
           /\ EndStep /\ UNCHANGED mem
  /\ UNCHANGED <<q, active, disk, synced, offered>>

-----------------------------------------------------------------------------
(* drive_job: one action of the plan. *)

\* RelaySigner::request.  Requesting a commitment is offering its artifacts.
Request(write) ==
  /\ q' = Enqueue(q, write.intent, write)
  /\ offered' = IF write.intent = "submitCommitment"
                THEN offered \cup {write.art} ELSE offered

SignWrite(write) ==
  /\ Request(write)
  /\ active' = 1
  /\ EndStep
  /\ UNCHANGED <<mem, disk, synced>>

Sign(w) ==
  \/ PlansStart(w) /\ SignWrite(Start)
  \/ PlansCommitment(w, mem.art) /\ SignWrite(Commit(mem.art))
  \/ PlansResult(w, mem.art) /\ SignWrite(Reveal(mem.art))
  \/ PlansComplete(w) /\ SignWrite(Complete)

\* Mutant of Infer: the artifacts are never saved.
InferUnsaved ==
  /\ PlansInference(view, mem.art)
  /\ active' = 1
  /\ \E o \in Outputs :
       mem' = [nonce |-> disk.nonce, art |-> [nonce |-> disk.nonce, output |-> o]]
  /\ EndStep
  /\ UNCHANGED <<q, disk, synced, offered>>

\* Inference succeeds and commits to its output with the persisted nonce.
Infer ==
  /\ PlansInference(view, mem.art)
  /\ active' = 1
  /\ LET nonce == IF mem.nonce # NoNonce THEN mem.nonce ELSE disk.nonce
     IN \E o \in Outputs :
          mem' = [nonce |-> nonce, art |-> [nonce |-> nonce, output |-> o]]
  /\ pc' = "save"
  /\ UNCHANGED <<q, view, disk, synced, offered>>

\* The input has not arrived or is not the one posted.  It is asked for before
\* there is a plan, also for a job that the plan would abort for its tier.
AwaitInput ==
  /\ view.state = "Executing" /\ mem.art = NoArt
  /\ EndStep
  /\ UNCHANGED <<q, mem, active, disk, synced, offered>>

\* The input is oversized (0 active jobs), or provisioning or inference fails (1).
InferFails ==
  /\ PlansInference(view, mem.art)
  /\ active' \in {0, 1}
  /\ EndStep
  /\ UNCHANGED <<q, mem, disk, synced, offered>>

\* Mutant of Release: the slot is only freed for a completed job.
ReleaseDone == PlansDone(view)

\* Done and Abort free the in-flight slot.
Release == PlansDone(view) \/ PlansAbort(view, mem.art)

Drive ==
  /\ pc = "plan"
  /\ \/ Sign(view)
     \/ AwaitInput
     \/ Infer
     \/ InferFails
     \/ /\ PlansHold(view, mem.art) \/ PlansDone(view) \/ PlansAbort(view, mem.art)
        /\ active' = IF Release THEN 0 ELSE active
        /\ EndStep
        /\ UNCHANGED <<q, mem, disk, synced, offered>>

-----------------------------------------------------------------------------
(* NonceStore::save_artifacts: temporary file, rename, fsync of the         *)
(* directory.  When any of it fails the artifacts are dropped from memory.  *)

Rename ==
  /\ pc = "save"
  /\ disk' = [disk EXCEPT !.art = mem.art]
  /\ pc' = "sync"
  /\ UNCHANGED <<q, mem, active, view, synced, offered>>

SyncDir ==
  /\ pc = "sync"
  /\ synced' = disk
  /\ EndStep
  /\ UNCHANGED <<q, mem, active, disk, offered>>

\* Mutant of SaveFails: the unsaved artifacts stay in memory.
KeepUnsaved ==
  /\ pc = "save" \/ (pc = "sync" /\ faults.syncFails)
  /\ EndStep
  /\ UNCHANGED <<q, mem, active, disk, synced, offered>>

\* Before the rename, or in the fsync after it.
SaveFails ==
  /\ pc = "save" \/ (pc = "sync" /\ faults.syncFails)
  /\ mem' = [mem EXCEPT !.art = NoArt]
  /\ EndStep
  /\ UNCHANGED <<q, active, disk, synced, offered>>

Save == Rename \/ SyncDir \/ SaveFails

Step ==
  /\ Resolve \/ LoadNonce \/ MintNonce \/ LoadArtifacts \/ Drive \/ Save
  /\ UNCHANGED <<chain, net, receipts, faults>>

-----------------------------------------------------------------------------
(* The signing surface (external), over GET and POST of the supervision     *)
(* API.                                                                     *)

Broadcast(e) ==
  /\ e.status = "pending" /\ e.id \notin receipts
  /\ net' = net \cup {e.calldata}
  /\ receipts' = receipts \cup {e.id}
  /\ UNCHANGED q

Observed(id) ==
  /\ q' = Observe(q, id, id)
  /\ receipts' = receipts \ {id}
  /\ UNCHANGED net

Surface ==
  /\ \/ \E e \in q.entries : Broadcast(e)
     \/ \E id \in receipts : Observed(id)
  /\ UNCHANGED <<chain, disk, synced, mem, active, view, pc, faults, offered>>

-----------------------------------------------------------------------------
(* The contracts (external), as the comments and planner of the lifecycle   *)
(* crate describe them.                                                     *)

\* What a write does when it is mined in the state c, if it does not revert.
Accepted(c, w) ==
  CASE w.intent = "startExecution" -> c.state = "Assigned"
    [] w.intent = "submitCommitment" ->
         c.state \in {"Assigned", "Executing"} /\ c.commitment = NoArt
    [] w.intent = "submitResult" ->
         /\ c.state = "Executing" /\ c.commitment # NoArt
         /\ c.block <= Deadline /\ c.block > c.commitBlock
    [] w.intent = "completeJob" -> PlansComplete(c)

\* A reveal that does not open the commitment fails verification.
Mined(c, w) ==
  CASE w.intent = "startExecution" -> [c EXCEPT !.state = "Executing"]
    [] w.intent = "submitCommitment" ->
         [c EXCEPT !.commitment = w.art, !.commitBlock = c.block]
    [] w.intent = "submitResult" ->
         [c EXCEPT !.state = IF w.art = c.commitment THEN "Verifying" ELSE "Failed"]
    [] w.intent = "completeJob" -> [c EXCEPT !.state = "Completed"]

Mine(w) ==
  /\ net' = net \ {w}
  /\ chain' = IF Accepted(chain, w) THEN Mined(chain, w) ELSE chain

\* The job's owner, the verifier and the dispute process.
Moves(from, to) == chain.state = from /\ chain' = [chain EXCEPT !.state = to]
Assign ==
  /\ chain.state = "Bidding"
  /\ \E ours \in BOOLEAN : chain' = [chain EXCEPT !.state = "Assigned", !.ours = ours]
Verify ==
  /\ chain.state = "Verifying" /\ chain.verifiedAt = 0
  /\ chain' = [chain EXCEPT !.verifiedAt = chain.block]
Dispute ==
  \/ ~WindowOver(chain) /\ ~chain.resolvedForProvider /\ Moves("Verifying", "Disputed")
  \/ Moves("Disputed", "Failed")
  \/ chain.state = "Disputed"
     /\ chain' = [chain EXCEPT !.state = "Verifying", !.resolvedForProvider = TRUE]
TimeOut ==
  /\ chain.block > Deadline
  /\ Moves("Assigned", "Timeout") \/ Moves("Executing", "Timeout")
NewBlock ==
  chain.block < MaxBlock /\ chain' = [chain EXCEPT !.block = @ + 1]

Chain ==
  /\ \/ \E w \in net : Mine(w)
     \/ (Assign \/ Verify \/ Dispute \/ TimeOut \/ NewBlock) /\ UNCHANGED net
  /\ UNCHANGED <<receipts, disk, synced, executor, faults, offered>>

-----------------------------------------------------------------------------
(* Faults. *)

\* What every restart of the daemon loses: everything in memory.
LoseMemory ==
  /\ q' = EmptyQueue
  /\ mem' = NoProgress
  /\ active' = 0
  /\ EndStep
  /\ UNCHANGED <<chain, net, receipts, offered>>

Crash ==
  /\ faults.crashes > 0
  /\ faults' = [faults EXCEPT !.crashes = @ - 1]
  /\ LoseMemory
  /\ UNCHANGED <<disk, synced>>

\* A directory entry that was not synced may or may not be there afterwards.
PowerLoss ==
  /\ faults.powerLosses > 0
  /\ faults' = [faults EXCEPT !.powerLosses = @ - 1]
  /\ LoseMemory
  /\ \E nonce \in {disk.nonce, synced.nonce}, art \in {disk.art, synced.art} :
       disk' = [nonce |-> nonce, art |-> art]
  /\ synced' = disk'

Next == Step \/ Surface \/ Chain \/ Crash \/ PowerLoss

Spec == Init /\ [][Next]_vars

\* run_loop never stops ticking, and no stage of a step fails forever (an
\* eth_call, minting, inference, the rename).  The surface signs what is pending
\* and reports it; a broadcast write is mined.  Nothing is assumed of the other
\* parties or of the block height.
Stages == {"head", "gates", "nonce", "artifacts", "plan", "save"}
Fairness ==
  /\ WF_vars(Step)
  /\ \A stage \in Stages : SF_vars(Step /\ pc = stage /\ pc' # "idle")
  /\ WF_vars(Surface)
  /\ WF_vars(Chain /\ net' # net)

LiveSpec == Spec /\ Fairness

-----------------------------------------------------------------------------
(* Properties. *)

Requested == net \cup {e.calldata : e \in q.entries}

Calls(intent) == {w \in Requested : w.intent = intent}

Entries ==
  [id : Nat, intent : Intents, calldata : Writes, key : {NoKey},
   status : {"pending", "submitted"}, tx : Nat \cup {NoTx}]
Queues == [entries : SUBSET Entries, nextId : Nat]

Tiers == {"Commitment", "ZKProof"}
Chains ==
  [block : Nat, state : JobStates, ours : BOOLEAN, tier : Tiers,
   commitment : Artifacts \cup {NoArt}, commitBlock : Nat, verifiedAt : Nat,
   resolvedForProvider : BOOLEAN]
Views ==
  [block : Nat, state : JobStates, ours : BOOLEAN, tier : Tiers,
   committed : BOOLEAN, commitBlock : Nat, verifiedAt : Nat,
   resolvedForProvider : BOOLEAN]
Files == [nonce : Nonces \cup {NoNonce, Torn}, art : Artifacts \cup {NoArt}]
Progress == [nonce : Nonces \cup {NoNonce}, art : Artifacts \cup {NoArt}]

\* Every variable has its type; a step only goes past the nonce file when that
\* file is a whole nonce, and past resolve for a job of this provider.
TypeOK ==
  /\ chain \in Chains
  /\ net \in SUBSET Writes
  /\ q \in Queues
  /\ receipts \in SUBSET Nat
  /\ disk \in Files /\ synced \in Files
  /\ mem \in Progress
  /\ active \in {0, 1}
  /\ view \in Views
  /\ pc \in {"idle", "head", "gates", "nonce", "artifacts", "plan", "save", "sync"}
  /\ faults \in [crashes : Nat, powerLosses : Nat, syncFails : BOOLEAN]
  /\ offered \in SUBSET Artifacts
  /\ pc \in {"nonce", "artifacts", "plan", "save", "sync"} => view.ours
  /\ pc \in {"artifacts", "plan", "save", "sync"} => disk.nonce \in Nonces

\* The executor never asks for two different commitments for the job, whatever
\* crashes, failed writes and re-runs of the (sampled) model lie between.
OneCommitment == \A a, b \in offered : a = b

\* A reveal is only requested or in flight once the commitment is on the chain,
\* and it opens that commitment (NA-01, PBA-L6b-007: anything else is a slash).
RevealOpensCommitment ==
  \A w \in Calls("submitResult") : w.art # NoArt /\ w.art = chain.commitment

\* A requested reveal can no longer land in the commitment's own block.
RevealAfterCommitBlock ==
  Calls("submitResult") # {} => chain.block > chain.commitBlock

\* completeJob is never requested before the dispute window is over or a dispute
\* went the provider's way, however stale the reads it was planned on
\* ("emitting it earlier is a guaranteed revert").
CompletionIsDue ==
  Calls("completeJob") # {} => chain.resolvedForProvider \/ WindowOver(chain)

\* From the first request of a commitment on, the nonce and the artifacts that
\* open it are on disk and stay what they are.  (Bound: one power loss.  After two,
\* a CSPRNG that repeats a lost nonce could offer artifacts whose nonce file was
\* not synced; no other property needs this bound.)
CommittedFilesKept ==
  [][offered # {} => disk' = disk /\ disk.art \in offered]_vars

\* Abstractly the provider commits to one result and reveals what it committed
\* to: every behaviour of the daemon, its queue, its disk and the chain is one of
\* module CommitReveal.
Promises == INSTANCE CommitReveal
  WITH Results <- Artifacts, None <- NoArt, promised <- offered,
       landed <- chain.commitment,
       opening <- {w.art : w \in Calls("submitResult")}
CommitThenReveal == Promises!Spec

\* The in-flight slot that throttles bidding is given back once the job is over,
\* however it ended.
SlotReleased ==
  chain.ours /\ chain.state \in {"Completed", "Timeout", "Failed"} ~> active = 0

\* A verified result that nobody disputes gets paid once its dispute window is
\* over: completeJob reaches the chain, and is never burnt on an early revert.
VerifiedIsPaid ==
  chain.state = "Verifying" /\ WindowOver(chain) /\ ~chain.resolvedForProvider
    ~> chain.state = "Completed"
=============================================================================
