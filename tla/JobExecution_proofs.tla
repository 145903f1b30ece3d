------------------------ MODULE JobExecution_proofs ------------------------
(***************************************************************************)
(* What TLAPS proves of module JobExecution, for every job, every number   *)
(* of nonces, outputs, blocks, crashes and power losses.                   *)
(*                                                                         *)
(* TypeCorrect needs no assumption on faults.  The promise to reveal what  *)
(* was committed does: module JobExecution has a counterexample when       *)
(* the fsync of the directory can be skipped (by a failure or a crash of   *)
(* the process) before a power loss.                                       *)
(***************************************************************************)
EXTENDS JobExecution, TLAPS

\* The machine never loses power, or the fsync after the rename always happens.
Benign(f) == f.powerLosses = 0 \/ (f.crashes = 0 /\ ~f.syncFails)
BenignFaults == \A f \in FaultModels : Benign(f)

-----------------------------------------------------------------------------
(* The inductive invariant. *)

\* The artifacts ever offered are the ones in the artifacts file...
OfferedIsSaved == \A a \in offered : a = disk.art

\* ... which a power loss spares, except between the rename and the fsync.
SavedIsDurable == faults.powerLosses = 0 \/ pc = "sync" \/ synced.art = disk.art

\* Artifacts in memory are the saved ones as soon as the rename is done.
HeldIsSaved == mem.art # NoArt /\ pc # "save" => mem.art = disk.art

\* Inference is planned, and its result saved, only when nothing is saved yet and
\* so nothing was offered.
FreshRun ==
  /\ pc = "plan" /\ mem.art = NoArt => disk.art = NoArt
  /\ pc \in {"save", "sync"} => offered = {}

\* A commitment that is asked for or has landed was offered.
LandedIsOffered ==
  /\ \A w \in Calls("submitCommitment") : w.art \in offered
  /\ chain.commitment # NoArt => chain.commitment \in offered

\* A step that read "committed" read a commitment that is still there.
CommittedIsRead == view.committed => chain.commitment # NoArt

\* What the disk knows of the offers, and what the chain and the queue know.
FilesKept == OfferedIsSaved /\ SavedIsDurable /\ HeldIsSaved /\ FreshRun
RevealsOpen == LandedIsOffered /\ CommittedIsRead /\ RevealOpensCommitment

IInv == TypeOK /\ Benign(faults) /\ FilesKept /\ RevealsOpen

-----------------------------------------------------------------------------
(* What the queue's operators do to a queue of this job's requests. *)

\* evict_if_over_cap only removes.
LEMMA EvictRemoves ==
  ASSUME NEW E PROVE Evict(E) \subseteq E
BY DEF Evict

\* A fresh entry is an entry.
LEMMA NewEntryType ==
  ASSUME NEW id \in Nat, NEW w \in Writes
  PROVE  NewEntry(id, w.intent, w, NoKey) \in Entries
BY DEF NewEntry, Entries, Writes

\* enqueue_signature_request keeps the queue a queue and adds at most the write.
LEMMA EnqueueAdds ==
  ASSUME NEW Q \in Queues, NEW w \in Writes
  PROVE  /\ Enqueue(Q, w.intent, w) \in Queues
         /\ \A e \in Enqueue(Q, w.intent, w).entries :
              e.calldata = w \/ \E f \in Q.entries : e.calldata = f.calldata
<1>1. CASE SameCalldata(Q, w) # {}
  BY <1>1 DEF Enqueue
<1>2. CASE SameCalldata(Q, w) = {}
  <2> DEFINE new == NewEntry(Q.nextId, w.intent, w, NoKey)
  <2>1. Q.nextId \in Nat /\ Q.entries \subseteq Entries
    BY DEF Queues
  <2>2. new \in Entries /\ new.calldata = w
    BY <2>1, NewEntryType DEF NewEntry
  <2> DEFINE kept == Evict(Q.entries \cup {new})
  <2>3. Enqueue(Q, w.intent, w) = [entries |-> kept, nextId |-> Q.nextId + 1]
    BY <1>2 DEF Enqueue, Push
  <2>4. kept \subseteq Q.entries \cup {new}
    BY EvictRemoves
  <2> HIDE DEF new, kept
  <2>5. Enqueue(Q, w.intent, w) \in Queues
    <3>1. kept \in SUBSET Entries
      BY <2>1, <2>2, <2>4
    <3>2. Q.nextId + 1 \in Nat
      BY <2>1
    <3> QED BY <3>1, <3>2, <2>3 DEF Queues
  <2>6. \A e \in Enqueue(Q, w.intent, w).entries : e = new \/ e \in Q.entries
    BY <2>3, <2>4
  <2> QED BY <2>2, <2>5, <2>6
<1> QED BY <1>1, <1>2

\* mark_request_observed keeps the queue a queue and changes no calldata.
LEMMA ObserveKeepsCalldata ==
  ASSUME NEW Q \in Queues, NEW id \in Nat
  PROVE  /\ Observe(Q, id, id) \in Queues
         /\ \A e \in Observe(Q, id, id).entries :
              \E f \in Q.entries : e.calldata = f.calldata
<1>1. CASE ~Known(Q, id)
  BY <1>1 DEF Observe
<1>2. CASE Known(Q, id)
  <2> DEFINE named == {e \in Q.entries : e.id = id}
             e0 == EntryOf(Q, id)
             e1 == [e0 EXCEPT !.status = "submitted", !.tx = id]
  <2>1. PICK e \in named : TRUE
    BY <1>2 DEF Known
  <2>2. \A o \in named : e.id <= o.id
    BY <2>1
  <2>3. e0 \in named
    BY <2>1, <2>2 DEF EntryOf, First
  <2>4. e0 \in Entries /\ Q.entries \subseteq Entries
    BY <2>3 DEF Queues
  <2>5. e1 \in Entries /\ e1.calldata = e0.calldata
    BY <2>4 DEF Entries
  <2>6. Observe(Q, id, id) = [Q EXCEPT !.entries = (Q.entries \ {e0}) \cup {e1}]
    BY <1>2 DEF Observe, Replace
  <2> HIDE DEF e0, e1
  <2>7. Observe(Q, id, id) \in Queues
    BY <2>4, <2>5, <2>6 DEF Queues
  <2>8. \A f \in Observe(Q, id, id).entries : f = e1 \/ f \in Q.entries
    BY <2>6 DEF Queues
  <2> QED BY <2>3, <2>5, <2>7, <2>8
<1> QED BY <1>1, <1>2

-----------------------------------------------------------------------------
(* Type correctness, one lemma per group of actions. *)

\* The views a step can hold are typed.
LEMMA NoViewType == NoView \in Views
BY DEF NoView, Views, JobStates, Tiers

\* resolve keeps the types.
LEMMA ResolveType == TypeOK /\ Step /\ Resolve => TypeOK'
<1> SUFFICES ASSUME TypeOK, Resolve, UNCHANGED <<chain, net, receipts, faults>>
             PROVE  TypeOK'
  BY DEF Step
<1> USE NoViewType
<1>1. view' \in Views
  <2>1. CASE ReadJob
    BY <2>1 DEF ReadJob, TypeOK, Chains, Views, NoView, Tiers, JobStates
  <2>2. CASE ReadHead
    BY <2>2 DEF ReadHead, TypeOK, Chains, Views
  <2>3. CASE ReadGates
    <3>1. CASE view.ours
      <4>1. /\ chain.commitBlock \in Nat /\ chain.verifiedAt \in Nat
            /\ chain.resolvedForProvider \in BOOLEAN
        BY DEF TypeOK, Chains
      <4>2. view \in Views
        BY DEF TypeOK
      <4> QED BY <2>3, <3>1, <4>1, <4>2 DEF ReadGates, Views
    <3>2. CASE ~view.ours
      BY <2>3, <3>2 DEF ReadGates, EndStep
    <3> QED BY <3>1, <3>2
  <2>4. CASE ReadFails
    BY <2>4 DEF ReadFails, EndStep
  <2> QED BY <2>1, <2>2, <2>3, <2>4 DEF Resolve
<1>2. pc' \in {"idle", "head", "gates", "nonce"} /\ (pc' = "nonce" => view'.ours)
  BY DEF Resolve, ReadJob, ReadHead, ReadGates, ReadFails, EndStep, TypeOK, Views
<1>3. UNCHANGED <<chain, net, receipts, faults, disk, synced, offered, q, mem, active>>
  BY DEF Resolve, ReadJob, ReadHead, ReadGates, ReadFails
<1> QED BY <1>1, <1>2, <1>3 DEF TypeOK
\* So do the nonce and artifact files' loads.
LEMMA LoadType == TypeOK /\ Step /\ (LoadNonce \/ MintNonce \/ LoadArtifacts) => TypeOK'
<1> SUFFICES ASSUME TypeOK, UNCHANGED <<chain, net, receipts, faults>>,
                    LoadNonce \/ MintNonce \/ LoadArtifacts
             PROVE  TypeOK'
  BY DEF Step
<1> USE NoViewType
<1>1. CASE LoadNonce
  BY <1>1 DEF LoadNonce, EndStep, TypeOK
<1>2. CASE MintNonce
  <2>1. disk' \in Files
    BY <1>2 DEF MintNonce, TypeOK, Files
  <2>2. view' \in Views
    BY <1>2 DEF MintNonce, EndStep, TypeOK
  <2>3. \/ pc' = "idle"
        \/ pc' = "artifacts" /\ disk'.nonce \in Nonces /\ view'.ours
    BY <1>2 DEF MintNonce, EndStep, TypeOK, Files
  <2>4. UNCHANGED <<q, mem, active, synced, offered>>
    BY <1>2 DEF MintNonce
  <2> QED BY <2>1, <2>2, <2>3, <2>4 DEF TypeOK
<1>3. CASE LoadArtifacts
  <2>1. mem' \in Progress
    BY <1>3 DEF LoadArtifacts, TypeOK, Files, Progress
  <2>2. view' \in Views
    BY <1>3 DEF LoadArtifacts, EndStep, TypeOK
  <2>3. \/ pc' = "idle"
        \/ pc' = "plan" /\ disk'.nonce \in Nonces /\ view'.ours
    BY <1>3 DEF LoadArtifacts, EndStep, TypeOK
  <2>4. UNCHANGED <<q, active, disk, synced, offered>>
    BY <1>3 DEF LoadArtifacts
  <2> QED BY <2>1, <2>2, <2>3, <2>4 DEF TypeOK
<1> QED BY <1>1, <1>2, <1>3

\* The writes the planner can sign are writes, and only a commitment is offered.
LEMMA SignType == TypeOK /\ Sign(view) => q' \in Queues /\ offered' \in SUBSET Artifacts
<1> SUFFICES ASSUME TypeOK, Sign(view)
             PROVE  q' \in Queues /\ offered' \in SUBSET Artifacts
  OBVIOUS
<1>1. ASSUME NEW w \in Writes, SignWrite(w),
             w.intent = "submitCommitment" => w.art \in Artifacts
      PROVE  q' \in Queues /\ offered' \in SUBSET Artifacts
  BY <1>1, EnqueueAdds DEF SignWrite, Request, TypeOK
<1>2. Start \in Writes /\ Complete \in Writes
  BY DEF Start, Complete, Write, Writes, Intents
<1>3. \A a \in Artifacts : Commit(a) \in Writes /\ Reveal(a) \in Writes
  BY DEF Commit, Reveal, Write, Writes, Intents
<1>4. PlansCommitment(view, mem.art) \/ PlansResult(view, mem.art) => mem.art \in Artifacts
  BY DEF PlansCommitment, PlansResult, ResultDue, TypeOK, Progress
<1> QED BY <1>1, <1>2, <1>3, <1>4 DEF Sign, Start, Commit, Reveal, Complete, Write

\* Acting on the plan and saving keep the types.
LEMMA DriveType == TypeOK /\ Step /\ (Drive \/ Save) => TypeOK'
<1> SUFFICES ASSUME TypeOK, UNCHANGED <<chain, net, receipts, faults>>, Drive \/ Save
             PROVE  TypeOK'
  BY DEF Step
<1> USE NoViewType
<1>1. CASE Drive /\ Sign(view)
  <2>1. UNCHANGED <<mem, disk, synced>> /\ active' = 1 /\ EndStep
    BY <1>1 DEF Sign, SignWrite
  <2> QED BY <1>1, <2>1, SignType DEF EndStep, TypeOK
<1>2. CASE Drive /\ Infer
  <2>1. mem' \in Progress
    BY <1>2 DEF Drive, Infer, TypeOK, Progress, Files, Artifacts
  <2> QED BY <1>2, <2>1 DEF Drive, Infer, TypeOK
<1>3. CASE Drive /\ (AwaitInput \/ InferFails)
  BY <1>3 DEF AwaitInput, InferFails, EndStep, TypeOK
<1>4. CASE Drive /\ ~Sign(view) /\ ~Infer /\ ~AwaitInput /\ ~InferFails
  <2>1. EndStep /\ UNCHANGED <<q, mem, disk, synced, offered>> /\ active' \in {0, active}
    BY <1>4 DEF Drive
  <2> QED BY <2>1 DEF EndStep, TypeOK
<1>5. CASE Save
  <2>1. disk' \in Files /\ disk'.nonce = disk.nonce /\ synced' \in Files /\ mem' \in Progress
    BY <1>5 DEF Save, Rename, SyncDir, SaveFails, TypeOK, Files, Progress
  <2>2. view' \in Views /\ (pc' = "idle" \/ (pc' = "sync" /\ pc = "save" /\ view' = view))
    BY <1>5 DEF Save, Rename, SyncDir, SaveFails, EndStep, TypeOK
  <2>3. UNCHANGED <<q, active, offered>>
    BY <1>5 DEF Save, Rename, SyncDir, SaveFails
  <2> QED BY <2>1, <2>2, <2>3 DEF TypeOK
<1> QED BY <1>1, <1>2, <1>3, <1>4, <1>5
\* The surface keeps the types.
LEMMA SurfaceType == TypeOK /\ Surface => TypeOK'
<1> SUFFICES ASSUME TypeOK, Surface PROVE TypeOK'
  OBVIOUS
<1>1. ASSUME NEW e \in q.entries, Broadcast(e)
      PROVE  q' \in Queues /\ net' \in SUBSET Writes /\ receipts' \in SUBSET Nat
  BY <1>1 DEF Broadcast, TypeOK, Queues, Entries
<1>2. ASSUME NEW id \in receipts, Observed(id)
      PROVE  q' \in Queues /\ net' \in SUBSET Writes /\ receipts' \in SUBSET Nat
  BY <1>2, ObserveKeepsCalldata DEF Observed, TypeOK
<1>3. UNCHANGED <<chain, disk, synced, mem, active, view, pc, faults, offered>>
  BY DEF Surface
<1> QED BY <1>1, <1>2, <1>3 DEF Surface, TypeOK

\* A mined write leaves a job record.
LEMMA MinedType ==
  ASSUME NEW c \in Chains, NEW w \in Writes PROVE Mined(c, w) \in Chains
<1>1. CASE w.intent = "startExecution"
  BY <1>1 DEF Mined, Chains, JobStates
<1>2. CASE w.intent = "submitCommitment"
  BY <1>2 DEF Mined, Chains, Writes
<1>3. CASE w.intent = "submitResult"
  BY <1>3 DEF Mined, Chains, JobStates
<1>4. CASE w.intent = "completeJob"
  BY <1>4 DEF Mined, Chains, JobStates
<1> QED BY <1>1, <1>2, <1>3, <1>4 DEF Writes, Intents

\* A job moves between its states, and only its state changes.
LEMMA MovedType ==
  ASSUME NEW c \in Chains, NEW s \in JobStates
  PROVE  [c EXCEPT !.state = s] \in Chains
BY DEF Chains

\* It is assigned, or a dispute resolved, and nothing else changes.
LEMMA FlaggedType ==
  ASSUME NEW c \in Chains, NEW b \in BOOLEAN
  PROVE  [c EXCEPT !.ours = b] \in Chains /\ [c EXCEPT !.resolvedForProvider = b] \in Chains
BY DEF Chains

\* The states the owner, the disputes and the clock move a job to.
LEMMA MovesAreStates ==
  {"Assigned", "Verifying", "Disputed", "Failed", "Timeout"} \subseteq JobStates
BY DEF JobStates

\* The contracts keep the types.
LEMMA ChainType == TypeOK /\ Chain => TypeOK'
<1> SUFFICES ASSUME TypeOK, Chain PROVE TypeOK'
  OBVIOUS
<1>1. chain' \in Chains /\ net' \in SUBSET Writes
  <2>1. ASSUME NEW w \in net, Mine(w) PROVE chain' \in Chains /\ net' \in SUBSET Writes
    BY <2>1, MinedType DEF Mine, TypeOK
  <2> chain \in Chains
    BY DEF TypeOK
  <2>2. Assign => chain' \in Chains
    <3>1. ASSUME NEW ours \in BOOLEAN
          PROVE  [[chain EXCEPT !.state = "Assigned"] EXCEPT !.ours = ours] \in Chains
      BY MovedType, MovesAreStates, FlaggedType
    <3>2. ASSUME NEW ours \in BOOLEAN
          PROVE  [chain EXCEPT !.state = "Assigned", !.ours = ours]
                   = [[chain EXCEPT !.state = "Assigned"] EXCEPT !.ours = ours]
      BY DEF Chains
    <3> QED BY <3>1, <3>2 DEF Assign
  <2>3. Verify => chain' \in Chains
    BY DEF Verify, TypeOK, Chains
  <2>4. Dispute => chain' \in Chains
    <3>1. [[chain EXCEPT !.state = "Verifying"] EXCEPT !.resolvedForProvider = TRUE] \in Chains
      BY MovedType, MovesAreStates, FlaggedType
    <3>2. [chain EXCEPT !.state = "Verifying", !.resolvedForProvider = TRUE]
            = [[chain EXCEPT !.state = "Verifying"] EXCEPT !.resolvedForProvider = TRUE]
      BY DEF Chains
    <3>3. [chain EXCEPT !.state = "Disputed"] \in Chains /\ [chain EXCEPT !.state = "Failed"] \in Chains
      BY MovedType, MovesAreStates
    <3> QED BY <3>1, <3>2, <3>3 DEF Dispute, Moves
  <2>5. TimeOut => chain' \in Chains
    BY MovedType, MovesAreStates DEF TimeOut, Moves
  <2>6. NewBlock => chain' \in Chains
    BY DEF NewBlock, TypeOK, Chains
  <2> QED BY <2>1, <2>2, <2>3, <2>4, <2>5, <2>6 DEF Chain, TypeOK
<1>2. UNCHANGED <<receipts, disk, synced, executor, faults, offered>>
  BY DEF Chain
<1> QED BY <1>1, <1>2 DEF TypeOK, executor

\* So do a restart and a power loss.
LEMMA FaultType == TypeOK /\ (Crash \/ PowerLoss) => TypeOK'
<1> SUFFICES ASSUME TypeOK, Crash \/ PowerLoss PROVE TypeOK'
  OBVIOUS
<1>1. q' \in Queues /\ mem' \in Progress /\ view' \in Views /\ pc' = "idle" /\ active' = 0
  BY NoViewType
     DEF Crash, PowerLoss, LoseMemory, EndStep, EmptyQueue, Queues, NoProgress, Progress
<1>2. disk' \in Files /\ synced' \in Files
  BY DEF Crash, PowerLoss, TypeOK, Files
<1>3. faults' \in [crashes : Nat, powerLosses : Nat, syncFails : BOOLEAN]
  BY DEF Crash, PowerLoss, TypeOK
<1>4. UNCHANGED <<chain, net, receipts, offered>>
  BY DEF Crash, PowerLoss, LoseMemory
<1> QED BY <1>1, <1>2, <1>3, <1>4 DEF TypeOK

\* Every variable always has its type, whatever fails: in particular a step
\* never plans with a torn nonce or for a job of another provider.
THEOREM TypeCorrect == Spec => []TypeOK
<1>1. Init => TypeOK
  BY NoViewType, JobAssumption
     DEF Init, TypeOK, Chains, Queues, Files, Progress, JobStates, Tiers, EmptyQueue,
         NoFiles, NoProgress
<1>2. TypeOK /\ [Next]_vars => TypeOK'
  <2> SUFFICES ASSUME TypeOK, [Next]_vars PROVE TypeOK'
    OBVIOUS
  <2>1. CASE Step
    BY <2>1, ResolveType, LoadType, DriveType DEF Step
  <2>2. CASE Surface \/ Chain \/ Crash \/ PowerLoss
    BY <2>2, SurfaceType, ChainType, FaultType
  <2>3. CASE UNCHANGED vars
    BY <2>3 DEF vars, executor, TypeOK
  <2> QED BY <2>1, <2>2, <2>3 DEF Next
<1> QED BY <1>1, <1>2, PTL DEF Spec
-----------------------------------------------------------------------------
(* The inductive invariant: what the writes know. *)

\* A step that adds no write and moves no commitment keeps RevealsOpen.
LEMMA NoNewWrites ==
  ASSUME RevealsOpen, Requested' \subseteq Requested, offered' = offered,
         chain'.commitment = chain.commitment, view'.committed => view.committed
  PROVE  RevealsOpen'
BY DEF RevealsOpen, LandedIsOffered, CommittedIsRead, RevealOpensCommitment, Calls

\* Only queue and network make Requested.
LEMMA SameRequested == UNCHANGED <<net, q>> => Requested' = Requested
BY DEF Requested

\* Dropping the view forgets that it read a commitment.
LEMMA EndStepForgets == EndStep => ~view'.committed /\ pc' = "idle"
BY DEF EndStep, NoView

\* resolve reads a commitment only if there is one.
LEMMA ResolveReveals == IInv /\ Step /\ Resolve => RevealsOpen'
<1> SUFFICES ASSUME TypeOK, RevealsOpen, Resolve, UNCHANGED <<chain, net>>
             PROVE  RevealsOpen'
  BY DEF Step, IInv
<1>1. UNCHANGED <<q, offered>>
  BY DEF Resolve, ReadJob, ReadHead, ReadGates, ReadFails
<1>2. view'.committed => chain.commitment # NoArt
  <2>1. CASE ReadJob
    BY <2>1 DEF ReadJob, NoView
  <2>2. CASE ReadHead
    BY <2>2 DEF ReadHead, TypeOK, Views, RevealsOpen, CommittedIsRead
  <2>3. CASE ReadGates
    BY <2>3, EndStepForgets DEF ReadGates, TypeOK, Views
  <2>4. CASE ReadFails
    BY <2>4, EndStepForgets DEF ReadFails
  <2> QED BY <2>1, <2>2, <2>3, <2>4 DEF Resolve
<1>3. Requested' = Requested
  BY <1>1, SameRequested
<1> QED BY <1>1, <1>2, <1>3
        DEF RevealsOpen, LandedIsOffered, CommittedIsRead, RevealOpensCommitment, Calls

\* The disk operations and inference request nothing.
LEMMA LocalReveals ==
  IInv /\ Step /\ (LoadNonce \/ MintNonce \/ LoadArtifacts \/ (Drive /\ ~Sign(view)) \/ Save)
    => RevealsOpen'
<1> SUFFICES ASSUME RevealsOpen, UNCHANGED <<chain, net>>,
               LoadNonce \/ MintNonce \/ LoadArtifacts \/ (Drive /\ ~Sign(view)) \/ Save
             PROVE  RevealsOpen'
  BY DEF Step, IInv
<1>1. UNCHANGED <<q, offered>>
  BY DEF LoadNonce, MintNonce, LoadArtifacts, Drive, AwaitInput, Infer, InferFails, Save,
         Rename, SyncDir, SaveFails
<1>2. view' = view \/ EndStep
  BY DEF LoadNonce, MintNonce, LoadArtifacts, Drive, AwaitInput, Infer, InferFails, Save,
         Rename, SyncDir, SaveFails
<1> QED BY <1>1, <1>2, SameRequested, EndStepForgets, NoNewWrites

\* A signed commitment is offered; a signed reveal is the offer that landed.
LEMMA SignReveals == IInv /\ Step /\ Drive /\ Sign(view) => RevealsOpen'
<1> SUFFICES ASSUME TypeOK, FilesKept, RevealsOpen, pc = "plan", Sign(view),
                    UNCHANGED <<chain, net>>
             PROVE  RevealsOpen'
  BY DEF Step, IInv, Drive
<1>1. ASSUME NEW w \in Writes, Request(w) PROVE Requested' \subseteq Requested \cup {w}
  <2>1. \A e \in q'.entries : e.calldata = w \/ \E f \in q.entries : e.calldata = f.calldata
    BY <1>1, EnqueueAdds DEF Request, TypeOK
  <2> QED BY <2>1 DEF Requested
<1>2. ~view'.committed
  BY EndStepForgets DEF Sign, SignWrite
<1>3. Start \in Writes /\ Complete \in Writes
  BY DEF Start, Complete, Write, Writes, Intents
<1>4. \A a \in Artifacts : Commit(a) \in Writes /\ Reveal(a) \in Writes
  BY DEF Commit, Reveal, Write, Writes, Intents
<1>5. mem.art # NoArt => mem.art \in Artifacts /\ mem.art = disk.art
  BY DEF TypeOK, Progress, FilesKept, HeldIsSaved
<1>6. CASE SignWrite(Start) \/ SignWrite(Complete)
  <2>1. offered' = offered
    BY <1>6 DEF SignWrite, Request, Start, Complete, Write
  <2>2. Requested' \subseteq Requested \cup {Start, Complete}
    BY <1>1, <1>3, <1>6 DEF SignWrite
  <2>3. \A w \in Requested' : w.intent \in {"submitCommitment", "submitResult"} => w \in Requested
    BY <2>2 DEF Start, Complete, Write
  <2> QED BY <1>2, <2>1, <2>3
          DEF RevealsOpen, LandedIsOffered, CommittedIsRead, RevealOpensCommitment, Calls
<1>7. CASE PlansCommitment(view, mem.art) /\ SignWrite(Commit(mem.art))
  <2>1. mem.art # NoArt
    BY <1>7 DEF PlansCommitment
  <2>2. offered' = offered \cup {mem.art}
    BY <1>7 DEF SignWrite, Request, Commit, Write
  <2>3. Requested' \subseteq Requested \cup {Commit(mem.art)}
    BY <1>1, <1>4, <1>5, <1>7, <2>1 DEF SignWrite
  <2> QED BY <1>2, <2>2, <2>3
          DEF RevealsOpen, LandedIsOffered, CommittedIsRead, RevealOpensCommitment, Calls,
              Commit, Write
<1>8. CASE PlansResult(view, mem.art) /\ SignWrite(Reveal(mem.art))
  <2>1. mem.art # NoArt /\ view.committed
    BY <1>8 DEF PlansResult, ResultDue
  <2>2. mem.art = chain.commitment
    BY <1>5, <2>1 DEF RevealsOpen, LandedIsOffered, CommittedIsRead, FilesKept, OfferedIsSaved
  <2>3. offered' = offered
    BY <1>8 DEF SignWrite, Request, Reveal, Write
  <2>4. Requested' \subseteq Requested \cup {Reveal(mem.art)}
    BY <1>1, <1>4, <1>5, <1>8, <2>1 DEF SignWrite
  <2> QED BY <1>2, <2>1, <2>2, <2>3, <2>4
          DEF RevealsOpen, LandedIsOffered, CommittedIsRead, RevealOpensCommitment, Calls,
              Reveal, Write
<1> QED BY <1>6, <1>7, <1>8 DEF Sign

\* The surface broadcasts what was requested, and a restart only forgets.
LEMMA SurfaceRequests ==
  TypeOK /\ (Surface \/ Crash \/ PowerLoss) => Requested' \subseteq Requested
<1> SUFFICES ASSUME TypeOK, Surface \/ Crash \/ PowerLoss PROVE Requested' \subseteq Requested
  OBVIOUS
<1>1. ASSUME NEW e \in q.entries, Broadcast(e) PROVE Requested' \subseteq Requested
  BY <1>1 DEF Broadcast, Requested
<1>2. ASSUME NEW id \in receipts, Observed(id) PROVE Requested' \subseteq Requested
  <2>1. \A e \in q'.entries : \E f \in q.entries : e.calldata = f.calldata
    BY <1>2, ObserveKeepsCalldata DEF Observed, TypeOK
  <2> QED BY <1>2, <2>1 DEF Observed, Requested
<1>3. CASE Crash \/ PowerLoss
  BY <1>3 DEF Crash, PowerLoss, LoseMemory, EmptyQueue, Requested
<1> QED BY <1>1, <1>2, <1>3 DEF Surface

\* So neither makes a reveal.
LEMMA SurfaceReveals == IInv /\ (Surface \/ Crash \/ PowerLoss) => RevealsOpen'
<1> SUFFICES ASSUME TypeOK, RevealsOpen, Surface \/ Crash \/ PowerLoss PROVE RevealsOpen'
  BY DEF IInv
<1>1. Requested' \subseteq Requested
  BY SurfaceRequests
<1>2. offered' = offered /\ chain' = chain
  BY DEF Surface, Crash, PowerLoss, LoseMemory
<1>3. view'.committed => view.committed
  BY EndStepForgets DEF Surface, Crash, PowerLoss, LoseMemory
<1> QED BY <1>1, <1>2, <1>3, NoNewWrites

\* A commitment lands once, before any reveal is requested.
LEMMA ChainReveals == IInv /\ Chain => RevealsOpen'
<1> SUFFICES ASSUME TypeOK, RevealsOpen, Chain PROVE RevealsOpen'
  BY DEF IInv
<1>1. Requested' \subseteq Requested /\ offered' = offered /\ view' = view
  BY DEF Chain, executor, Mine, Requested
<1>2. CASE chain'.commitment = chain.commitment
  BY <1>1, <1>2, NoNewWrites
<1>3. ASSUME NEW w \in net, Mine(w), chain'.commitment # chain.commitment
      PROVE  RevealsOpen'
  <2>1. /\ w.intent = "submitCommitment" /\ chain.commitment = NoArt
        /\ chain'.commitment = w.art
    <3>1. w.intent \in Intents /\ chain \in Chains
      BY DEF TypeOK, Writes
    <3>2. Accepted(chain, w) /\ chain' = Mined(chain, w)
      BY <1>3 DEF Mine
    <3>3. CASE w.intent = "submitCommitment"
      BY <3>1, <3>2, <3>3 DEF Accepted, Mined, Chains
    <3>4. CASE w.intent # "submitCommitment"
      BY <1>3, <3>1, <3>2, <3>4 DEF Mined, Chains, Intents
    <3> QED BY <3>3, <3>4
  <2>2. w.art \in offered /\ w.art # NoArt
    BY <2>1, JobAssumption
       DEF RevealsOpen, LandedIsOffered, Calls, Requested, TypeOK, Artifacts
  <2>3. Calls("submitResult") = {}
    BY <2>1 DEF RevealsOpen, RevealOpensCommitment
  <2>4. Calls("submitResult")' = {}
    BY <1>1, <2>3 DEF Calls
  <2> QED BY <1>1, <2>1, <2>2, <2>4
          DEF RevealsOpen, LandedIsOffered, CommittedIsRead, RevealOpensCommitment, Calls
<1>4. ASSUME Assign \/ Verify \/ Dispute \/ TimeOut \/ NewBlock
      PROVE  chain'.commitment = chain.commitment
  BY <1>4 DEF Assign, Verify, Dispute, TimeOut, NewBlock, Moves, TypeOK, Chains
<1> QED BY <1>2, <1>3, <1>4 DEF Chain

-----------------------------------------------------------------------------
(* The inductive invariant: what the disk knows. *)

\* A step that ends, or reads, and leaves files, offers and memory alone keeps
\* FilesKept.
LEMMA SameFiles ==
  ASSUME FilesKept, UNCHANGED <<faults, disk, synced, offered>>, pc \notin {"save", "sync"},
         mem' = mem \/ mem'.art = NoArt, pc' \notin {"plan", "save", "sync"}
  PROVE  FilesKept'
BY DEF FilesKept, OfferedIsSaved, SavedIsDurable, HeldIsSaved, FreshRun

\* What goes before the plan keeps the files, and looks for saved artifacts.
LEMMA LoadFiles ==
  IInv /\ Step /\ (Resolve \/ LoadNonce \/ MintNonce \/ LoadArtifacts) => FilesKept'
<1> SUFFICES ASSUME TypeOK, FilesKept, UNCHANGED faults,
                    Resolve \/ LoadNonce \/ MintNonce \/ LoadArtifacts
             PROVE  FilesKept'
  BY DEF IInv, Step
<1>1. CASE Resolve \/ LoadNonce
  BY <1>1, SameFiles
     DEF Resolve, ReadJob, ReadHead, ReadGates, ReadFails, LoadNonce, EndStep
<1>2. CASE MintNonce
  <2>1. disk'.art = disk.art /\ UNCHANGED <<synced, mem, offered>>
    BY <1>2 DEF MintNonce, TypeOK, Files
  <2>2. pc = "nonce" /\ pc' \in {"idle", "artifacts"}
    BY <1>2 DEF MintNonce, EndStep
  <2> QED BY <2>1, <2>2
          DEF FilesKept, OfferedIsSaved, SavedIsDurable, HeldIsSaved, FreshRun
<1>3. CASE LoadArtifacts
  <2>1. UNCHANGED <<disk, synced, offered>> /\ pc = "artifacts" /\ pc' \in {"idle", "plan"}
    BY <1>3 DEF LoadArtifacts, EndStep
  <2>2. \/ mem' = mem /\ (pc' = "plan" /\ mem.art = NoArt => disk.art = NoArt)
        \/ mem'.art = disk.art /\ disk.art # NoArt
    BY <1>3 DEF LoadArtifacts, EndStep
  <2> QED BY <2>1, <2>2
          DEF FilesKept, OfferedIsSaved, SavedIsDurable, HeldIsSaved, FreshRun
<1> QED BY <1>1, <1>2, <1>3

\* Only saved artifacts are offered, and inference runs only before any offer.
LEMMA DriveFiles == IInv /\ Step /\ Drive => FilesKept'
<1> SUFFICES ASSUME TypeOK, FilesKept, UNCHANGED faults, Drive PROVE FilesKept'
  BY DEF IInv, Step
<1>1. pc = "plan"
  BY DEF Drive
<1>2. CASE Sign(view)
  <2>1. UNCHANGED <<mem, disk, synced>> /\ pc' = "idle"
    BY <1>2 DEF Sign, SignWrite, EndStep
  <2>2. offered' = offered \/ (offered' = offered \cup {mem.art} /\ mem.art # NoArt)
    BY <1>2 DEF Sign, SignWrite, Request, PlansCommitment, Start, Commit, Reveal, Complete, Write
  <2> QED BY <1>1, <2>1, <2>2
          DEF FilesKept, OfferedIsSaved, SavedIsDurable, HeldIsSaved, FreshRun
<1>3. CASE Infer
  <2>1. UNCHANGED <<disk, synced, offered>> /\ pc' = "save" /\ mem.art = NoArt
    BY <1>3 DEF Infer, PlansInference
  <2>2. offered = {}
    BY <1>1, <2>1, JobAssumption DEF FilesKept, FreshRun, OfferedIsSaved, TypeOK, Artifacts
  <2> QED BY <1>1, <2>1, <2>2
          DEF FilesKept, OfferedIsSaved, SavedIsDurable, HeldIsSaved, FreshRun
<1>4. CASE ~Sign(view) /\ ~Infer
  <2>1. UNCHANGED <<disk, synced, offered, mem>> /\ pc' = "idle"
    BY <1>4 DEF Drive, AwaitInput, InferFails, EndStep
  <2> QED BY <1>1, <2>1, SameFiles
<1> QED BY <1>2, <1>3, <1>4

\* Saving makes the artifacts durable before the next step can offer them.
LEMMA SaveFiles == IInv /\ Step /\ Save => FilesKept'
<1> SUFFICES ASSUME TypeOK, Benign(faults), FilesKept, UNCHANGED faults, Save
             PROVE  FilesKept'
  BY DEF IInv, Step
<1>1. offered = {} /\ offered' = {}
  BY DEF Save, Rename, SyncDir, SaveFails, FilesKept, FreshRun
<1>2. CASE Rename
  BY <1>1, <1>2
     DEF Rename, TypeOK, Files, FilesKept, OfferedIsSaved, SavedIsDurable, HeldIsSaved, FreshRun
<1>3. CASE SyncDir
  BY <1>1, <1>3
     DEF SyncDir, EndStep, FilesKept, OfferedIsSaved, SavedIsDurable, HeldIsSaved, FreshRun
<1>4. CASE SaveFails
  BY <1>1, <1>4
     DEF SaveFails, EndStep, Benign, TypeOK, Progress, FilesKept, OfferedIsSaved,
         SavedIsDurable, HeldIsSaved, FreshRun
<1> QED BY <1>2, <1>3, <1>4 DEF Save

\* A power loss spares the offered artifacts.
LEMMA FaultFiles == IInv /\ (Crash \/ PowerLoss) => FilesKept' /\ Benign(faults')
<1> SUFFICES ASSUME TypeOK, Benign(faults), FilesKept, Crash \/ PowerLoss
             PROVE  FilesKept' /\ Benign(faults')
  BY DEF IInv
<1>1. mem'.art = NoArt /\ pc' = "idle" /\ offered' = offered
  BY DEF Crash, PowerLoss, LoseMemory, EndStep, NoProgress
<1>2. CASE Crash
  <2>1. faults.powerLosses = 0 /\ faults'.powerLosses = 0
    BY <1>2 DEF Crash, Benign, TypeOK
  <2>2. UNCHANGED <<disk, synced>>
    BY <1>2 DEF Crash
  <2> QED BY <1>1, <2>1, <2>2
          DEF Benign, FilesKept, OfferedIsSaved, SavedIsDurable, HeldIsSaved, FreshRun
<1>3. CASE PowerLoss
  <2>1. synced' = disk' /\ disk'.art \in {disk.art, synced.art}
    BY <1>3 DEF PowerLoss
  <2>2. faults.powerLosses # 0 /\ Benign(faults')
    BY <1>3 DEF PowerLoss, Benign, TypeOK
  <2>3. offered # {} => synced.art = disk.art
    BY <2>2 DEF FilesKept, SavedIsDurable, FreshRun
  <2> QED BY <1>1, <2>1, <2>2, <2>3
          DEF FilesKept, OfferedIsSaved, SavedIsDurable, HeldIsSaved, FreshRun
<1> QED BY <1>2, <1>3

-----------------------------------------------------------------------------
(* What a step has read still holds when it asks for a write.  None of this *)
(* depends on the faults.                                                   *)

\* A job settled under a tier the agent cannot prove gets no write at all.
UnprovableJobUntouched == chain.tier # "Commitment" => Requested = {}

\* Reads may be old, but the chain they were read from only moves forward.
ReadsArePast ==
  /\ chain.block >= 1
  /\ view.block <= chain.block
  /\ pc # "idle" => view.tier = chain.tier
  /\ view.verifiedAt # 0 => view.verifiedAt = chain.verifiedAt
  /\ view.resolvedForProvider => chain.resolvedForProvider
  /\ view.committed => chain.commitment # NoArt /\ view.commitBlock = chain.commitBlock

\* A reveal is asked for when its commitment is mined and its block is over.
RevealIsDue ==
  Calls("submitResult") # {} => chain.commitment # NoArt /\ chain.block > chain.commitBlock

WritesAreDue == ReadsArePast /\ RevealIsDue /\ CompletionIsDue /\ UnprovableJobUntouched

\* A step that asks for no write and leaves the chain alone keeps the invariant,
\* if what it has read since is what the chain holds.
LEMMA NoWriteIsDue ==
  ASSUME WritesAreDue, ReadsArePast', chain' = chain, Requested' \subseteq Requested
  PROVE  WritesAreDue'
BY DEF WritesAreDue, RevealIsDue, CompletionIsDue, UnprovableJobUntouched, Calls, WindowOver

\* A dropped view claims nothing.
LEMMA DroppedIsPast ==
  ASSUME TypeOK, ReadsArePast, EndStep, chain' = chain
  PROVE  ReadsArePast'
BY DEF TypeOK, Chains, ReadsArePast, EndStep, NoView

\* Reads keep it.
LEMMA ResolveIsDue == TypeOK /\ WritesAreDue /\ Step /\ Resolve => WritesAreDue'
<1> SUFFICES ASSUME TypeOK, WritesAreDue, Resolve, UNCHANGED <<chain, net>>
             PROVE  WritesAreDue'
  BY DEF Step
<1> USE DEF WritesAreDue
<1>1. ReadsArePast'
  <2>1. CASE ReadJob
    BY <2>1 DEF ReadJob, NoView, TypeOK, Chains, ReadsArePast
  <2>2. CASE ReadHead
    <3>1. /\ pc = "head" /\ chain' = chain
          /\ view' = [view EXCEPT !.block = chain.block]
      BY <2>2 DEF ReadHead
    <3>2. /\ view'.block = chain.block /\ view'.tier = view.tier
          /\ view'.verifiedAt = view.verifiedAt
          /\ view'.resolvedForProvider = view.resolvedForProvider
          /\ view'.committed = view.committed /\ view'.commitBlock = view.commitBlock
      BY <3>1 DEF TypeOK, Views
    <3>3. chain.block \in Nat
      BY DEF TypeOK, Chains
    <3> QED BY <3>1, <3>2, <3>3 DEF ReadsArePast
  <2>3. CASE ReadGates
    <3>1. CASE view.ours
      <4>1. chain' = chain /\ pc = "gates"
        BY <2>3 DEF ReadGates
      <4>2. /\ view'.block = view.block /\ view'.tier = view.tier
            /\ view'.verifiedAt = chain.verifiedAt
            /\ view'.resolvedForProvider = chain.resolvedForProvider
            /\ view'.committed = (chain.commitment # NoArt)
            /\ view'.commitBlock = chain.commitBlock
        BY <2>3, <3>1 DEF ReadGates, TypeOK, Views
      <4> QED BY <4>1, <4>2 DEF ReadsArePast
    <3>2. CASE ~view.ours
      BY <2>3, <3>2, DroppedIsPast DEF ReadGates
    <3> QED BY <3>1, <3>2
  <2>4. CASE ReadFails
    BY <2>4, DroppedIsPast DEF ReadFails
  <2> QED BY <2>1, <2>2, <2>3, <2>4 DEF Resolve
<1>2. UNCHANGED q
  BY DEF Resolve, ReadJob, ReadHead, ReadGates, ReadFails
<1> QED BY <1>1, <1>2, SameRequested, NoWriteIsDue

\* Disk operations, inference and holds ask for nothing.
LEMMA LocalIsDue ==
  TypeOK /\ WritesAreDue /\ Step
    /\ (LoadNonce \/ MintNonce \/ LoadArtifacts \/ (Drive /\ ~Sign(view)) \/ Save)
    => WritesAreDue'
<1> SUFFICES ASSUME TypeOK, WritesAreDue, UNCHANGED <<chain, net>>,
               LoadNonce \/ MintNonce \/ LoadArtifacts \/ (Drive /\ ~Sign(view)) \/ Save
             PROVE  WritesAreDue'
  BY DEF Step
<1>1. UNCHANGED q
  BY DEF LoadNonce, MintNonce, LoadArtifacts, Drive, AwaitInput, Infer, InferFails, Save,
         Rename, SyncDir, SaveFails
<1>2. (view' = view /\ pc # "idle") \/ EndStep
  BY DEF LoadNonce, MintNonce, LoadArtifacts, Drive, AwaitInput, Infer, InferFails, Save,
         Rename, SyncDir, SaveFails
<1>3. ReadsArePast'
  <2>1. CASE EndStep
    BY <2>1, DroppedIsPast DEF WritesAreDue
  <2>2. CASE view' = view /\ pc # "idle"
    BY <2>2 DEF WritesAreDue, ReadsArePast
  <2> QED BY <1>2, <2>1, <2>2
<1> QED BY <1>1, <1>3, SameRequested, NoWriteIsDue

\* What the planner finds due is due.
LEMMA SignIsDue == TypeOK /\ WritesAreDue /\ Step /\ Drive /\ Sign(view) => WritesAreDue'
<1> SUFFICES ASSUME TypeOK, WritesAreDue, pc = "plan", Sign(view), UNCHANGED <<chain, net>>
             PROVE  WritesAreDue'
  BY DEF Step, Drive
<1>1. ReadsArePast'
  BY DroppedIsPast DEF Sign, SignWrite, WritesAreDue
<1>2. chain.tier = "Commitment"
  BY DEF Sign, PlansStart, PlansCommitment, PlansResult, PlansComplete, ResultDue, Phase,
         WritesAreDue, ReadsArePast
<1>3. PICK w \in Writes :
        /\ Request(w)
        /\ w.intent = "submitResult" => PlansResult(view, mem.art)
        /\ w.intent = "completeJob" => PlansComplete(view)
  <2>1. Start \in Writes /\ Complete \in Writes
    BY DEF Start, Complete, Write, Writes, Intents
  <2>2. \A a \in Artifacts : Commit(a) \in Writes /\ Reveal(a) \in Writes
    BY DEF Commit, Reveal, Write, Writes, Intents
  <2>3. mem.art # NoArt => mem.art \in Artifacts
    BY DEF TypeOK, Progress
  <2>4. CASE SignWrite(Start)
    BY <2>1, <2>4 DEF SignWrite, Start, Write
  <2>5. CASE PlansComplete(view) /\ SignWrite(Complete)
    BY <2>1, <2>5 DEF SignWrite, Complete, Write
  <2>6. CASE PlansCommitment(view, mem.art) /\ SignWrite(Commit(mem.art))
    BY <2>2, <2>3, <2>6 DEF SignWrite, Commit, Write, PlansCommitment
  <2>7. CASE PlansResult(view, mem.art) /\ SignWrite(Reveal(mem.art))
    BY <2>2, <2>3, <2>7 DEF SignWrite, Reveal, Write, PlansResult, ResultDue
  <2> QED BY <2>4, <2>5, <2>6, <2>7 DEF Sign
<1>4. Requested' \subseteq Requested \cup {w}
  <2>1. \A e \in q'.entries : e.calldata = w \/ \E f \in q.entries : e.calldata = f.calldata
    BY <1>3, EnqueueAdds DEF Request, TypeOK
  <2> QED BY <2>1 DEF Requested
<1>5. RevealIsDue'
  <2>1. CASE w.intent = "submitResult"
    <3>1. view.committed /\ (view.commitBlock = 0 \/ view.block > view.commitBlock)
      BY <1>3, <2>1 DEF PlansResult, ResultDue, RevealTooEarly, TypeOK, Views
    <3> QED BY <3>1 DEF RevealIsDue, WritesAreDue, ReadsArePast, TypeOK, Views, Chains
  <2>2. CASE w.intent # "submitResult"
    BY <1>4, <2>2 DEF RevealIsDue, WritesAreDue, Calls
  <2> QED BY <2>1, <2>2
<1>6. CompletionIsDue'
  <2>1. CASE w.intent = "completeJob"
    <3>1. view.resolvedForProvider \/ WindowOver(view)
      BY <1>3, <2>1 DEF PlansComplete
    <3>2. WindowOver(view) => WindowOver(chain)
      BY JobAssumption DEF WindowOver, WritesAreDue, ReadsArePast, TypeOK, Views, Chains
    <3> QED BY <3>1, <3>2 DEF CompletionIsDue, WritesAreDue, ReadsArePast, WindowOver
  <2>2. CASE w.intent # "completeJob"
    BY <1>4, <2>2 DEF CompletionIsDue, WritesAreDue, Calls, WindowOver
  <2> QED BY <2>1, <2>2
<1> QED BY <1>1, <1>2, <1>5, <1>6 DEF WritesAreDue, UnprovableJobUntouched

\* The surface broadcasts what was asked for, and a restart only forgets.
LEMMA SurfaceIsDue ==
  TypeOK /\ WritesAreDue /\ (Surface \/ Crash \/ PowerLoss) => WritesAreDue'
<1> SUFFICES ASSUME TypeOK, WritesAreDue, Surface \/ Crash \/ PowerLoss PROVE WritesAreDue'
  OBVIOUS
<1>1. Requested' \subseteq Requested
  BY SurfaceRequests
<1>2. ReadsArePast'
  <2>1. CASE Surface
    BY <2>1 DEF Surface, WritesAreDue, ReadsArePast
  <2>2. CASE Crash \/ PowerLoss
    BY <2>2, DroppedIsPast DEF Crash, PowerLoss, LoseMemory, WritesAreDue
  <2> QED BY <2>1, <2>2
<1>3. chain' = chain
  BY DEF Surface, Crash, PowerLoss, LoseMemory
<1> QED BY <1>1, <1>2, <1>3, NoWriteIsDue

\* What the chain's record d may be once it was c.
MovesOn(c, d) ==
  /\ d.block \in Nat /\ d.block >= c.block /\ d.tier = c.tier
  /\ c.verifiedAt # 0 => d.verifiedAt = c.verifiedAt
  /\ c.resolvedForProvider => d.resolvedForProvider
  /\ c.commitment # NoArt => d.commitment = c.commitment /\ d.commitBlock = c.commitBlock

\* A write that is accepted moves the record on.
LEMMA MinedMovesOn ==
  ASSUME NEW c \in Chains, NEW w \in Writes, Accepted(c, w)
  PROVE  MovesOn(c, Mined(c, w))
<1> USE DEF Mined, MovesOn, Chains
<1>1. CASE w.intent = "startExecution"
  BY <1>1
<1>2. CASE w.intent = "submitCommitment"
  <2>1. c.commitment = NoArt
    BY <1>2 DEF Accepted
  <2>2. Mined(c, w) = [c EXCEPT !.commitment = w.art, !.commitBlock = c.block]
    BY <1>2
  <2> HIDE DEF Mined
  <2> QED BY <2>1, <2>2
<1>3. CASE w.intent = "submitResult"
  BY <1>3
<1>4. CASE w.intent = "completeJob"
  BY <1>4
<1> QED BY <1>1, <1>2, <1>3, <1>4 DEF Writes, Intents

\* The chain only moves forward, and takes back nothing a write was asked for on.
LEMMA ChainIsDue == TypeOK /\ WritesAreDue /\ Chain => WritesAreDue'
<1> SUFFICES ASSUME TypeOK, WritesAreDue, Chain PROVE WritesAreDue'
  OBVIOUS
<1>1. Requested' \subseteq Requested /\ view' = view /\ pc' = pc
  BY DEF Chain, executor, Mine, Requested
<1>2. MovesOn(chain, chain')
  <2>1. ASSUME NEW w \in net, Mine(w) PROVE MovesOn(chain, chain')
    <3>1. w \in Writes /\ chain \in Chains
      BY DEF TypeOK
    <3>2. CASE Accepted(chain, w) /\ chain' = Mined(chain, w)
      BY <3>1, <3>2, MinedMovesOn
    <3>3. CASE chain' = chain
      BY <3>1, <3>3 DEF Chains, MovesOn
    <3> QED BY <2>1, <3>2, <3>3 DEF Mine
  <2>2. ASSUME Assign \/ Verify \/ Dispute \/ TimeOut \/ NewBlock
        PROVE  MovesOn(chain, chain')
    <3>1. /\ chain'.tier = chain.tier /\ chain'.commitment = chain.commitment
          /\ chain'.commitBlock = chain.commitBlock
      BY <2>2 DEF Assign, Verify, Dispute, TimeOut, NewBlock, Moves, TypeOK, Chains
    <3>2. chain'.block \in {chain.block, chain.block + 1}
      BY <2>2 DEF Assign, Verify, Dispute, TimeOut, NewBlock, Moves, TypeOK, Chains
    <3>3. chain.verifiedAt # 0 => chain'.verifiedAt = chain.verifiedAt
      BY <2>2 DEF Assign, Verify, Dispute, TimeOut, NewBlock, Moves, TypeOK, Chains
    <3>4. chain'.resolvedForProvider \in {chain.resolvedForProvider, TRUE}
      BY <2>2 DEF Assign, Verify, Dispute, TimeOut, NewBlock, Moves, TypeOK, Chains
    <3>5. chain.resolvedForProvider => chain'.resolvedForProvider
      BY <3>4
    <3>6. chain'.block \in Nat /\ chain'.block >= chain.block
      BY <3>2 DEF TypeOK, Chains
    <3> QED BY <3>1, <3>3, <3>5, <3>6 DEF MovesOn
  <2> QED BY <2>1, <2>2 DEF Chain
<1> USE DEF MovesOn
<1>3. ReadsArePast'
  BY <1>1, <1>2 DEF WritesAreDue, ReadsArePast, TypeOK, Views, Chains
<1>4. RevealIsDue'
  BY <1>1, <1>2 DEF WritesAreDue, RevealIsDue, Calls, TypeOK, Chains
<1>5. CompletionIsDue'
  <2>1. WindowOver(chain) => WindowOver(chain')
    BY <1>2, JobAssumption DEF WindowOver, TypeOK, Chains
  <2> QED BY <1>1, <1>2, <2>1 DEF WritesAreDue, CompletionIsDue, Calls, WindowOver
<1>6. UnprovableJobUntouched'
  BY <1>1, <1>2 DEF WritesAreDue, UnprovableJobUntouched
<1> QED BY <1>3, <1>4, <1>5, <1>6 DEF WritesAreDue

\* What is written was due when it was requested, always.
LEMMA AlwaysDue == Spec => []WritesAreDue
<1>1. Init => WritesAreDue
  BY DEF Init, EmptyQueue, NoView, WritesAreDue, ReadsArePast, RevealIsDue, CompletionIsDue,
         UnprovableJobUntouched, Calls, Requested
<1>2. TypeOK /\ WritesAreDue /\ [Next]_vars => WritesAreDue'
  <2> SUFFICES ASSUME TypeOK, WritesAreDue, [Next]_vars PROVE WritesAreDue'
    OBVIOUS
  <2>1. CASE Step
    BY <2>1, ResolveIsDue, LocalIsDue, SignIsDue DEF Step
  <2>2. CASE Surface \/ Chain \/ Crash \/ PowerLoss
    BY <2>2, SurfaceIsDue, ChainIsDue
  <2>3. CASE UNCHANGED vars
    <3>1. UNCHANGED <<chain, net, q, view, pc>>
      BY <2>3 DEF vars, executor
    <3> QED BY <3>1, SameRequested, NoWriteIsDue DEF WritesAreDue, ReadsArePast
  <2> QED BY <2>1, <2>2, <2>3 DEF Next
<1> QED BY <1>1, <1>2, TypeCorrect, PTL DEF Spec

\* No reveal can land in its commitment's own block, however old the head was that
\* the executor planned it on.
THEOREM RevealsAreDue == Spec => []RevealAfterCommitBlock
<1>1. WritesAreDue => RevealAfterCommitBlock
  BY DEF WritesAreDue, RevealIsDue, RevealAfterCommitBlock
<1> QED BY <1>1, AlwaysDue, PTL

\* completeJob is never burnt on a revert before the dispute window is over.
THEOREM CompletionsAreDue == Spec => []CompletionIsDue
<1>1. WritesAreDue => CompletionIsDue
  BY DEF WritesAreDue
<1> QED BY <1>1, AlwaysDue, PTL

\* A job under a tier the agent cannot prove never gets a write, so the agent
\* cannot be drawn into work it will not be paid for.
THEOREM UnprovableGetsNothing == Spec => []UnprovableJobUntouched
<1>1. WritesAreDue => UnprovableJobUntouched
  BY DEF WritesAreDue
<1> QED BY <1>1, AlwaysDue, PTL

-----------------------------------------------------------------------------
(* The theorems. *)

\* IInv holds initially and every step keeps it.
LEMMA Invariance == BenignFaults => (Spec => []IInv)
<1> SUFFICES ASSUME BenignFaults PROVE Spec => []IInv
  OBVIOUS
<1>1. Init => Benign(faults) /\ FilesKept /\ RevealsOpen
  BY DEF BenignFaults, Init, NoFiles, NoProgress, NoView, EmptyQueue, FilesKept, OfferedIsSaved,
         SavedIsDurable, HeldIsSaved, FreshRun, RevealsOpen, LandedIsOffered, CommittedIsRead,
         RevealOpensCommitment, Calls, Requested
<1>2. IInv /\ [Next]_vars => Benign(faults)' /\ FilesKept' /\ RevealsOpen'
  <2> SUFFICES ASSUME IInv, [Next]_vars PROVE Benign(faults)' /\ FilesKept' /\ RevealsOpen'
    OBVIOUS
  <2>1. CASE Step
    BY <2>1, LoadFiles, DriveFiles, SaveFiles, ResolveReveals, LocalReveals, SignReveals
       DEF Step, IInv, Benign
  <2>2. CASE Surface \/ Chain
    <3>1. UNCHANGED <<faults, disk, synced, mem, pc, offered>>
      BY <2>2 DEF Surface, Chain, executor
    <3>2. Benign(faults)' /\ FilesKept'
      BY <3>1
         DEF Benign, IInv, FilesKept, OfferedIsSaved, SavedIsDurable, HeldIsSaved, FreshRun
    <3> QED BY <2>2, <3>2, SurfaceReveals, ChainReveals
  <2>3. CASE Crash \/ PowerLoss
    BY <2>3, FaultFiles, SurfaceReveals DEF Benign
  <2>4. CASE UNCHANGED vars
    BY <2>4, SameRequested, NoNewWrites
       DEF vars, executor, IInv, Benign, FilesKept, OfferedIsSaved, SavedIsDurable, HeldIsSaved, FreshRun
  <2> QED BY <2>1, <2>2, <2>3, <2>4 DEF Next
<1> QED BY <1>1, <1>2, TypeCorrect, PTL DEF Spec, IInv

\* The executor never asks for two different commitments, whatever crashes, failed
\* writes and re-runs of the model lie between (PBA-L6b-007).
THEOREM CommitsOnce == BenignFaults => (Spec => []OneCommitment)
<1>1. IInv => OneCommitment
  BY DEF IInv, FilesKept, OfferedIsSaved, OneCommitment
<1> QED BY <1>1, Invariance, PTL

\* Every reveal the executor asks for opens the commitment on the chain (NA-01).
THEOREM RevealsWhatItCommitted == BenignFaults => (Spec => []RevealOpensCommitment)
<1>1. IInv => RevealOpensCommitment
  BY DEF IInv, RevealsOpen
<1> QED BY <1>1, Invariance, PTL
\* The results a request or a broadcast asks to reveal.
Opening == {w.art : w \in Calls("submitResult")}

\* Every step makes one of the promise's moves, or none that it can see.
LEMMA StepKeepsPromise == IInv /\ IInv' /\ [Next]_vars => [Promises!Next]_(Promises!vars)
<1> SUFFICES ASSUME IInv, IInv', [Next]_vars PROVE Promises!Next
  BY DEF Promises!vars
<1> USE DEF Opening
<1>1. \A w \in Calls("submitResult") : w.art # NoArt /\ w.art = chain.commitment
  BY DEF IInv, RevealsOpen, RevealOpensCommitment
<1>2. \A w \in Calls("submitResult")' : w.art # NoArt /\ w.art = chain'.commitment
  BY DEF IInv, RevealsOpen, RevealOpensCommitment
<1>3. CASE offered' = offered /\ chain'.commitment = chain.commitment
  <2>1. CASE Calls("submitResult")' = {}
    BY <1>3, <2>1 DEF Promises!Next, Promises!Withdraw
  <2>2. CASE Calls("submitResult")' # {}
    <3>1. Opening' = {chain.commitment} /\ chain.commitment # NoArt
      BY <1>2, <1>3, <2>2
    <3> QED BY <1>3, <3>1 DEF Promises!Next, Promises!Open
  <2> QED BY <2>1, <2>2
<1>4. CASE offered' # offered
  <2>1. Step /\ Drive /\ PlansCommitment(view, mem.art) /\ SignWrite(Commit(mem.art))
    BY <1>4
       DEF Next, Step, Resolve, ReadJob, ReadHead, ReadGates, ReadFails, LoadNonce, MintNonce,
           LoadArtifacts, Drive, Sign, SignWrite, Request, Start, Reveal, Complete, Write,
           AwaitInput, Infer, InferFails, Save, Rename, SyncDir, SaveFails, Surface, Chain, Crash, PowerLoss,
           LoseMemory, vars
  <2>2. offered' = offered \cup {mem.art} /\ UNCHANGED <<chain, net>>
    BY <2>1 DEF SignWrite, Request, Commit, Write, Step
  <2>3. mem.art \in Artifacts /\ mem.art = disk.art
    BY <2>1 DEF PlansCommitment, Drive, IInv, TypeOK, Progress, FilesKept, HeldIsSaved
  <2>4. offered = {} /\ offered' = {mem.art}
    BY <1>4, <2>2, <2>3 DEF IInv, FilesKept, OfferedIsSaved
  <2>5. chain.commitment = NoArt
    BY <2>4 DEF IInv, RevealsOpen, LandedIsOffered
  <2>6. Calls("submitResult") = {} /\ Calls("submitResult")' = {}
    BY <1>1, <1>2, <2>2, <2>5
  <2> QED BY <2>2, <2>3, <2>4, <2>6 DEF Promises!Next, Promises!Promise
<1>5. CASE offered' = offered /\ chain'.commitment # chain.commitment
  <2>1. PICK w \in net : Mine(w) /\ UNCHANGED q
    BY <1>5
       DEF Next, Step, Surface, Chain, executor, Assign, Verify, Dispute, TimeOut, NewBlock,
           Moves, Crash, PowerLoss, LoseMemory, vars, IInv, TypeOK, Chains
  <2>2. chain.commitment = NoArt
    <3>1. w.intent \in Intents /\ chain \in Chains
      BY DEF IInv, TypeOK, Writes
    <3>2. Accepted(chain, w) /\ chain' = Mined(chain, w)
      BY <1>5, <2>1 DEF Mine
    <3>3. w.intent = "submitCommitment"
      BY <1>5, <3>1, <3>2 DEF Mined, Chains, Intents
    <3> QED BY <3>1, <3>2, <3>3 DEF Accepted
  <2>3. chain'.commitment \in offered
    BY <1>5, <2>2 DEF IInv, RevealsOpen, LandedIsOffered
  <2>4. Calls("submitResult") = {}
    BY <1>1, <2>2
  <2>5. Calls("submitResult")' = {}
    BY <2>1, <2>4 DEF Mine, Calls, Requested
  <2> QED BY <1>5, <2>2, <2>3, <2>4, <2>5 DEF Promises!Next, Promises!Land
<1> QED BY <1>3, <1>4, <1>5

\* The daemon with its queue and disk, the surface and the chain together
\* implement the abstract promise of module CommitReveal.
THEOREM KeepsPromise == BenignFaults => (Spec => CommitThenReveal)
<1>1. Init => Promises!Init
  BY DEF Init, EmptyQueue, Calls, Requested, Promises!Init
<1>2. IInv /\ IInv' /\ [Next]_vars => [Promises!Next]_(Promises!vars)
  BY StepKeepsPromise
<1> QED BY <1>1, <1>2, Invariance, PTL DEF Spec, CommitThenReveal, Promises!Spec
-----------------------------------------------------------------------------
(* The files of a commitment stay what they are, while power is lost once at *)
(* most: after two losses a nonce that is drawn again could be offered       *)
(* before its file is durable.                                               *)

LosesPowerOnce == \A f \in FaultModels : f.powerLosses <= 1

\* Before the loss, saved artifacts have a whole nonce beside them, and both are
\* durable except between the rename and the fsync.
DurableUntilLoss ==
  faults.powerLosses > 0 =>
    /\ disk.art # NoArt => disk.nonce \in Nonces
    /\ disk.art # NoArt /\ pc # "sync" => synced = disk

\* An offer has a whole nonce, and a loss that is still to come spares its files.
OffersAreDurable ==
  offered # {} => disk.nonce \in Nonces /\ (faults.powerLosses > 0 => synced = disk)

KInv == faults.powerLosses <= 1 /\ DurableUntilLoss /\ OffersAreDurable

\* Whatever leaves files and offers alone keeps the invariant, unless it leaves the
\* fsync undone.
LEMMA SameDisk ==
  ASSUME KInv, UNCHANGED <<disk, synced, faults, offered>>, pc = "sync" => pc' = "sync"
  PROVE  KInv'
BY DEF KInv, DurableUntilLoss, OffersAreDurable

\* Only the whole nonce of a job without artifacts is ever minted.
LEMMA LoadKeepsFiles ==
  KInv /\ IInv /\ Step /\ (Resolve \/ LoadNonce \/ MintNonce \/ LoadArtifacts)
    => KInv' /\ (offered # {} => disk' = disk)
<1> SUFFICES ASSUME KInv, TypeOK, FilesKept, UNCHANGED faults,
                    Resolve \/ LoadNonce \/ MintNonce \/ LoadArtifacts
             PROVE  KInv' /\ (offered # {} => disk' = disk)
  BY DEF IInv, Step
<1>1. CASE Resolve \/ LoadNonce \/ LoadArtifacts
  <2>1. UNCHANGED <<disk, synced, offered>> /\ pc # "sync"
    BY <1>1 DEF Resolve, ReadJob, ReadHead, ReadGates, ReadFails, LoadNonce, LoadArtifacts
  <2> QED BY <2>1, SameDisk
<1>2. CASE MintNonce
  <2>1. /\ disk.nonce = NoNonce /\ NoNonce \notin Nonces /\ pc = "nonce" /\ pc' # "sync"
        /\ UNCHANGED <<synced, offered>>
    BY <1>2, JobAssumption DEF MintNonce, EndStep
  <2>2. disk'.art = disk.art
    BY <1>2 DEF MintNonce, TypeOK, Files
  <2>3. offered = {}
    BY <2>1 DEF KInv, OffersAreDurable
  <2>4. faults.powerLosses > 0 => disk'.art = NoArt
    BY <2>1, <2>2 DEF KInv, DurableUntilLoss
  <2> QED BY <2>1, <2>3, <2>4 DEF KInv, DurableUntilLoss, OffersAreDurable
<1> QED BY <1>1, <1>2

\* A commitment is only offered once its artifacts and their nonce are durable.
LEMMA DriveKeepsFiles ==
  KInv /\ IInv /\ Step /\ Drive => KInv' /\ (offered # {} => disk' = disk)
<1> SUFFICES ASSUME KInv, TypeOK, FilesKept, UNCHANGED faults, Drive
             PROVE  KInv' /\ (offered # {} => disk' = disk)
  BY DEF IInv, Step
<1>1. pc = "plan"
  BY DEF Drive
<1>2. CASE Sign(view)
  <2>1. UNCHANGED <<disk, synced>> /\ pc' = "idle"
    BY <1>2 DEF Sign, SignWrite, EndStep
  <2>2. offered' = offered \/ mem.art # NoArt
    BY <1>2 DEF Sign, SignWrite, Request, PlansCommitment, Start, Commit, Reveal, Complete, Write
  <2>3. mem.art # NoArt => disk.art # NoArt /\ disk.nonce \in Nonces
    BY <1>1 DEF FilesKept, HeldIsSaved, TypeOK
  <2> QED BY <1>1, <2>1, <2>2, <2>3 DEF KInv, DurableUntilLoss, OffersAreDurable
<1>3. CASE ~Sign(view)
  <2>1. UNCHANGED <<disk, synced, offered>>
    BY <1>3 DEF Drive, AwaitInput, Infer, InferFails
  <2> QED BY <1>1, <2>1, SameDisk
<1> QED BY <1>2, <1>3

\* Nothing is offered while artifacts are saved.
LEMMA SaveKeepsFiles ==
  KInv /\ IInv /\ Step /\ Save => KInv' /\ (offered # {} => disk' = disk)
<1> SUFFICES ASSUME KInv, TypeOK, Benign(faults), FilesKept, UNCHANGED faults, Save
             PROVE  KInv' /\ (offered # {} => disk' = disk)
  BY DEF IInv, Step
<1>1. offered = {} /\ offered' = {}
  BY DEF Save, Rename, SyncDir, SaveFails, FilesKept, FreshRun
<1>2. CASE Rename
  <2>1. disk'.nonce = disk.nonce /\ disk.nonce \in Nonces /\ pc' = "sync"
    BY <1>2 DEF Rename, TypeOK, Files
  <2> QED BY <1>1, <2>1 DEF KInv, DurableUntilLoss, OffersAreDurable
<1>3. CASE SyncDir
  <2>1. synced' = disk /\ disk' = disk
    BY <1>3 DEF SyncDir
  <2> QED BY <1>1, <2>1 DEF KInv, DurableUntilLoss, OffersAreDurable
<1>4. CASE SaveFails /\ pc = "save"
  BY <1>4, SameDisk DEF SaveFails
<1>5. CASE SaveFails /\ pc = "sync"
  <2>1. faults.powerLosses = 0
    BY <1>5 DEF SaveFails, Benign
  <2> QED BY <1>1, <2>1 DEF KInv, DurableUntilLoss, OffersAreDurable
<1> QED BY <1>2, <1>3, <1>4, <1>5 DEF Save, SaveFails

\* A restart leaves the files, and a power loss those of an offer.
LEMMA FaultKeepsFiles ==
  KInv /\ IInv /\ (Crash \/ PowerLoss) => KInv' /\ (offered # {} => disk' = disk)
<1> SUFFICES ASSUME KInv, TypeOK, Benign(faults), Crash \/ PowerLoss
             PROVE  KInv' /\ (offered # {} => disk' = disk)
  BY DEF IInv
<1>1. offered' = offered
  BY DEF Crash, PowerLoss, LoseMemory
<1>2. CASE Crash
  <2>1. faults.powerLosses = 0 /\ faults'.powerLosses = 0 /\ UNCHANGED <<disk, synced>>
    BY <1>2 DEF Crash, Benign, TypeOK
  <2> QED BY <1>1, <2>1 DEF KInv, DurableUntilLoss, OffersAreDurable
<1>3. CASE PowerLoss
  <2>1. faults.powerLosses = 1 /\ faults'.powerLosses = 0
    BY <1>3 DEF PowerLoss, KInv, TypeOK
  <2>2. offered # {} => synced = disk
    BY <2>1 DEF KInv, OffersAreDurable
  <2>3. offered # {} => disk' = disk
    BY <1>3, <2>2 DEF PowerLoss, TypeOK, Files
  <2> QED BY <1>1, <2>1, <2>3 DEF KInv, DurableUntilLoss, OffersAreDurable
<1> QED BY <1>2, <1>3

\* From the first offer of a commitment on, the nonce and the artifacts that open
\* it are on disk and stay what they are (NonceStore: what was saved is what is
\* revealed).
THEOREM FilesOfOffersStay ==
  BenignFaults /\ LosesPowerOnce => (Spec => CommittedFilesKept)
<1> SUFFICES ASSUME BenignFaults, LosesPowerOnce PROVE Spec => CommittedFilesKept
  OBVIOUS
<1>1. Init => KInv
  BY DEF LosesPowerOnce, Init, NoFiles, KInv, DurableUntilLoss, OffersAreDurable
<1>2. KInv /\ IInv /\ [Next]_vars => KInv' /\ (offered # {} => disk' = disk)
  <2> SUFFICES ASSUME KInv, IInv, [Next]_vars
               PROVE  KInv' /\ (offered # {} => disk' = disk)
    OBVIOUS
  <2>1. CASE Step
    BY <2>1, LoadKeepsFiles, DriveKeepsFiles, SaveKeepsFiles DEF Step
  <2>2. CASE Surface \/ Chain \/ UNCHANGED vars
    <3>1. UNCHANGED <<disk, synced, faults, offered, pc>>
      BY <2>2 DEF Surface, Chain, vars, executor
    <3> QED BY <3>1, SameDisk
  <2>3. CASE Crash \/ PowerLoss
    BY <2>3, FaultKeepsFiles
  <2> QED BY <2>1, <2>2, <2>3 DEF Next
<1>3. IInv => (offered # {} => disk.art \in offered)
  BY DEF IInv, FilesKept, OfferedIsSaved
<1>4. KInv /\ IInv /\ [Next]_vars => (offered # {} => disk' = disk /\ disk.art \in offered)
  BY <1>2, <1>3
<1> QED BY <1>1, <1>2, <1>4, Invariance, PTL DEF Spec, CommittedFilesKept
=============================================================================
