--------------------------- MODULE LifecyclePlan ---------------------------
(***************************************************************************)
(* lifecycle::plan (crates/lifecycle/src/lib.rs), the pure planner of a    *)
(* won job, as one predicate per action it can choose.  The predicates     *)
(* spell out the order of the code's early returns: at most one holds.     *)
(*                                                                         *)
(* v is what the daemon read from the chain (ResolvedJob), art the         *)
(* executor's artifacts.  v.tier is effective_tier: the verifier's record, *)
(* or the same rule applied to the job when the record cannot be read.     *)
(***************************************************************************)
EXTENDS Integers

CONSTANTS
  NoArt,     \* no artifacts yet: inference has not run
  Deadline,  \* Job.executionDeadline, a block height
  Window     \* DISPUTE_WINDOW_BLOCKS, 100 in the code

JobStates == {"Posted", "Bidding", "Assigned", "Executing", "Verifying", "Completed",
              "Expired", "Timeout", "Failed", "Disputed"}

\* The phases in which this provider owes the next write, refused outright
\* unless the job is settled under the Commitment tier.
Driven == {"Assigned", "Executing", "Verifying"}

Phase(v, state) == v.state = state /\ v.ours /\ v.tier = "Commitment"

PlansStart(v) == Phase(v, "Assigned")
PlansInference(v, art) == Phase(v, "Executing") /\ art = NoArt
PlansCommitment(v, art) == Phase(v, "Executing") /\ art # NoArt /\ ~v.committed

\* The result step: late results are refused, and the reveal must land in a
\* later block than the commitment.
ResultDue(v, art) == Phase(v, "Executing") /\ art # NoArt /\ v.committed
TooLate(v) == v.block > Deadline
RevealTooEarly(v) == v.commitBlock # 0 /\ v.block <= v.commitBlock

\* Mutant of PlansResult: the reveal may share the commitment's block.
PlansResultInCommitBlock(v, art) == ResultDue(v, art) /\ ~TooLate(v)

PlansResult(v, art) == ResultDue(v, art) /\ ~TooLate(v) /\ ~RevealTooEarly(v)

\* The dispute window after the Valid verification has elapsed.
WindowOver(v) == v.verifiedAt # 0 /\ v.block >= v.verifiedAt + Window

\* Mutants of PlansComplete: one block early; a dispute is always awaited.
PlansCompleteEarly(v) ==
  Phase(v, "Verifying")
    /\ (v.resolvedForProvider \/ (v.verifiedAt # 0 /\ v.block + 1 >= v.verifiedAt + Window))
PlansCompleteAfterDispute(v) ==
  Phase(v, "Verifying") /\ v.resolvedForProvider /\ WindowOver(v)

PlansComplete(v) ==
  Phase(v, "Verifying") /\ (v.resolvedForProvider \/ WindowOver(v))

PlansDone(v) == v.state = "Completed"

PlansAbort(v, art) ==
  \/ v.state \in Driven /\ ~(v.ours /\ v.tier = "Commitment")
  \/ ResultDue(v, art) /\ TooLate(v)
  \/ v.state \in {"Expired", "Timeout", "Failed", "Disputed"}

\* Idle and Wait: hold, and plan again next tick.
PlansHold(v, art) ==
  \/ v.state \in {"Posted", "Bidding"}
  \/ ResultDue(v, art) /\ ~TooLate(v) /\ RevealTooEarly(v)
  \/ Phase(v, "Verifying") /\ ~v.resolvedForProvider /\ ~WindowOver(v)
=============================================================================
