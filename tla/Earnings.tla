------------------------------ MODULE Earnings ------------------------------
(***************************************************************************)
(* The earnings sweep: EarningsPoller (crates/node-agent/src/execution.rs) *)
(* with earnings::plan_claim (crates/earnings/src/lib.rs), the signing     *)
(* queue, and outside the repository the signing surface and               *)
(* ContributionAccounting.                                                 *)
(*                                                                         *)
(* claimRewards() has no arguments: every sweep has the same calldata.     *)
(***************************************************************************)
EXTENDS SigningQueue

CONSTANTS
  Threshold,   \* EarningsConfig.threshold_wei
  ClaimCall,   \* the calldata of claimRewards()
  NoReading,   \* the poller has not read the balance
  MaxEarned    \* bound: what is accrued in total

ASSUME EarningsAssumption ==
  /\ Cap \in Nat /\ Threshold \in Nat /\ MaxEarned \in Nat
  /\ NoReading \notin Nat /\ NoTx \notin Nat

VARIABLES
  claimable, earned,  \* ContributionAccounting: balance, and all that ever accrued
  net,                \* broadcast claims that are not mined yet
  receipts,           \* surface: ids of broadcasts it has still to report
  q,                  \* AgentState.pending_requests
  inFlight,           \* EarningsPoller.in_flight
  reading             \* the balance the running tick has read

vars == <<claimable, earned, net, receipts, q, inFlight, reading>>

Init ==
  /\ claimable = 0 /\ earned = 0
  /\ net = 0 /\ receipts = {}
  /\ q = EmptyQueue
  /\ inFlight = FALSE /\ reading = NoReading

\* ClaimableView::claimable.  (A failed read ends the tick and changes nothing
\* but last_error.)
ReadBalance ==
  /\ reading = NoReading
  /\ reading' = claimable
  /\ UNCHANGED <<claimable, earned, net, receipts, q, inFlight>>

\* Mutant of PlansClaim: the threshold is dropped.
PlansAnyClaim == ~inFlight /\ reading # 0

\* earnings::plan_claim
PlansClaim == ~inFlight /\ reading # 0 /\ reading >= Threshold

\* Mutant of Decide: the guard is set by every balance that is not zero.
DecideGuarded ==
  /\ reading # NoReading
  /\ reading' = NoReading
  /\ IF PlansClaim THEN q' = Enqueue(q, "claimRewards", ClaimCall) ELSE UNCHANGED q
  /\ inFlight' = (reading # 0)
  /\ UNCHANGED <<claimable, earned, net, receipts>>

\* The rest of EarningsPoller::tick; the relay's signer cannot fail.
Decide ==
  /\ reading # NoReading
  /\ reading' = NoReading
  /\ \/ reading = 0 /\ inFlight' = FALSE /\ UNCHANGED q
     \/ PlansClaim /\ inFlight' = TRUE /\ q' = Enqueue(q, "claimRewards", ClaimCall)
     \/ reading # 0 /\ ~PlansClaim /\ UNCHANGED <<inFlight, q>>
  /\ UNCHANGED <<claimable, earned, net, receipts>>

Poller == ReadBalance \/ Decide

-----------------------------------------------------------------------------
(* The surface and the contract (external). *)

Sign(e) ==
  /\ e.status = "pending" /\ e.id \notin receipts
  /\ net' = net + 1 /\ receipts' = receipts \cup {e.id}
  /\ UNCHANGED <<claimable, earned, q, inFlight, reading>>

Report(id) ==
  /\ q' = Observe(q, id, id) /\ receipts' = receipts \ {id}
  /\ UNCHANGED <<claimable, earned, net, inFlight, reading>>

Surface == (\E e \in q.entries : Sign(e)) \/ (\E id \in receipts : Report(id))

Sweep ==
  /\ net > 0
  /\ net' = net - 1 /\ claimable' = 0
  /\ UNCHANGED <<earned, receipts, q, inFlight, reading>>

Accrue ==
  /\ \E wei \in 1 .. MaxEarned - earned :
       claimable' = claimable + wei /\ earned' = earned + wei
  /\ UNCHANGED <<net, receipts, q, inFlight, reading>>

Next == Poller \/ Surface \/ Sweep \/ Accrue

\* The loop keeps polling, the surface signs, a broadcast claim is mined.
Fairness == WF_vars(Poller) /\ WF_vars(Surface) /\ WF_vars(Sweep)

Spec == Init /\ [][Next]_vars /\ Fairness

-----------------------------------------------------------------------------
(* Properties. *)

\* Every variable has its type, and all sweeps share one entry of the queue.
TypeOK ==
  /\ claimable \in Nat /\ earned \in Nat /\ claimable <= earned
  /\ net \in Nat /\ receipts \subseteq {0}
  /\ q.nextId \in 0 .. 1 /\ Cardinality(q.entries) = q.nextId
  /\ inFlight \in BOOLEAN
  /\ reading \in Nat \cup {NoReading}

\* A claim that waits to be signed is worth its gas: the balance it sweeps has
\* not fallen below the threshold since it was planned ("avoids dust-claiming").
DustNeverClaimed ==
  \A e \in q.entries :
    e.status = "pending" /\ e.id \notin receipts => claimable >= Threshold

\* The first balance that reaches the threshold is swept.
FirstSweep ==
  claimable >= Threshold /\ claimable = earned ~> claimable < earned

\* So is every later one: "once it crosses a configured threshold (and no claim is
\* already in flight), emit one unsigned SignatureRequest".
EverySweep == claimable >= Threshold /\ ~inFlight ~> claimable < Threshold
=============================================================================
