---------------------------- MODULE BidDecision ----------------------------
(***************************************************************************)
(* Whether and at what price to bid: bidder::evaluate                      *)
(* (crates/bidder/src/lib.rs) on what the tick gives it, that is           *)
(* bridge::map_job and bid_expires_block (node-agent/src/bridge.rs), the   *)
(* clock (clock.rs), the schedule (crates/config/src/lib.rs) and the       *)
(* profiler's work estimate (profiler.rs).                                 *)
(*                                                                         *)
(* The gates are pure, so their order only chooses the SkipReason that is  *)
(* logged; a decision here is a price or NoBid.  The EWMA of measured run  *)
(* times is an input, execSecs.  Wei amounts are u128 and saturate at      *)
(* MaxU128; seconds are u64 and saturate at MaxU64.                        *)
(***************************************************************************)
EXTENDS Integers

CONSTANTS
  Inputs,    \* the readings a tick may start from
  Salt,      \* ONE_SALT_WEI, 10^18 in the code
  MaxU128,   \* 2^128 - 1
  MaxU64,    \* 2^64 - 1
  NodePflops,\* node throughput, in pflops scaled by Salt
  NoBid, Undecided

Tiers == {"Commitment", "ZKProof", "Tee"}
Schedules == {"always", "nights", "weekends"}
States == {"Posted", "Bidding", "Assigned"}

Readings ==
  [enabled : BOOLEAN, schedule : Schedules, now : Nat,
   state : States, tier : Tiers, maxPrice : Nat, bindable : BOOLEAN,
   block : Nat, bidDeadline : Nat, deadline : Nat, secsPerBlock : Nat,
   execSecs : Nat \ {0}, saltPerPflopHour : Nat, stale : BOOLEAN,
   active : Nat, maxJobs : Nat]

ASSUME BidAssumption ==
  /\ Inputs \subseteq Readings
  /\ Salt \in Nat \ {0} /\ MaxU128 \in Nat /\ MaxU64 \in Nat /\ NodePflops \in Nat
  /\ MaxU128 >= 10 * Salt * Salt
  /\ NoBid \notin Nat /\ Undecided \notin Nat /\ NoBid # Undecided

Saturate(n, max) == IF n > max THEN max ELSE n

-----------------------------------------------------------------------------
(* Time. *)

\* utc_hour_min_weekday.  Day 0, 1970-01-01, was a Thursday.
Hour(secs) == (secs % 86400) \div 3600
Minute(secs) == (secs % 3600) \div 60
Weekday(secs) ==
  LET n == (secs \div 86400) % 7
  IN CASE n = 0 -> "Thu" [] n = 1 -> "Fri" [] n = 2 -> "Sat" [] n = 3 -> "Sun"
       [] n = 4 -> "Mon" [] n = 5 -> "Tue" [] n = 6 -> "Wed"

InWindow(schedule, secs) ==
  CASE schedule = "always" -> TRUE
    [] schedule = "nights" -> Hour(secs) >= 22 \/ Hour(secs) <= 5
    [] schedule = "weekends" -> Weekday(secs) \in {"Sat", "Sun"}

\* Mutant of SecsUntilWindowClose: Sunday is given another day.
MondayIncluded(schedule, secs) ==
  LET minutes == Hour(secs) * 60 + Minute(secs)
  IN IF ~InWindow(schedule, secs) THEN 0
     ELSE CASE schedule = "always" -> MaxU64
            [] schedule = "nights" ->
                 60 * (IF Hour(secs) >= 22 THEN 1440 - minutes + 360 ELSE 360 - minutes)
            [] schedule = "weekends" -> 60 * (2 * 1440 - minutes)

\* secs_until_window_close: nights end at 06:00, weekends on Monday at 00:00.
SecsUntilWindowClose(schedule, secs) ==
  LET minutes == Hour(secs) * 60 + Minute(secs)
      daysLeft == IF Weekday(secs) = "Sat" THEN 1 ELSE 0
  IN IF ~InWindow(schedule, secs) THEN 0
     ELSE CASE schedule = "always" -> MaxU64
            [] schedule = "nights" ->
                 60 * (IF Hour(secs) >= 22 THEN 1440 - minutes + 360 ELSE 360 - minutes)
            [] schedule = "weekends" -> 60 * (daysLeft * 1440 + 1440 - minutes)

\* Mutant of SecsUntilDeadline: a deadline behind the head is not cut off at 0.
DistanceToDeadline(in) ==
  LET blocks == IF in.deadline > in.block THEN in.deadline - in.block ELSE in.block - in.deadline
  IN Saturate((blocks % (MaxU64 + 1)) * in.secsPerBlock, MaxU64)

\* map_job: a saturating difference, cut to 64 bits, times the block time.
SecsUntilDeadline(in) ==
  LET blocks == IF in.deadline > in.block THEN in.deadline - in.block ELSE 0
  IN Saturate((blocks % (MaxU64 + 1)) * in.secsPerBlock, MaxU64)

-----------------------------------------------------------------------------
(* Money. *)

\* ModelProfiler::estimate, then ComputePricingOracle::estimated_cost_wei.
PflopHours(in) == Saturate(NodePflops * in.execSecs, MaxU128) \div 3600
EstimatedCost(in) ==
  Saturate(PflopHours(in) * in.saltPerPflopHour, MaxU128) \div Salt

\* Cost plus 15%, and at most 90% of the requester's maximum.
CostPlus(in) == Saturate(EstimatedCost(in) * 115, MaxU128) \div 100
Ceiling(in) == Saturate(in.maxPrice * 90, MaxU128) \div 100
Price(in) == IF CostPlus(in) < Ceiling(in) THEN CostPlus(in) ELSE Ceiling(in)

-----------------------------------------------------------------------------
(* The gates. *)

\* bid_expires_block: open for bids, and an input the executor can bind.
Open(in) ==
  in.state \in {"Posted", "Bidding"} /\ in.bindable /\ in.block < in.bidDeadline

Participates(in) == in.enabled /\ InWindow(in.schedule, in.now)

\* Mutant of WithinTier: the 10 SALT cap is not looked at.
AnyValue(in) == in.tier = "Commitment"

WithinTier(in) == in.maxPrice < 10 * Salt /\ in.tier = "Commitment"

HasCapacity(in) == in.maxJobs # 0 /\ in.active * 100 < in.maxJobs * 80

FitsInTime(in) ==
  /\ SecsUntilDeadline(in) >= 2 * in.execSecs
  /\ SecsUntilWindowClose(in.schedule, in.now) >= 2 * in.execSecs

\* Mutant of Profitable: a price cut to the ceiling is bid whatever the cost.
BidsTheCeiling(in) == ~in.stale /\ Price(in) # 0

Profitable(in) == ~in.stale /\ Price(in) >= EstimatedCost(in) /\ Price(in) # 0

Bids(in) ==
  /\ Open(in) /\ Participates(in) /\ WithinTier(in) /\ HasCapacity(in)
  /\ FitsInTime(in) /\ Profitable(in)

-----------------------------------------------------------------------------
VARIABLES input, decision
vars == <<input, decision>>

Init == input \in Inputs /\ decision = Undecided

Evaluate ==
  /\ decision = Undecided
  /\ decision' = IF Bids(input) THEN Price(input) ELSE NoBid
  /\ UNCHANGED input

Next == Evaluate
Spec == Init /\ [][Next]_vars

-----------------------------------------------------------------------------
(* Properties of a bid, in exact arithmetic: nothing saturates or wraps. *)

Bid == decision \notin {Undecided, NoBid}

\* The cost in exact arithmetic: no product saturates.
TrueCost ==
  (((NodePflops * input.execSecs) \div 3600) * input.saltPerPflopHour) \div Salt

\* The capacity fits a u128; or, saturated, it still costs more than the agent may
\* bid (10 SALT), as it does from 106 wei for a pflop-hour on.
CostIsKnown ==
  \/ NodePflops * input.execSecs <= MaxU128
  \/ (MaxU128 \div 3600) * input.saltPerPflopHour >= 10 * Salt * Salt

\* A bid covers the exact cost and leaves 10% under the requester's maximum,
\* whichever of the u128 products saturate ("don't take a loss").
NeverAtALoss ==
  Bid => /\ CostIsKnown => TrueCost <= decision
         /\ decision * 100 <= input.maxPrice * 90

\* At the believed block time a job bid on can run twice before its execution
\* deadline, and so is never bid on at or past it ("jobs that can't finish in time
\* time out: 5% stake slash").
MeetsDeadline ==
  Bid => 2 * input.execSecs <= (input.deadline - input.block) * input.secsPerBlock

\* The tier lifecycle::effective_tier derives for a won job: more than 10 SALT
\* is settled as ZKProof.
EffectiveTier(in) ==
  IF in.tier = "Commitment" /\ in.maxPrice > 10 * Salt THEN "ZKProof" ELSE in.tier

\* No job is bid on that the lifecycle planner would have to abort for its tier
\* once it is won (the proof tier trap).
BidIsProvable == Bid => EffectiveTier(input) = "Commitment"

\* The schedule only changes its mind on the hour, so a run is inside the window
\* when its start and the start of every hour it reaches into are.
RunsInWindow(schedule, from, secs) ==
  \A h \in (from \div 3600 + 1) .. ((from + secs - 1) \div 3600) :
    InWindow(schedule, 3600 * h)

\* A job of a minute or more, started when the bid is decided, runs inside the
\* schedule window to its end (SELL-S3 pause-before-close).
FinishesInWindow ==
  Bid /\ input.execSecs >= 60 => RunsInWindow(input.schedule, input.now, input.execSecs)
=============================================================================
