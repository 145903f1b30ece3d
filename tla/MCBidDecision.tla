--------------------------- MODULE MCBidDecision ---------------------------
(* Model values of module BidDecision: a baseline the bidder bids on, and    *)
(* the readings around it that exercise time and money.                      *)
EXTENDS BidDecision

Baseline ==
  [enabled |-> TRUE, schedule |-> "always", now |-> 0,
   state |-> "Bidding", tier |-> "Commitment", maxPrice |-> 40, bindable |-> TRUE,
   block |-> 10, bidDeadline |-> 20, deadline |-> 100000, secsPerBlock |-> 2,
   execSecs |-> 300, saltPerPflopHour |-> 20, stale |-> FALSE,
   active |-> 0, maxJobs |-> 1]

\* From Friday to Monday (days 1 to 4), around every edge of a window.
Times ==
  {d * 86400 + h * 3600 + m * 60 + s :
     d \in 1 .. 4, h \in {0, 3, 4, 5, 6, 12, 21, 22, 23}, m \in {0, 29, 59}, s \in {0, 30, 59}}

\* All of these pay, so that time alone decides.
TimeInputs ==
  {[Baseline EXCEPT !.schedule = schedule, !.now = now, !.execSecs = exec] :
     schedule \in Schedules, now \in Times,
     exec \in {60, 600, 1800, 7200, 43200, 86400}}

DeadlineInputs ==
  {[Baseline EXCEPT !.deadline = deadline, !.secsPerBlock = secsPerBlock, !.execSecs = exec] :
     deadline \in {5, 9, 10, 11, 70, 71, 610, 1000010, 1000020},
     secsPerBlock \in {0, 1, 2, 60, 1000}, exec \in {60, 120, 600}}

MoneyInputs ==
  {[Baseline EXCEPT !.maxPrice = maxPrice, !.tier = tier, !.saltPerPflopHour = salt,
                    !.execSecs = exec, !.stale = stale, !.active = active, !.maxJobs = jobs] :
     maxPrice \in {0, 1, 2, 11, 12, 13, 40, 99, 100, 101, 200}, tier \in {"Commitment", "ZKProof"},
     salt \in {0, 1, 20, 200, 2000}, exec \in {1, 300, 3600, 36000}, stale \in BOOLEAN,
     active \in {0, 3, 4}, jobs \in {0, 1, 5}}

GateInputs ==
  {[Baseline EXCEPT !.enabled = enabled, !.state = state, !.bindable = bindable,
                    !.block = block] :
     enabled \in BOOLEAN, state \in States, bindable \in BOOLEAN, block \in {0, 19, 20, 200000}}

MCInputs == TimeInputs \cup DeadlineInputs \cup MoneyInputs \cup GateInputs
=============================================================================
