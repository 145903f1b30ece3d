------------------------ MODULE PureFunctions_proofs ------------------------
(***************************************************************************)
(* What the modules that only compute guarantee, for every input and for   *)
(* all widths: what a bid promises (BidDecision), what a write that        *)
(* carries a seal promises (SealRequests), and what data between the       *)
(* contracts and the agent means (ChainData).  BidAssumption holds for     *)
(* Salt = 10^18 and MaxU128 = 2^128 - 1, WidthAssumption for 32 bytes of   *)
(* 256, CidAssumption for letters of 5 bits and bytes of 8.                *)
(*                                                                         *)
(* The provers have no induction, but 0 .. n is the smallest set that has  *)
(* 0 and the successors of its elements (UpTo), which is enough for the    *)
(* recursive functions the codec is made of.                               *)
(***************************************************************************)
EXTENDS BidDecision, ChainData, SealRequests, SequenceTheorems, WellFoundedInduction, TLAPS

-----------------------------------------------------------------------------
(* Bids. *)

\* A decision that was taken was taken on the reading in input.
DecidedOnInput ==
  /\ input \in Readings
  /\ decision \in {Undecided, NoBid} \/ (Bids(input) /\ decision = Price(input))

\* A quotient is at least k when the dividend is at least k divisors.
LEMMA QuotientAtLeast ==
  ASSUME NEW n \in Nat, NEW d \in Nat \ {0}, NEW k \in Nat, n >= k * d
  PROVE  n \div d \in Nat /\ n \div d >= k
  OBVIOUS

\* The product of two naturals is one.
LEMMA ProductIsNat ==
  ASSUME NEW a \in Nat, NEW b \in Nat
  PROVE  a * b \in Nat
  OBVIOUS

\* The estimates are naturals, and so are the exact products they start from.
LEMMA EstimatesAreNat ==
  ASSUME NEW in \in Readings
  PROVE  /\ PflopHours(in) \in Nat
         /\ PflopHours(in) * in.saltPerPflopHour \in Nat
         /\ EstimatedCost(in) \in Nat
<1>1. in.execSecs \in Nat /\ in.saltPerPflopHour \in Nat
  BY DEF Readings
<1>2. NodePflops * in.execSecs \in Nat
  BY <1>1, ProductIsNat, BidAssumption
<1>3. Saturate(NodePflops * in.execSecs, MaxU128) \in Nat
  BY <1>2, BidAssumption DEF Saturate
<1>4. PflopHours(in) \in Nat
  BY <1>3 DEF PflopHours
<1>5. PflopHours(in) * in.saltPerPflopHour \in Nat
  BY <1>1, <1>4, ProductIsNat
<1>6. Saturate(PflopHours(in) * in.saltPerPflopHour, MaxU128) \in Nat
  BY <1>5, BidAssumption DEF Saturate
<1>7. EstimatedCost(in) \in Nat
  <2>1. 0 * Salt = 0 /\ 0 \in Nat
    BY BidAssumption
  <2>2. QED
    BY <1>6, <2>1, QuotientAtLeast, BidAssumption DEF EstimatedCost
<1>8. QED
  BY <1>4, <1>5, <1>7

\* A price is at most 90% of the requester's maximum, saturated or not.
LEMMA PriceUnderCeiling ==
  ASSUME NEW in \in Readings
  PROVE  /\ Ceiling(in) \in Nat
         /\ Ceiling(in) * 100 <= in.maxPrice * 90
         /\ Ceiling(in) <= in.maxPrice
         /\ CostPlus(in) \in Nat
         /\ Price(in) \in Nat /\ Price(in) <= Ceiling(in)
<1>1. in.maxPrice \in Nat
  BY DEF Readings
<1>2. /\ Ceiling(in) \in Nat /\ Ceiling(in) * 100 <= in.maxPrice * 90
      /\ Ceiling(in) <= in.maxPrice
  BY <1>1, BidAssumption DEF Ceiling, Saturate
<1>3. CostPlus(in) \in Nat
  BY EstimatesAreNat, BidAssumption DEF CostPlus, Saturate
<1>4. QED
  BY <1>2, <1>3 DEF Price

\* The cost of a job that passes the gates is under the 10 SALT cap.
LEMMA CostUnderCap ==
  ASSUME NEW in \in Readings, WithinTier(in), Profitable(in)
  PROVE  EstimatedCost(in) \in Nat /\ EstimatedCost(in) < 10 * Salt
<1>1. Price(in) <= in.maxPrice /\ in.maxPrice < 10 * Salt /\ Price(in) \in Nat
  BY PriceUnderCeiling DEF WithinTier, Readings
<1>2. Price(in) >= EstimatedCost(in) /\ EstimatedCost(in) \in Nat /\ in.maxPrice \in Nat
  BY EstimatesAreNat DEF Profitable, Readings
<1>3. 10 * Salt \in Nat
  BY BidAssumption
<1> QED BY <1>1, <1>2, <1>3

\* A product of at least 10 SALT squared is a cost over the cap, saturated or not.
LEMMA DearIsOverCap ==
  ASSUME NEW p \in Nat, p >= 10 * Salt * Salt
  PROVE  Saturate(p, MaxU128) \div Salt >= 10 * Salt
<1>1. 10 * Salt \in Nat /\ MaxU128 >= (10 * Salt) * Salt /\ p >= (10 * Salt) * Salt
  BY BidAssumption
<1>2. Saturate(p, MaxU128) \in Nat /\ Saturate(p, MaxU128) >= (10 * Salt) * Salt
  BY <1>1, BidAssumption DEF Saturate
<1> QED BY <1>1, <1>2, QuotientAtLeast, BidAssumption

\* The estimate of a job that passes the gates is exact: had a product saturated,
\* the cost would exceed every price under the 10 SALT cap.
LEMMA CostIsExact ==
  ASSUME NEW in \in Readings, WithinTier(in), Profitable(in),
         \/ NodePflops * in.execSecs <= MaxU128
         \/ (MaxU128 \div 3600) * in.saltPerPflopHour >= 10 * Salt * Salt
  PROVE  EstimatedCost(in)
           = (((NodePflops * in.execSecs) \div 3600) * in.saltPerPflopHour) \div Salt
<1> DEFINE product == PflopHours(in) * in.saltPerPflopHour
           capacity == NodePflops * in.execSecs
<1>1. product \in Nat /\ capacity \in Nat
  BY EstimatesAreNat, ProductIsNat, BidAssumption DEF Readings
<1>2. EstimatedCost(in) = Saturate(product, MaxU128) \div Salt
  BY DEF EstimatedCost
<1>3. EstimatedCost(in) \in Nat /\ EstimatedCost(in) < 10 * Salt
  BY CostUnderCap
<1>4. 10 * Salt \in Nat /\ 10 * Salt * Salt \in Nat /\ MaxU128 \in Nat
      /\ MaxU128 >= 10 * Salt * Salt
  BY BidAssumption
<1>5. product < 10 * Salt * Salt
  <2>1. SUFFICES ASSUME product >= 10 * Salt * Salt PROVE FALSE
    BY <1>1, <1>4
  <2>2. Saturate(product, MaxU128) \div Salt >= 10 * Salt
    <3> HIDE DEF product
    <3> QED BY <1>1, <2>1, DearIsOverCap
  <2> QED BY <1>2, <1>3, <1>4, <2>2
<1>6. capacity <= MaxU128
  <2>1. SUFFICES ASSUME capacity > MaxU128 PROVE FALSE
    BY <1>1, <1>4
  <2>2. PflopHours(in) = MaxU128 \div 3600
    BY <2>1 DEF PflopHours, Saturate
  <2> QED BY <1>1, <1>4, <1>5, <2>1, <2>2
<1>7. Saturate(product, MaxU128) = product
  <2> HIDE DEF product
  <2> QED BY <1>1, <1>4, <1>5 DEF Saturate
<1>8. PflopHours(in) = capacity \div 3600
  <2>1. Saturate(capacity, MaxU128) = capacity
    <3> HIDE DEF capacity
    <3> QED BY <1>1, <1>4, <1>6 DEF Saturate
  <2> QED BY <2>1 DEF PflopHours
<1> QED BY <1>2, <1>7, <1>8

\* The seconds the bidder believes are left never exceed the exact ones.
LEMMA DeadlineNotOverstated ==
  ASSUME NEW in \in Readings, SecsUntilDeadline(in) > 0
  PROVE  SecsUntilDeadline(in) <= (in.deadline - in.block) * in.secsPerBlock
<1> DEFINE blocks == IF in.deadline > in.block THEN in.deadline - in.block ELSE 0
           kept   == blocks % (MaxU64 + 1)
<1>1. in.deadline \in Nat /\ in.block \in Nat /\ in.secsPerBlock \in Nat
  BY DEF Readings
<1>2. blocks \in Nat
  BY <1>1
<1>3. kept \in Nat /\ kept <= blocks
  BY <1>2, BidAssumption
<1>4. SecsUntilDeadline(in) = Saturate(kept * in.secsPerBlock, MaxU64)
  BY DEF SecsUntilDeadline
<1>5. kept * in.secsPerBlock \in Nat /\ kept * in.secsPerBlock <= blocks * in.secsPerBlock
  BY <1>1, <1>2, <1>3
<1>6. SecsUntilDeadline(in) <= kept * in.secsPerBlock
  BY <1>4, <1>5, BidAssumption DEF Saturate
<1>7. in.deadline > in.block
  <2>1. SUFFICES ASSUME ~(in.deadline > in.block) PROVE FALSE
    OBVIOUS
  <2>2. kept = 0
    BY <1>3, <2>1
  <2>3. kept * in.secsPerBlock = 0
    BY <1>1, <2>2
  <2>4. QED
    BY <1>6, <2>3, <1>4, BidAssumption DEF Saturate
<1>8. blocks = in.deadline - in.block
  BY <1>7
<1>9. SecsUntilDeadline(in) \in Int /\ blocks * in.secsPerBlock \in Int
  BY <1>1, <1>2, <1>4, <1>5, BidAssumption DEF Saturate
<1>10. QED
  BY <1>5, <1>6, <1>8, <1>9

-----------------------------------------------------------------------------
\* A decision is always one on the reading the tick started from.
LEMMA Decided == Spec => []DecidedOnInput
<1>1. Init => DecidedOnInput
  BY BidAssumption DEF Init, DecidedOnInput
<1>2. DecidedOnInput /\ [Next]_vars => DecidedOnInput'
  <2>1. SUFFICES ASSUME DecidedOnInput, [Next]_vars PROVE DecidedOnInput'
    OBVIOUS
  <2>2. CASE Evaluate
    BY <2>1, <2>2 DEF Evaluate, DecidedOnInput
  <2>3. CASE UNCHANGED vars
    BY <2>1, <2>3 DEF vars, DecidedOnInput
  <2>4. QED
    BY <2>1, <2>2, <2>3 DEF Next
<1>3. QED
  BY <1>1, <1>2, PTL DEF Spec

\* A bid covers its cost in exact arithmetic and leaves the requester 10%.
THEOREM BidsNeverLose == Spec => []NeverAtALoss
<1>1. DecidedOnInput => NeverAtALoss
  <2>1. SUFFICES ASSUME DecidedOnInput, Bid
                 PROVE  /\ CostIsKnown => TrueCost <= decision
                        /\ decision * 100 <= input.maxPrice * 90
    BY DEF NeverAtALoss
  <2>2. input \in Readings /\ decision = Price(input) /\ WithinTier(input) /\ Profitable(input)
    BY <2>1 DEF DecidedOnInput, Bid, Bids
  <2>3. CostIsKnown => TrueCost = EstimatedCost(input)
    BY <2>2, CostIsExact DEF TrueCost, CostIsKnown
  <2>4. EstimatedCost(input) <= Price(input)
    BY <2>2, EstimatesAreNat, PriceUnderCeiling DEF Profitable
  <2>5. Price(input) * 100 <= input.maxPrice * 90
    BY <2>2, PriceUnderCeiling DEF Readings
  <2>6. QED
    BY <2>2, <2>3, <2>4, <2>5
<1>2. QED
  BY <1>1, Decided, PTL

\* A job bid on can run twice before its execution deadline.
THEOREM BidsMeetDeadlines == Spec => []MeetsDeadline
<1>1. DecidedOnInput => MeetsDeadline
  <2>1. SUFFICES ASSUME DecidedOnInput, Bid
                 PROVE  2 * input.execSecs <= (input.deadline - input.block) * input.secsPerBlock
    BY DEF MeetsDeadline
  <2>2. input \in Readings /\ SecsUntilDeadline(input) >= 2 * input.execSecs
    BY <2>1 DEF DecidedOnInput, Bid, Bids, FitsInTime
  <2>3. SecsUntilDeadline(input) \in Int /\ input.execSecs \in Nat \ {0}
    <3>1. /\ input.execSecs \in Nat \ {0} /\ input.deadline \in Nat
          /\ input.block \in Nat /\ input.secsPerBlock \in Nat
      BY <2>2 DEF Readings
    <3>2. QED
      BY <3>1, BidAssumption DEF SecsUntilDeadline, Saturate
  <2>4. SecsUntilDeadline(input) <= (input.deadline - input.block) * input.secsPerBlock
    BY <2>2, <2>3, DeadlineNotOverstated
  <2>5. (input.deadline - input.block) * input.secsPerBlock \in Int
    BY <2>2 DEF Readings
  <2>6. QED
    BY <2>2, <2>3, <2>4, <2>5
<1>2. QED
  BY <1>1, Decided, PTL

\* No bid is for a job the lifecycle planner would abort for its tier.
THEOREM BidsAreProvable == Spec => []BidIsProvable
<1>1. DecidedOnInput => BidIsProvable
  BY BidAssumption
  DEF DecidedOnInput, BidIsProvable, Bid, Bids, WithinTier, EffectiveTier, Readings
<1>2. QED
  BY <1>1, Decided, PTL
-----------------------------------------------------------------------------
(* The calendar: a time is a day and a second of it, which the clock cuts  *)
(* into hours and minutes.                                                 *)

DayOf(secs) == secs \div 86400
OfDay(secs) == secs % 86400
Minutes(secs) == Hour(secs) * 60 + Minute(secs)

\* A second since the epoch falls on a day.
LEMMA DayIsNat ==
  ASSUME NEW secs \in Nat
  PROVE  DayOf(secs) \in Nat
BY SMT DEF DayOf

\* The second of the day is one of its 86400.
LEMMA OfDayIsNat ==
  ASSUME NEW secs \in Nat
  PROVE  OfDay(secs) \in Nat /\ OfDay(secs) < 86400
BY SMT DEF OfDay

\* Day and second of the day make up the time.
LEMMA DayAndOfDay ==
  ASSUME NEW secs \in Nat
  PROVE  secs = 86400 * DayOf(secs) + OfDay(secs)
BY SMT DEF DayOf, OfDay

\* The second of the day, cut to the hour and to the minute.
LEMMA HourCut ==
  ASSUME NEW secs \in Nat
  PROVE  /\ Hour(secs) \in Nat
         /\ 3600 * Hour(secs) <= OfDay(secs)
         /\ OfDay(secs) < 3600 * Hour(secs) + 3600
<1>1. Hour(secs) \in Nat
  BY SMT DEF Hour
<1>2. 3600 * Hour(secs) <= OfDay(secs)
  BY SMT DEF Hour, OfDay
<1>3. OfDay(secs) < 3600 * Hour(secs) + 3600
  BY SMT DEF Hour, OfDay
<1> QED BY <1>1, <1>2, <1>3, SMT

\* The minute of the day is the second of the day cut to whole minutes.
LEMMA MinuteCut ==
  ASSUME NEW secs \in Nat
  PROVE  /\ Minutes(secs) \in Nat
         /\ 60 * Minutes(secs) <= OfDay(secs)
         /\ OfDay(secs) <= 60 * Minutes(secs) + 59
<1> DEFINE m == secs % 3600
<1>1. Hour(secs) \in Nat
  BY HourCut, SMT
<1>2. Minute(secs) \in Nat
  BY SMT DEF Minute
<1>3. OfDay(secs) = 3600 * Hour(secs) + m
  BY SMT DEF Hour, OfDay
<1>4. 60 * Minute(secs) <= m
  BY SMT DEF Minute
<1>5. m <= 60 * Minute(secs) + 59
  BY SMT DEF Minute
<1>6. m \in Nat
  BY SMT
<1> HIDE DEF m
<1> QED BY <1>1, <1>2, <1>3, <1>4, <1>5, <1>6, SMT DEF Minutes

\* Night is from 22:00 to 06:00.
LEMMA NightHours ==
  ASSUME NEW secs \in Nat
  PROVE  InWindow("nights", secs) <=> OfDay(secs) >= 79200 \/ OfDay(secs) < 21600
<1>1. InWindow("nights", secs) <=> Hour(secs) >= 22 \/ Hour(secs) <= 5
  BY SMT DEF InWindow
<1> QED BY <1>1, HourCut, OfDayIsNat, SMT

\* Saturday and Sunday are the third and the fourth day from a Thursday.
LEMMA WeekendDays ==
  ASSUME NEW secs \in Nat
  PROVE  /\ InWindow("weekends", secs) <=> DayOf(secs) % 7 \in {2, 3}
         /\ Weekday(secs) = "Sat" <=> DayOf(secs) % 7 = 2
<1> DEFINE n == DayOf(secs) % 7
<1>1. n \in 0 .. 6
  BY DayIsNat, SMT
<1>2. Weekday(secs) = CASE n = 0 -> "Thu" [] n = 1 -> "Fri" [] n = 2 -> "Sat" [] n = 3 -> "Sun"
                        [] n = 4 -> "Mon" [] n = 5 -> "Tue" [] n = 6 -> "Wed"
  BY SMT DEF Weekday, DayOf
<1>3. InWindow("weekends", secs) <=> Weekday(secs) \in {"Sat", "Sun"}
  BY SMT DEF InWindow
<1> HIDE DEF n
<1>4. Weekday(secs) = "Sat" <=> n = 2
  BY <1>1, <1>2, SMT
<1>5. Weekday(secs) = "Sun" <=> n = 3
  BY <1>1, <1>2, SMT
<1> QED BY <1>3, <1>4, <1>5, SMT DEF n

\* The time at which the window of the schedule that secs is in ends.
WindowEnd(schedule, secs) ==
  IF schedule = "nights"
  THEN 86400 * DayOf(secs) + (IF OfDay(secs) >= 79200 THEN 108000 ELSE 21600)
  ELSE 86400 * DayOf(secs) + (IF DayOf(secs) % 7 = 2 THEN 172800 ELSE 86400)

\* secs_until_window_close says less than a minute too much.
LEMMA EndWithinAMinute ==
  ASSUME NEW secs \in Nat, NEW schedule \in {"nights", "weekends"}, InWindow(schedule, secs)
  PROVE  /\ SecsUntilWindowClose(schedule, secs) \in Int
         /\ secs + SecsUntilWindowClose(schedule, secs) <= WindowEnd(schedule, secs) + 59
<1> DEFINE close == SecsUntilWindowClose(schedule, secs)
           end == WindowEnd(schedule, secs)
           minutes == Minutes(secs)
           t == OfDay(secs)
           d == DayOf(secs)
<1>1. minutes \in Nat /\ 60 * minutes <= t /\ t <= 60 * minutes + 59
  BY MinuteCut, SMT
<1>2. d \in Nat /\ t \in Nat /\ secs = 86400 * d + t
  BY DayIsNat, OfDayIsNat, DayAndOfDay, SMT
<1>3. CASE schedule = "nights" /\ Hour(secs) >= 22
  <2>1. close = 60 * (1440 - minutes + 360)
    BY <1>3, SMT DEF SecsUntilWindowClose, Minutes
  <2>2. t >= 79200
    BY <1>3, HourCut, <1>2, SMT
  <2>3. end = 86400 * d + 108000
    BY <1>3, <2>2, SMT DEF WindowEnd
  <2> HIDE DEF close, end, minutes, t, d
  <2> QED BY <1>1, <1>2, <2>1, <2>3, SMT DEF close, end
<1>4. CASE schedule = "nights" /\ ~(Hour(secs) >= 22)
  <2>1. close = 60 * (360 - minutes)
    BY <1>4, SMT DEF SecsUntilWindowClose, Minutes
  <2>2. ~(t >= 79200)
    BY <1>4, HourCut, <1>2, SMT
  <2>3. end = 86400 * d + 21600
    BY <1>4, <2>2, SMT DEF WindowEnd
  <2> HIDE DEF close, end, minutes, t, d
  <2> QED BY <1>1, <1>2, <2>1, <2>3, SMT DEF close, end
<1>5. CASE schedule = "weekends" /\ Weekday(secs) = "Sat"
  <2>1. close = 60 * (1 * 1440 + 1440 - minutes)
    BY <1>5, SMT DEF SecsUntilWindowClose, Minutes
  <2>2. end = 86400 * d + 172800
    BY <1>5, WeekendDays, SMT DEF WindowEnd
  <2> HIDE DEF close, end, minutes, t, d
  <2> QED BY <1>1, <1>2, <2>1, <2>2, SMT DEF close, end
<1>6. CASE schedule = "weekends" /\ Weekday(secs) # "Sat"
  <2>1. close = 60 * (0 * 1440 + 1440 - minutes)
    BY <1>6, SMT DEF SecsUntilWindowClose, Minutes
  <2>2. end = 86400 * d + 86400
    BY <1>6, WeekendDays, SMT DEF WindowEnd
  <2> HIDE DEF close, end, minutes, t, d
  <2> QED BY <1>1, <1>2, <2>1, <2>2, SMT DEF close, end
<1> QED BY <1>3, <1>4, <1>5, <1>6, SMT

\* The schedule is in force up to the end of the window.
LEMMA InForceUntilEnd ==
  ASSUME NEW secs \in Nat, NEW schedule \in {"nights", "weekends"}, InWindow(schedule, secs),
         NEW at \in Nat, secs <= at, at < WindowEnd(schedule, secs)
  PROVE  InWindow(schedule, at)
<1> DEFINE d == DayOf(secs)
           t == OfDay(secs)
           e == DayOf(at)
           u == OfDay(at)
<1>1. /\ d \in Nat /\ t \in Nat /\ t < 86400 /\ secs = 86400 * d + t
      /\ e \in Nat /\ u \in Nat /\ u < 86400 /\ at = 86400 * e + u
  BY DayIsNat, OfDayIsNat, DayAndOfDay, SMT
<1>2. CASE schedule = "nights"
  <2>1. WindowEnd(schedule, secs) = 86400 * d + (IF t >= 79200 THEN 108000 ELSE 21600)
    BY <1>2, SMT DEF WindowEnd
  <2>2. t >= 79200 \/ t < 21600
    BY <1>2, NightHours, SMT
  <2>3. SUFFICES u >= 79200 \/ u < 21600
    BY <1>2, NightHours, SMT
  <2> HIDE DEF d, t, e, u
  <2>4. CASE t >= 79200
    <3>1. e = d \/ e = d + 1
      BY <1>1, <2>1, <2>4, SMT
    <3> QED BY <1>1, <2>1, <2>4, <3>1, SMT
  <2>5. CASE t < 21600
    <3>1. e = d
      BY <1>1, <2>1, <2>5, SMT
    <3> QED BY <1>1, <2>1, <2>5, <3>1, SMT
  <2> QED BY <2>2, <2>4, <2>5, SMT
<1>3. CASE schedule = "weekends"
  <2>1. WindowEnd(schedule, secs) = 86400 * d + (IF d % 7 = 2 THEN 172800 ELSE 86400)
    BY <1>3, SMT DEF WindowEnd
  <2>2. d % 7 \in {2, 3}
    BY <1>3, WeekendDays, SMT
  <2>3. SUFFICES e % 7 \in {2, 3}
    BY <1>3, WeekendDays, SMT
  <2> HIDE DEF d, t, e, u
  <2>4. CASE d % 7 = 2
    <3>1. e = d \/ e = d + 1
      BY <1>1, <2>1, <2>4, SMT
    <3>2. (d + 1) % 7 = 3
      BY <1>1, <2>4, SMT
    <3> QED BY <2>4, <3>1, <3>2, SMT
  <2>5. CASE d % 7 = 3
    <3>1. e = d
      BY <1>1, <2>1, <2>5, SMT
    <3> QED BY <2>5, <3>1, SMT
  <2> QED BY <2>2, <2>4, <2>5, SMT
<1> QED BY <1>2, <1>3, SMT

\* A job of a minute or more that is started when it is bid on ends inside the
\* schedule's window: twice its time is asked for, so the minute by which
\* secs_until_window_close may err never matters.
THEOREM BidsFinishInWindow == Spec => []FinishesInWindow
<1>1. DecidedOnInput => FinishesInWindow
  <2> DEFINE s == input.now
             run == input.execSecs
             schedule == input.schedule
             close == SecsUntilWindowClose(schedule, s)
             end == WindowEnd(schedule, s)
  <2>1. SUFFICES ASSUME DecidedOnInput, Bid, run >= 60,
                        NEW h \in (s \div 3600 + 1) .. ((s + run - 1) \div 3600)
                 PROVE  InWindow(schedule, 3600 * h)
    BY SMT DEF FinishesInWindow, RunsInWindow
  <2>2. input \in Readings /\ Bids(input)
    BY <2>1, SMT DEF DecidedOnInput, Bid
  <2>3. s \in Nat /\ run \in Nat \ {0} /\ schedule \in {"always", "nights", "weekends"}
    BY <2>2, SMT DEF Readings, Schedules
  <2>4. InWindow(schedule, s) /\ close >= 2 * run
    BY <2>2, SMT DEF Bids, Participates, FitsInTime
  <2>5. CASE schedule = "always"
    BY <2>5, SMT DEF InWindow
  <2>6. CASE schedule \in {"nights", "weekends"}
    <3>1. close \in Int /\ s + close <= end + 59
      BY <2>3, <2>4, <2>6, EndWithinAMinute, SMT
    <3>2. s \div 3600 \in Nat /\ s < 3600 * (s \div 3600 + 1)
      <4>1. s \div 3600 \in Nat
        BY <2>3, SMT
      <4>2. s < 3600 * (s \div 3600 + 1)
        BY <2>3, SMT
      <4> QED BY <4>1, <4>2, SMT
    <3>3. /\ (s + run - 1) \div 3600 \in Nat
          /\ 3600 * ((s + run - 1) \div 3600) <= s + run - 1
      <4> DEFINE last == s + run - 1
      <4>1. last \in Nat
        BY <2>3, SMT
      <4> HIDE DEF last
      <4>2. last \div 3600 \in Nat
        BY <4>1, SMT
      <4>3. 3600 * (last \div 3600) <= last
        BY <4>1, SMT
      <4> QED BY <4>2, <4>3, SMT DEF last
    <3>4. h \in Nat /\ s <= 3600 * h /\ 3600 * h <= s + run - 1
      <4> HIDE DEF s, run
      <4> QED BY <2>1, <2>3, <3>2, <3>3, SMT
    <3>5. end \in Int
      BY <2>3, DayIsNat, SMT DEF WindowEnd
    <3>6. 3600 * h \in Nat /\ 3600 * h < end
      <4> HIDE DEF s, run, close, end
      <4> QED BY <2>1, <2>3, <2>4, <3>1, <3>4, <3>5, SMT
    <3> QED BY <2>3, <2>4, <2>6, <3>4, <3>6, InForceUntilEnd, SMT
  <2> QED BY <2>3, <2>5, <2>6, SMT
<1> QED BY <1>1, Decided, PTL

-----------------------------------------------------------------------------
(* The writes that carry a seal: requests is made from seal and post at once *)
(* and never touched again.                                                  *)

MadeOfTargets ==
  /\ seal \in Seals /\ post \in Posts
  /\ requests \in {Unanswered,
                   [commit |-> SealCommitRequest(seal), answer |-> SubmitPostRequest(post)]}

\* What was requested was made of the two targets by SealStep.
LEMMA AlwaysMadeOfTargets == SealSpec => []MadeOfTargets
<1>1. SealInit => MadeOfTargets
  BY DEF SealInit, MadeOfTargets
<1>2. MadeOfTargets /\ [SealStep]_sealVars => MadeOfTargets'
  BY DEF MadeOfTargets, SealStep, sealVars
<1> QED BY <1>1, <1>2, PTL DEF SealSpec

\* The inputs of a target over the bytes it has.
InputsOver(t, bytes) ==
  [pinner |-> t.me, cid |-> t.cid, sector |-> t.sector,
   epoch |-> <<"PIN-epoch", t.cid, t.sector>>,
   data |-> [i \in 0 .. 3 |-> <<t.cid, t.sector, i, bytes>>]]

\* One input of the prover for each replica the target has.
LEMMA SealInputsAre ==
  ASSUME NEW t
  PROVE  SealInputs(t) = {InputsOver(t, bytes) : bytes \in t.replica}
BY DEF SealInputs, InputsOver

\* Two targets have the same inputs only if they agree in all that is sealed.
LEMMA InputsAreInjective ==
  ASSUME NEW t, NEW u, NEW a, NEW b
  PROVE  InputsOver(t, a) = InputsOver(u, b)
           <=> t.me = u.me /\ t.cid = u.cid /\ t.sector = u.sector /\ a = b
<1>1. ASSUME InputsOver(t, a) = InputsOver(u, b)
      PROVE  t.me = u.me /\ t.cid = u.cid /\ t.sector = u.sector /\ a = b
  <2>1. InputsOver(t, a).data[0] = InputsOver(u, b).data[0]
    BY <1>1
  <2>2. <<t.cid, t.sector, 0, a>> = <<u.cid, u.sector, 0, b>>
    BY <2>1 DEF InputsOver
  <2> QED BY <1>1, <2>2 DEF InputsOver
<1> QED BY <1>1 DEF InputsOver

\* The prover is asked wherever there are inputs, and answers unless the call fails.
LEMMA CallIs ==
  ASSUME NEW op, NEW index, NEW t, NEW reply
  PROVE  /\ \A a \in Call(op, SealInputs(t), index, reply) :
              \E bytes \in t.replica :
                a = Prover(op, InputsOver(t, bytes), index, reply # "cut_proof")
         /\ t.replica # {} /\ reply \notin CallFlaws
              => \E a \in Call(op, SealInputs(t), index, reply) : TRUE
BY SealInputsAre DEF Call

\* What seal gives is over the target's bytes, with the proof it was answered.
LEMMA SealIs ==
  ASSUME NEW t
  PROVE  /\ \A a \in SealArtifacts(t) :
              \E bytes \in t.replica :
                a = Prover("seal", InputsOver(t, bytes), 0, t.reply # "cut_proof")
         /\ t.replica # {} /\ t.reply = "whole" => \E a \in SealArtifacts(t) : TRUE
BY CallIs DEF SealArtifacts, CallFlaws

\* So is what prove_post gives, for the challenge of the nonce.
LEMMA PostIs ==
  ASSUME NEW t
  PROVE  /\ \A p \in PostProofs(t) :
              \E bytes \in t.replica :
                p = Prover("prove_post", InputsOver(t, bytes), NonceToIndex(t.nonce),
                           t.post # "cut_proof")
         /\ t.replica # {} /\ t.post = "whole" => \E p \in PostProofs(t) : TRUE
BY CallIs DEF PostProofs, CallFlaws

\* Two proofs that differ in nothing but their cut are the same if neither is cut.
LEMMA WholeIs ==
  ASSUME NEW op, NEW inputs, NEW index, NEW reply
  PROVE  Prover(op, inputs, index, reply # "cut_proof") = Prover(op, inputs, index, TRUE)
           <=> reply # "cut_proof"
<1>1. CASE reply = "cut_proof"
  <2>1. Prover(op, inputs, index, reply # "cut_proof").whole = FALSE
    BY <1>1 DEF Prover
  <2>2. Prover(op, inputs, index, TRUE).whole = TRUE
    BY DEF Prover
  <2> QED BY <1>1, <2>1, <2>2
<1>2. CASE reply # "cut_proof"
  <2>1. (reply # "cut_proof") = TRUE
    BY <1>2
  <2> QED BY <1>2, <2>1 DEF Prover
<1> QED BY <1>1, <1>2

\* sealCommit's request carries the target it was made for, and what seal gave.
LEMMA CommitIs ==
  ASSUME NEW t, NEW c \in SealCommitRequest(t)
  PROVE  /\ c.cid = t.cid /\ c.sector = t.sector
         /\ \E bytes \in t.replica :
              /\ c.roots = InputsOver(t, bytes)
              /\ c.proof = Prover("seal", c.roots, 0, t.reply # "cut_proof")
<1>1. PICK a \in SealArtifacts(t) :
        /\ c.cid = t.cid /\ c.sector = t.sector
        /\ c.roots = a.of /\ c.proof = a
  BY DEF SealCommitRequest
<1>2. PICK bytes \in t.replica :
        a = Prover("seal", InputsOver(t, bytes), 0, t.reply # "cut_proof")
  BY SealIs
<1> QED BY <1>1, <1>2 DEF Prover

\* submitPoSt's request carries the target it was made for, its nonce and the proof of
\* that nonce's challenge.
LEMMA AnswerIs ==
  ASSUME NEW t, NEW a \in SubmitPostRequest(t)
  PROVE  /\ a.cid = t.cid /\ a.sector = t.sector /\ a.nonce = t.nonce
         /\ \E bytes \in t.replica : a.roots = InputsOver(t, bytes)
         /\ \E bytes \in t.replica :
              a.proof = Prover("prove_post", InputsOver(t, bytes), NonceToIndex(t.nonce),
                               t.post # "cut_proof")
<1>1. PICK s \in SealArtifacts(t), p \in PostProofs(t) :
        /\ a.cid = t.cid /\ a.sector = t.sector /\ a.nonce = t.nonce
        /\ a.roots = s.of /\ a.proof = p
  BY DEF SubmitPostRequest
<1>2. \E bytes \in t.replica : s.of = InputsOver(t, bytes)
  BY SealIs DEF Prover
<1> QED BY <1>1, <1>2, PostIs

\* A commitment and an answer verify together exactly when both are of the same node,
\* slot and bytes and neither of their proofs was cut; a sidecar that answers gets its
\* request made; and nothing is requested without the bytes (NA-B-002).
THEOREM AnswersOpen == SealSpec => []AnswersOpenTheSeal
<1>1. MadeOfTargets => AnswersOpenTheSeal
  <2> SUFFICES ASSUME MadeOfTargets, requests # Unanswered PROVE AnswersOpenTheSeal
    BY DEF AnswersOpenTheSeal
  <2>1. /\ requests.commit = SealCommitRequest(seal)
        /\ requests.answer = SubmitPostRequest(post)
    BY DEF MadeOfTargets
  <2>2. requests.commit # {} => seal.replica # {}
    BY <2>1, CommitIs
  <2>3. requests.answer # {} => post.replica # {}
    BY <2>1, AnswerIs
  <2>4. seal.replica # {} /\ seal.reply = "whole" => requests.commit # {}
    BY <2>1, SealIs DEF SealCommitRequest
  <2>5. post.replica # {} /\ post.reply = "whole" /\ post.post = "whole"
          => requests.answer # {}
    <3> SUFFICES ASSUME post.replica # {}, post.reply = "whole", post.post = "whole"
                 PROVE  requests.answer # {}
      OBVIOUS
    <3>1. PICK a \in SealArtifacts(post) : TRUE
      BY SealIs
    <3>2. PICK p \in PostProofs(post) : TRUE
      BY PostIs
    <3> DEFINE request(s, q) ==
                 [intent |-> "submitPoSt", cid |-> post.cid, sector |-> post.sector,
                  roots |-> s.of, nonce |-> post.nonce, proof |-> q, value |-> 0,
                  expires |-> post.deadline]
    <3>3. requests.answer = {request(s, q) : s \in SealArtifacts(post), q \in PostProofs(post)}
      BY <2>1 DEF SubmitPostRequest
    <3> HIDE DEF request
    <3>4. request(a, p) \in requests.answer
      BY <3>1, <3>2, <3>3
    <3> QED BY <3>4
  <2>6. ASSUME NEW c \in requests.commit, NEW a \in requests.answer
        PROVE  Verifies(c, a) <=>
                 /\ seal.me = post.me /\ seal.replica = post.replica
                 /\ seal.cid = post.cid /\ seal.sector = post.sector
                 /\ seal.reply # "cut_proof" /\ post.post # "cut_proof"
    <3>1. PICK x \in seal.replica :
            /\ c.roots = InputsOver(seal, x)
            /\ c.proof = Prover("seal", c.roots, 0, seal.reply # "cut_proof")
      BY <2>1, CommitIs
    <3>2. PICK y \in post.replica : a.roots = InputsOver(post, y)
      BY <2>1, AnswerIs
    <3>3. /\ \A z \in seal.replica : z = x
          /\ \A z \in post.replica : z = y
      BY <3>1, <3>2, SealAssumption DEF MadeOfTargets
    <3>4. c.cid = seal.cid /\ c.sector = seal.sector
      BY <2>1, CommitIs
    <3>5. /\ a.cid = post.cid /\ a.sector = post.sector /\ a.nonce = post.nonce
          /\ a.proof = Prover("prove_post", a.roots, NonceToIndex(post.nonce),
                              post.post # "cut_proof")
      BY <2>1, <3>2, <3>3, AnswerIs
    <3>6. NonceToIndex(post.nonce) = a.nonce
      BY <3>5, SealAssumption DEF NonceToIndex, MadeOfTargets
    <3>7. seal.replica = post.replica <=> x = y
      BY <3>1, <3>2, <3>3
    <3>8. c.proof = Prover("seal", c.roots, 0, TRUE) <=> seal.reply # "cut_proof"
      BY <3>1, WholeIs
    <3>9. c.roots = a.roots =>
            (a.proof = Prover("prove_post", c.roots, a.nonce, TRUE) <=> post.post # "cut_proof")
      BY <3>5, <3>6, WholeIs
    <3>10. Verifies(c, a) <=>
             /\ c.cid = a.cid /\ c.sector = a.sector /\ c.roots = a.roots
             /\ seal.reply # "cut_proof" /\ post.post # "cut_proof"
      BY <3>8, <3>9 DEF Verifies
    <3> QED BY <3>1, <3>2, <3>4, <3>5, <3>7, <3>10, InputsAreInjective
  <2> QED BY <2>2, <2>3, <2>4, <2>5, <2>6 DEF AnswersOpenTheSeal
<1> QED BY <1>1, AlwaysMadeOfTargets, PTL

-----------------------------------------------------------------------------
(* Recursion over naturals. *)

\* A set of naturals has a least one.
LEMMA LeastNatural ==
  ASSUME NEW T \in SUBSET Nat, T # {}
  PROVE  \E x \in T : \A y \in T : x <= y
<1> DEFINE R == {ss \in Nat \X Nat : ss[1] < ss[2]}
<1>1. IsWellFoundedOn(R, Nat)
  BY NatLessThanWellFounded DEF OpToRel
<1>2. PICK x \in T : \A y \in T : ~ (<<y, x>> \in R)
  <2> HIDE DEF R
  <2> QED BY <1>1, WFMin
<1>3. \A y \in T : ~(y < x)
  BY <1>2
<1> QED BY <1>3

\* Induction over 0 .. n: a set that has 0 and the successors of its elements.
LEMMA UpTo ==
  ASSUME NEW n \in Nat, NEW T, 0 \in T, \A i \in 1 .. n : i - 1 \in T => i \in T
  PROVE  0 .. n \subseteq T
<1> SUFFICES ASSUME ~(0 .. n \subseteq T) PROVE FALSE
  OBVIOUS
<1> DEFINE out == {i \in 0 .. n : i \notin T}
<1>1. out \in SUBSET Nat /\ out # {}
  OBVIOUS
<1>2. PICK x \in out : \A y \in out : x <= y
  <2> HIDE DEF out
  <2> QED BY <1>1, LeastNatural
<1>3. x \in 1 .. n /\ x - 1 \notin out
  BY <1>2
<1> QED BY <1>2, <1>3

\* f is given by its first value and a step, up to n.
Iterates(f, S, n, init, step) ==
  /\ f \in [0 .. n -> S]
  /\ f[0] = init
  /\ \A i \in 1 .. n : f[i] = step[i][f[i - 1]]

\* A step that stays in S can be iterated n times.
LEMMA IterationExists ==
  ASSUME NEW n \in Nat, NEW S, NEW init \in S, NEW step \in [1 .. n -> [S -> S]]
  PROVE  \E f : Iterates(f, S, n, init, step)
<1> DEFINE T == {i \in 0 .. n : \E f : Iterates(f, S, i, init, step)}
<1>1. 0 \in T
  <2>1. Iterates([i \in 0 .. 0 |-> init], S, 0, init, step)
    BY DEF Iterates
  <2> QED BY <2>1
<1>2. ASSUME NEW i \in 1 .. n, i - 1 \in T PROVE i \in T
  <2>1. PICK g : Iterates(g, S, i - 1, init, step)
    BY <1>2
  <2> DEFINE f == [k \in 0 .. i |-> IF k = i THEN step[i][g[i - 1]] ELSE g[k]]
  <2>2. g[i - 1] \in S
    BY <2>1 DEF Iterates
  <2>3. f \in [0 .. i -> S]
    BY <2>1, <2>2 DEF Iterates
  <2>4. f[0] = init
    BY <2>1 DEF Iterates
  <2>5. \A k \in 1 .. i : f[k] = step[k][f[k - 1]]
    BY <2>1 DEF Iterates
  <2>6. Iterates(f, S, i, init, step)
    <3> HIDE DEF f
    <3> QED BY <2>3, <2>4, <2>5 DEF Iterates
  <2> QED BY <2>6
<1>3. 0 .. n \subseteq T
  <2> HIDE DEF T
  <2> QED BY <1>1, <1>2, UpTo
<1> QED BY <1>3

\* Two that are given by the same step agree.
LEMMA IterationUnique ==
  ASSUME NEW n \in Nat, NEW m \in 0 .. n, NEW S, NEW init, NEW step, NEW f, NEW g,
         Iterates(f, S, m, init, step), Iterates(g, S, n, init, step)
  PROVE  f[m] = g[m]
<1> DEFINE T == {i \in 0 .. m : f[i] = g[i]}
<1>1. 0 \in T
  BY DEF Iterates
<1>2. \A i \in 1 .. m : i - 1 \in T => i \in T
  BY DEF Iterates
<1>3. 0 .. m \subseteq T
  <2> HIDE DEF T
  <2> QED BY <1>1, <1>2, UpTo
<1> QED BY <1>3

\* The same for all naturals.
Recurses(f, S, init, step) ==
  /\ f \in [Nat -> S] /\ f[0] = init
  /\ \A n \in Nat \ {0} : f[n] = step[n][f[n - 1]]

\* A step that stays in S can be iterated without end.
LEMMA RecursionExists ==
  ASSUME NEW S, NEW init \in S, NEW step \in [Nat -> [S -> S]]
  PROVE  \E f : Recurses(f, S, init, step)
<1> DEFINE Part(n) == CHOOSE f : Iterates(f, S, n, init, step)
           f == [n \in Nat |-> Part(n)[n]]
<1>1. ASSUME NEW n \in Nat PROVE Iterates(Part(n), S, n, init, step)
  <2> DEFINE cut == [i \in 1 .. n |-> step[i]]
  <2>1. cut \in [1 .. n -> [S -> S]]
    OBVIOUS
  <2>2. PICK g : Iterates(g, S, n, init, cut)
    <3> HIDE DEF cut
    <3> QED BY <2>1, IterationExists
  <2>3. Iterates(g, S, n, init, step)
    BY <2>2 DEF Iterates
  <2> QED BY <2>3
<1> HIDE DEF Part
<1>2. f \in [Nat -> S] /\ f[0] = init
  BY <1>1 DEF Iterates
<1>3. ASSUME NEW n \in Nat \ {0} PROVE f[n] = step[n][f[n - 1]]
  <2>1. Part(n)[n] = step[n][Part(n)[n - 1]]
    BY <1>1 DEF Iterates
  <2>2. Part(n - 1)[n - 1] = Part(n)[n - 1]
    BY <1>1, IterationUnique
  <2> QED BY <2>1, <2>2
<1> HIDE DEF f
<1> QED BY <1>2, <1>3 DEF Recurses

-----------------------------------------------------------------------------
(* Powers and digits. *)

LEMMA Widths ==
  /\ WordLen \in Nat \ {0} /\ AddrLen \in 1 .. WordLen /\ U128Len \in 1 .. WordLen
  /\ UsizeLen \in 1 .. WordLen /\ Base \in Nat \ {0}
BY WidthAssumption

\* The powers of a number, as a recursive function.
LEMMA PowersExist ==
  ASSUME NEW b \in Nat
  PROVE  \E f : f = [n \in Nat |-> IF n = 0 THEN 1 ELSE b * f[n - 1]]
<1> DEFINE step == [n \in Nat |-> [x \in Nat |-> b * x]]
<1>1. step \in [Nat -> [Nat -> Nat]]
  OBVIOUS
<1>2. \A n, x \in Nat : step[n][x] = b * x
  OBVIOUS
<1> HIDE DEF step
<1>3. PICK f : Recurses(f, Nat, 1, step)
  BY <1>1, RecursionExists
<1>4. ASSUME NEW n \in Nat \ {0} PROVE f[n] = b * f[n - 1]
  <2>1. n - 1 \in Nat /\ n \in Nat
    OBVIOUS
  <2>2. f[n] = step[n][f[n - 1]] /\ f[n - 1] \in Nat
    BY <1>3, <2>1 DEF Recurses
  <2> QED BY <1>2, <2>1, <2>2
<1>5. f = [n \in Nat |-> IF n = 0 THEN 1 ELSE b * f[n - 1]]
  BY <1>3, <1>4 DEF Recurses
<1> QED BY <1>5

\* What follows from being that function.
LEMMA PowerRule ==
  ASSUME NEW b \in Nat \ {0}, NEW f, f = [n \in Nat |-> IF n = 0 THEN 1 ELSE b * f[n - 1]]
  PROVE  /\ f \in [Nat -> Nat \ {0}] /\ f[0] = 1
         /\ \A n \in Nat \ {0} : f[n] = b * f[n - 1]
<1>1. \A n \in Nat : f[n] = IF n = 0 THEN 1 ELSE b * f[n - 1]
  OBVIOUS
<1>2. f[0] = 1 /\ \A n \in Nat \ {0} : f[n] = b * f[n - 1]
  BY <1>1
<1>3. f = [n \in Nat |-> f[n]]
  BY <1>1
<1>4. ASSUME NEW n \in Nat PROVE f[n] \in Nat \ {0}
  <2> DEFINE T == {i \in 0 .. n : f[i] \in Nat \ {0}}
  <2>1. 0 \in T
    BY <1>2
  <2>2. ASSUME NEW i \in 1 .. n, i - 1 \in T PROVE i \in T
    BY <1>2, <2>2
  <2>3. 0 .. n \subseteq T
    <3> HIDE DEF T
    <3> QED BY <2>1, <2>2, UpTo
  <2> QED BY <2>3
<1> QED BY <1>2, <1>3, <1>4

\* The powers of a byte's values.
LEMMA Powers ==
  /\ Power \in [Nat -> Nat \ {0}] /\ Power[0] = 1
  /\ \A n \in Nat \ {0} : Power[n] = Base * Power[n - 1]
<1> DEFINE Rule(g) == g = [n \in Nat |-> IF n = 0 THEN 1 ELSE Base * g[n - 1]]
<1>1. Power = CHOOSE g : Rule(g)
  BY DEF Power
<1>2. \E f : Rule(f)
  BY PowersExist, Widths
<1>3. Rule(Power)
  <2> HIDE DEF Rule
  <2> QED BY <1>1, <1>2
<1> QED BY <1>3, PowerRule, Widths

\* A power is no zero: what is divided by one is defined.
LEMMA PowersPositive ==
  ASSUME NEW n \in Nat
  PROVE  Power[n] \in Nat \ {0}
BY Powers

\* A number of more bytes is larger.
LEMMA PowersGrow ==
  ASSUME NEW n \in Nat, NEW m \in 0 .. n
  PROVE  Power[m] <= Power[n]
<1> DEFINE T == {i \in 0 .. n : i < m \/ Power[m] <= Power[i]}
<1>1. 0 \in T
  BY PowersPositive
<1>2. ASSUME NEW i \in 1 .. n, i - 1 \in T PROVE i \in T
  <2>1. Power[i] = Base * Power[i - 1] /\ Power[i - 1] \in Nat \ {0} /\ Base \in Nat \ {0}
    <3>1. i \in Nat \ {0} /\ i - 1 \in Nat
      OBVIOUS
    <3>2. Power[i] = Base * Power[i - 1]
      BY <3>1, Powers
    <3>3. Power[i - 1] \in Nat \ {0}
      BY <3>1, PowersPositive
    <3> QED BY <3>2, <3>3, Widths
  <2>2. Power[i] >= Power[i - 1] /\ Power[i] \in Nat
    BY <2>1
  <2>3. Power[m] \in Nat
    BY PowersPositive
  <2> QED BY <1>2, <2>1, <2>2, <2>3
<1>3. 0 .. n \subseteq T
  <2> HIDE DEF T
  <2> QED BY <1>1, <1>2, UpTo
<1> QED BY <1>3

\* Division with a positive divisor.
LEMMA Division ==
  ASSUME NEW n \in Nat, NEW d \in Nat \ {0}
  PROVE  /\ n \div d \in Nat /\ n % d \in 0 .. d - 1
         /\ n = d * (n \div d) + (n % d)
BY SMT

\* Quotient and remainder are the ones that were put together.
LEMMA Quotient ==
  ASSUME NEW d \in Nat \ {0}, NEW q \in Nat, NEW r \in 0 .. d - 1
  PROVE  (d * q + r) \div d = q /\ (d * q + r) % d = r
BY SMT

\* Division by a product is division by one factor after the other.
LEMMA DivideTwice ==
  ASSUME NEW n \in Nat, NEW p \in Nat \ {0}, NEW b \in Nat \ {0}
  PROVE  n \div (b * p) = (n \div p) \div b
<1> DEFINE q == n \div p
           r == n % p
           s == q \div b
           t == q % b
<1>1. q \in Nat /\ r \in 0 .. p - 1 /\ n = p * q + r
  BY Division
<1>2. s \in Nat /\ t \in 0 .. b - 1 /\ q = b * s + t
  BY <1>1, Division
<1> HIDE DEF q, r, s, t
<1>3. p * t <= p * (b - 1)
  BY <1>2
<1>4. p * (b - 1) = b * p - p
  BY SMT
<1>5. p * q = (b * p) * s + p * t
  BY <1>2
<1>6. b * p \in Nat \ {0} /\ p * t \in Nat /\ (b * p) * s \in Nat
  BY <1>2
<1>7. p * t + r \in 0 .. b * p - 1
  BY <1>1, <1>3, <1>4, <1>6
<1>8. n = (b * p) * s + (p * t + r)
  BY <1>1, <1>5, <1>6, <1>7
<1>9. n \div (b * p) = s
  BY <1>2, <1>6, <1>7, <1>8, Quotient
<1> QED BY <1>9 DEF s, q

\* The k lowest digits of n, the highest first.
Digits(k, n) == [i \in 1 .. k |-> (n \div Power[k - i]) % Base]

\* Number is what its recursion says.
LEMMA NumberIs ==
  ASSUME NEW n \in Nat, NEW w \in [1 .. n -> Nat], Len(w) = n, NEW f \in [0 .. n -> Nat],
         f[0] = 0, \A i \in 1 .. n : f[i] = Base * f[i - 1] + w[i]
  PROVE  Number(w) = f[n]
<1> DEFINE Rule(v) ==
             v = [i \in 0 .. n |-> IF i = 0 THEN 0 ELSE Base * v[i - 1] + w[i]]
           g == CHOOSE v : Rule(v)
<1>1. Rule(f)
  <2>1. \A i \in 0 .. n : f[i] = IF i = 0 THEN 0 ELSE Base * f[i - 1] + w[i]
    OBVIOUS
  <2> QED BY <2>1
<1>2. Rule(g)
  <2> HIDE DEF Rule
  <2> QED BY <1>1
<1>3. Number(w) = g[n]
  BY DEF Number
<1> HIDE DEF g
<1>4. \A i \in 0 .. n : g[i] = IF i = 0 THEN 0 ELSE Base * g[i - 1] + w[i]
  BY <1>2
<1> HIDE DEF Rule
<1> DEFINE T == {i \in 0 .. n : f[i] = g[i]}
<1>5. 0 \in T
  BY <1>4
<1>6. ASSUME NEW i \in 1 .. n, i - 1 \in T PROVE i \in T
  <2>1. f[i - 1] = g[i - 1] /\ i \in 0 .. n /\ i # 0
    BY <1>6
  <2>2. g[i] = Base * g[i - 1] + w[i]
    BY <1>4, <2>1
  <2> QED BY <2>1, <2>2
<1>7. 0 .. n \subseteq T
  <2> HIDE DEF T
  <2> QED BY <1>5, <1>6, UpTo
<1> QED BY <1>3, <1>7

\* k digits of a number below the k-th power are read back as that number.
LEMMA NumberOfDigits ==
  ASSUME NEW k \in Nat, NEW n \in Nat, n < Power[k]
  PROVE  Number(Digits(k, n)) = n
<1> DEFINE f == [i \in 0 .. k |-> n \div Power[k - i]]
           w == Digits(k, n)
<1>1. Len(w) = k /\ \A i \in 1 .. k : w[i] = (n \div Power[k - i]) % Base
  BY DEF Digits
<1>2. f[0] = 0
  BY PowersPositive
<1>3. ASSUME NEW i \in 1 .. k PROVE f[i] = Base * f[i - 1] + w[i]
  <2> DEFINE p == Power[k - i]
             q == n \div p
  <2>1. p \in Nat \ {0} /\ Power[k - (i - 1)] = Base * p
    BY Powers, PowersPositive
  <2>2. f[i - 1] = n \div (Base * p)
    BY <2>1
  <2>3. f[i] = q /\ w[i] = q % Base
    BY <1>1
  <2> HIDE DEF p, f, w
  <2>4. n \div (Base * p) = q \div Base
    BY <2>1, DivideTwice, Widths DEF q
  <2>5. q \in Nat
    BY <2>1, Division DEF q
  <2>6. q = Base * (q \div Base) + (q % Base)
    BY <2>5, Division, Widths
  <2> QED BY <2>2, <2>3, <2>4, <2>6
<1>4. f[k] = n
  BY Powers
<1>5. f \in [0 .. k -> Nat] /\ w \in [1 .. k -> Nat]
  <2>1. ASSUME NEW i \in 0 .. k
        PROVE  n \div Power[k - i] \in Nat /\ (n \div Power[k - i]) % Base \in Nat
    <3>1. Power[k - i] \in Nat \ {0} /\ Base \in Nat \ {0}
      BY PowersPositive, Widths
    <3> DEFINE q == n \div Power[k - i]
    <3>2. q \in Nat
      BY <3>1, Division
    <3> HIDE DEF q
    <3>3. q % Base \in Nat
      BY <3>1, <3>2, Division
    <3> QED BY <3>2, <3>3 DEF q
  <2> QED BY <2>1 DEF Digits
<1> HIDE DEF f, w
<1>6. Number(w) = f[k]
  BY <1>1, <1>2, <1>3, <1>5, NumberIs
<1> QED BY <1>4, <1>6 DEF w

-----------------------------------------------------------------------------
(* Data in pieces. *)

\* The piece p is in data behind the first a bytes.
At(data, a, p) ==
  a + Len(p) <= Len(data) /\ \A j \in 1 .. Len(p) : data[a + j] = p[j]

\* A slice is the piece that lies there.
LEMMA AtIsSubSeq ==
  ASSUME NEW S, NEW data \in Seq(S), NEW a \in Nat, NEW p \in Seq(S), At(data, a, p)
  PROVE  SubSeq(data, a + 1, a + Len(p)) = p
<1> DEFINE s == SubSeq(data, a + 1, a + Len(p))
<1>1. Len(p) \in Nat /\ Len(data) \in Nat /\ a + Len(p) <= Len(data)
  BY DEF At
<1>2. \A i \in a + 1 .. a + Len(p) : data[i] \in S
  BY <1>1, ElementOfSeq
<1>3. s \in Seq(S) /\ Len(s) = Len(p)
  BY <1>1, <1>2, SubSeqProperties
<1>4. ASSUME NEW j \in 1 .. Len(p) PROVE s[j] = p[j]
  <2>1. s[j] = data[a + j]
    BY <1>1, SMT
  <2> QED BY <2>1 DEF At
<1> HIDE DEF s
<1>5. s = p
  BY <1>3, <1>4, SeqEqual
<1> QED BY <1>5 DEF s

\* Two pieces lie where their concatenation does.
LEMMA AtParts ==
  ASSUME NEW S, NEW data \in Seq(S), NEW a \in Nat, NEW p \in Seq(S), NEW r \in Seq(S),
         At(data, a, p \o r)
  PROVE  At(data, a, p) /\ At(data, a + Len(p), r)
<1>1. Len(p) \in Nat /\ Len(r) \in Nat /\ Len(p \o r) = Len(p) + Len(r)
  OBVIOUS
<1>2. \A j \in 1 .. Len(p) : (p \o r)[j] = p[j]
  OBVIOUS
<1>3. \A j \in 1 .. Len(r) : (p \o r)[Len(p) + j] = r[j]
  OBVIOUS
<1>4. Len(data) \in Nat
  OBVIOUS
<1>5. a + (Len(p) + Len(r)) <= Len(data)
      /\ \A j \in 1 .. Len(p) + Len(r) : data[a + j] = (p \o r)[j]
  BY <1>1 DEF At
<1>6. At(data, a, p)
  <2>1. a + Len(p) <= Len(data)
    BY <1>1, <1>4, <1>5
  <2>2. ASSUME NEW j \in 1 .. Len(p) PROVE data[a + j] = p[j]
    <3>1. j \in 1 .. Len(p) + Len(r)
      BY <1>1
    <3> QED BY <1>2, <1>5, <3>1
  <2> QED BY <2>1, <2>2 DEF At
<1>7. ASSUME NEW j \in 1 .. Len(r) PROVE data[a + Len(p) + j] = r[j]
  <2>1. Len(p) + j \in 1 .. Len(p) + Len(r) /\ a + (Len(p) + j) = a + Len(p) + j
    BY <1>1
  <2> QED BY <1>3, <1>5, <2>1
<1>8. a + Len(p) + Len(r) <= Len(data)
  BY <1>1, <1>4, <1>5
<1>9. At(data, a + Len(p), r)
  BY <1>7, <1>8 DEF At
<1> QED BY <1>6, <1>9

\* The middle of three pieces lies behind the first.
LEMMA AtIn ==
  ASSUME NEW S, NEW p \in Seq(S), NEW q \in Seq(S), NEW r \in Seq(S)
  PROVE  At((p \o q) \o r, Len(p), q)
<1>1. /\ Len(p) \in Nat /\ Len(q) \in Nat /\ Len(r) \in Nat
      /\ Len((p \o q) \o r) = Len(p) + Len(q) + Len(r)
  OBVIOUS
<1>2. \A j \in 1 .. Len(q) : ((p \o q) \o r)[Len(p) + j] = q[j]
  OBVIOUS
<1> QED BY <1>1, <1>2 DEF At

\* What is appended moves nothing.
LEMMA AtLonger ==
  ASSUME NEW S, NEW data \in Seq(S), NEW more \in Seq(S), NEW a \in Nat, NEW p \in Seq(S),
         At(data, a, p)
  PROVE  At(data \o more, a, p)
<1>1. Len(data) \in Nat /\ Len(more) \in Nat /\ Len(p) \in Nat /\ a + Len(p) <= Len(data)
  BY DEF At
<1>2. Len(data \o more) = Len(data) + Len(more)
  BY ConcatProperties
<1>3. ASSUME NEW j \in 1 .. Len(p) PROVE (data \o more)[a + j] = p[j]
  <2>1. a + j \in 1 .. Len(data) + Len(more) /\ a + j <= Len(data)
    BY <1>1
  <2>2. (data \o more)[a + j] = data[a + j]
    BY <2>1, ConcatProperties
  <2> QED BY <2>2 DEF At
<1> QED BY <1>1, <1>2, <1>3 DEF At

\* Where the pieces of Flat are.
Sizes(size, ws, n) ==
  /\ size \in [0 .. n -> Nat] /\ size[0] = 0
  /\ \A i \in 1 .. n : size[i] = size[i - 1] + Len(ws[i])

\* Concatenated pieces lie where the sizes of those in front say.
LEMMA FlatAt ==
  ASSUME NEW S, NEW n \in Nat, NEW ws \in Seq(Seq(S)), Len(ws) = n, NEW size, Sizes(size, ws, n)
  PROVE  /\ Flat(ws) \in Seq(S) /\ Len(Flat(ws)) = size[n]
         /\ \A i \in 1 .. n : At(Flat(ws), size[i - 1], ws[i])
<1> USE DEF Sizes
<1> DEFINE step == [i \in 1 .. n |-> [x \in Seq(S) |-> x \o ws[i]]]
           Rule(v) == v = [i \in 0 .. n |-> IF i = 0 THEN <<>> ELSE v[i - 1] \o ws[i]]
           g == CHOOSE v : Rule(v)
<1>1. \A i \in 1 .. n : ws[i] \in Seq(S)
  BY ElementOfSeq
<1>2. step \in [1 .. n -> [Seq(S) -> Seq(S)]]
  BY <1>1, ConcatProperties
<1>3. \A i \in 1 .. n, x \in Seq(S) : step[i][x] = x \o ws[i]
  OBVIOUS
<1>4. <<>> \in Seq(S) /\ Len(<<>>) = 0
  BY EmptySeq
<1>5. PICK f : Iterates(f, Seq(S), n, <<>>, step)
  <2> HIDE DEF step
  <2> QED BY <1>2, <1>4, IterationExists
<1> HIDE DEF step
<1>6. /\ f \in [0 .. n -> Seq(S)] /\ f[0] = <<>>
      /\ \A i \in 1 .. n : f[i] = f[i - 1] \o ws[i]
  <2>1. f \in [0 .. n -> Seq(S)] /\ f[0] = <<>>
    BY <1>5 DEF Iterates
  <2>2. ASSUME NEW i \in 1 .. n PROVE f[i] = f[i - 1] \o ws[i]
    <3>1. f[i] = step[i][f[i - 1]]
      BY <1>5 DEF Iterates
    <3>2. f[i - 1] \in Seq(S)
      BY <2>1
    <3> QED BY <1>3, <3>1, <3>2
  <2> QED BY <2>1, <2>2
<1>7. Rule(f)
  <2>1. ASSUME NEW i \in 0 .. n PROVE f[i] = IF i = 0 THEN <<>> ELSE f[i - 1] \o ws[i]
    <3>1. CASE i = 0
      BY <1>6, <3>1
    <3>2. CASE i # 0
      <4>1. i \in 1 .. n
        BY <3>2
      <4> QED BY <1>6, <3>2, <4>1
    <3> QED BY <3>1, <3>2
  <2> QED BY <1>6, <2>1
<1>8. Rule(g)
  <2> HIDE DEF Rule
  <2> QED BY <1>7
<1>9. Flat(ws) = g[n]
  BY DEF Flat
<1> HIDE DEF g
<1>10. \A i \in 0 .. n : g[i] = IF i = 0 THEN <<>> ELSE g[i - 1] \o ws[i]
  BY <1>8
<1> HIDE DEF Rule
<1>11. g[n] = f[n]
  <2> DEFINE T == {i \in 0 .. n : g[i] = f[i]}
  <2>1. 0 \in T
    BY <1>6, <1>10
  <2>2. ASSUME NEW i \in 1 .. n, i - 1 \in T PROVE i \in T
    <3>1. g[i - 1] = f[i - 1] /\ i \in 0 .. n /\ i # 0
      BY <2>2
    <3>2. g[i] = g[i - 1] \o ws[i]
      BY <1>10, <3>1
    <3> QED BY <1>6, <3>1, <3>2
  <2>3. 0 .. n \subseteq T
    <3> HIDE DEF T
    <3> QED BY <2>1, <2>2, UpTo
  <2> QED BY <2>3
<1> DEFINE U == {i \in 0 .. n : /\ Len(f[i]) = size[i]
                                /\ \A k \in 1 .. i : At(f[i], size[k - 1], ws[k])}
<1>12. 0 \in U
  BY <1>4, <1>6
<1>13. ASSUME NEW i \in 1 .. n, i - 1 \in U PROVE i \in U
  <2> DEFINE old == f[i - 1]
             w == ws[i]
  <2>1. old \in Seq(S) /\ w \in Seq(S) /\ f[i] = old \o w /\ Len(old) = size[i - 1]
    BY <1>1, <1>6, <1>13
  <2>2. \A k \in 1 .. i - 1 : At(old, size[k - 1], ws[k])
    BY <1>13
  <2>3. size[i] = size[i - 1] + Len(w)
    OBVIOUS
  <2> HIDE DEF old, w
  <2>4. Len(f[i]) = size[i]
    <3>1. Len(old \o w) = Len(old) + Len(w)
      BY <2>1, ConcatProperties
    <3> QED BY <2>1, <2>3, <3>1
  <2>5. At(f[i], size[i - 1], w)
    <3>1. At((old \o w) \o <<>>, Len(old), w)
      BY <1>4, <2>1, AtIn
    <3>2. old \o w \in Seq(S)
      BY <2>1, ConcatProperties
    <3>3. (old \o w) \o <<>> = old \o w
      BY <3>2, ConcatEmptySeq
    <3> QED BY <2>1, <3>1, <3>3
  <2>6. ASSUME NEW k \in 1 .. i - 1 PROVE At(f[i], size[k - 1], ws[k])
    <3>1. ws[k] \in Seq(S) /\ size[k - 1] \in Nat /\ At(old, size[k - 1], ws[k])
      BY <1>1, <2>2
    <3> QED BY <2>1, <3>1, AtLonger
  <2>7. ASSUME NEW k \in 1 .. i PROVE At(f[i], size[k - 1], ws[k])
    <3>1. k = i \/ k \in 1 .. i - 1
      OBVIOUS
    <3> QED BY <2>5, <2>6, <3>1 DEF w
  <2> QED BY <2>4, <2>7
<1>14. 0 .. n \subseteq U
  <2> HIDE DEF U
  <2> QED BY <1>12, <1>13, UpTo
<1> QED BY <1>6, <1>9, <1>11, <1>14

-----------------------------------------------------------------------------
(* Words. *)

Byte == 0 .. Base - 1

\* A function over 1 .. n is a sequence.
LEMMA FunctionIsSeq ==
  ASSUME NEW S, NEW n \in Nat, NEW f \in [1 .. n -> S]
  PROVE  f \in Seq(S) /\ Len(f) = n
BY SeqDef

\* Digits to the base of a byte are bytes.
LEMMA DigitsAreBytes ==
  ASSUME NEW k \in Nat, NEW n \in Nat
  PROVE  /\ Digits(k, n) \in [1 .. k -> Byte]
         /\ Digits(k, n) \in Bytes /\ Len(Digits(k, n)) = k
         /\ \A i \in 1 .. k : Digits(k, n)[i] = (n \div Power[k - i]) % Base
<1>1. ASSUME NEW i \in 1 .. k PROVE (n \div Power[k - i]) % Base \in Byte
  <2> DEFINE q == n \div Power[k - i]
  <2>1. Power[k - i] \in Nat \ {0} /\ Base \in Nat \ {0}
    BY PowersPositive, Widths
  <2>2. q \in Nat
    BY <2>1, Division
  <2> HIDE DEF q
  <2>3. q % Base \in Byte
    BY <2>1, <2>2, Division DEF Byte
  <2> QED BY <2>3 DEF q
<1>2. Digits(k, n) \in [1 .. k -> Byte]
  BY <1>1 DEF Digits
<1>3. \A i \in 1 .. k : Digits(k, n)[i] = (n \div Power[k - i]) % Base
  BY DEF Digits
<1> QED BY <1>2, <1>3, FunctionIsSeq DEF Bytes, Byte

\* word_from_u128 writes all digits of a word.
LEMMA WordIsDigits ==
  ASSUME NEW n \in Nat
  PROVE  WordFromU128(n) = Digits(WordLen, n)
BY DEF WordFromU128, Digits

\* word_from_u128 gives one word of bytes.
LEMMA WordIsBytes ==
  ASSUME NEW n \in Nat
  PROVE  /\ WordFromU128(n) \in Bytes /\ Len(WordFromU128(n)) = WordLen
         /\ \A i \in 1 .. WordLen : WordFromU128(n)[i] = (n \div Power[WordLen - i]) % Base
<1>1. WordLen \in Nat
  BY Widths
<1> QED BY <1>1, WordIsDigits, DigitsAreBytes

\* The last k digits are the digits of k places.
LEMMA LastDigits ==
  ASSUME NEW m \in Nat, NEW k \in 0 .. m, NEW n \in Nat
  PROVE  SubSeq(Digits(m, n), m - k + 1, m) = Digits(k, n)
<1> DEFINE all == Digits(m, n)
           s == SubSeq(all, m - k + 1, m)
           d == Digits(k, n)
<1>1. /\ all \in Bytes /\ Len(all) = m
      /\ \A i \in 1 .. m : all[i] \in Byte /\ all[i] = (n \div Power[m - i]) % Base
  BY DigitsAreBytes
<1>2. d \in Seq(Byte) /\ Len(d) = k /\ \A i \in 1 .. k : d[i] = (n \div Power[k - i]) % Base
  BY DigitsAreBytes DEF Bytes, Byte
<1> HIDE DEF all, d
<1>3. s \in Seq(Byte) /\ Len(s) = k /\ \A i \in 1 .. k : s[i] = all[m - k + i]
  <2>1. \A i \in m - k + 1 .. m : all[i] \in Byte
    BY <1>1
  <2>2. /\ s \in Seq(Byte) /\ Len(s) = IF m - k + 1 <= m THEN m - (m - k + 1) + 1 ELSE 0
        /\ \A i \in 1 .. m - (m - k + 1) + 1 : s[i] = all[(m - k + 1) + i - 1]
    <3>1. m - k + 1 \in Int /\ m \in Int
      OBVIOUS
    <3> QED BY <2>1, <3>1, SubSeqProperties
  <2> HIDE DEF s
  <2>3. Len(s) = k
    BY <2>2
  <2>4. ASSUME NEW i \in 1 .. k PROVE s[i] = all[m - k + i]
    <3>1. i \in 1 .. m - (m - k + 1) + 1 /\ (m - k + 1) + i - 1 = m - k + i
      OBVIOUS
    <3> QED BY <2>2, <3>1
  <2> QED BY <2>2, <2>3, <2>4
<1> HIDE DEF s
<1>4. ASSUME NEW i \in 1 .. k PROVE s[i] = d[i]
  <2>1. m - k + i \in 1 .. m /\ m - (m - k + i) = k - i
    OBVIOUS
  <2> QED BY <1>1, <1>2, <1>3, <2>1
<1>5. s = d
  BY <1>2, <1>3, <1>4, SeqEqual
<1> QED BY <1>5 DEF s, all, d

\* A quotient is zero exactly for numbers below the divisor.
LEMMA SmallQuotient ==
  ASSUME NEW n \in Nat, NEW p \in Nat \ {0}
  PROVE  n \div p = 0 <=> n < p
<1>1. n \div p \in Nat /\ n % p \in 0 .. p - 1 /\ n = p * (n \div p) + (n % p)
  BY Division
<1>2. CASE n < p
  <2>1. (p * 0 + n) \div p = 0
    BY <1>2, Quotient
  <2> QED BY <1>2, <2>1
<1>3. CASE n \div p = 0
  BY <1>1, <1>3
<1> QED BY <1>2, <1>3

\* The high digits of a number are zero exactly when it fits the low ones.
LEMMA FitsIsSmall ==
  ASSUME NEW n \in Nat, n < Power[WordLen], NEW k \in 0 .. WordLen
  PROVE  Fits(WordFromU128(n), k) <=> n < Power[k]
<1> DEFINE w == WordFromU128(n)
           m == WordLen
<1>1. m \in Nat /\ Base \in Nat \ {0} /\ \A i \in 1 .. m : w[i] = (n \div Power[m - i]) % Base
  BY WordIsBytes, Widths
<1>2. Fits(w, k) <=> \A i \in 1 .. m - k : w[i] = 0
  BY DEF Fits
<1> HIDE DEF w
<1>3. ASSUME n < Power[k], NEW i \in 1 .. m - k PROVE w[i] = 0
  <2>1. m - i \in Nat /\ k \in 0 .. m - i
    BY <1>1
  <2>2. Power[k] <= Power[m - i] /\ Power[k] \in Nat \ {0} /\ Power[m - i] \in Nat \ {0}
    BY <2>1, PowersGrow, PowersPositive
  <2>3. n < Power[m - i]
    BY <1>3, <2>2
  <2>4. n \div Power[m - i] = 0
    BY <2>2, <2>3, SmallQuotient
  <2>5. 0 % Base = 0
    BY <1>1
  <2> QED BY <1>1, <2>1, <2>4, <2>5
<1>4. ASSUME \A i \in 1 .. m - k : w[i] = 0 PROVE n < Power[k]
  <2> DEFINE T == {i \in 0 .. m - k : n < Power[m - i]}
  <2>1. 0 \in T
    BY <1>1
  <2>2. ASSUME NEW i \in 1 .. m - k, i - 1 \in T PROVE i \in T
    <3> DEFINE p == Power[m - i]
               q == n \div p
    <3>1. m - i \in Nat /\ m - (i - 1) \in Nat \ {0} /\ m - (i - 1) - 1 = m - i
      BY <1>1
    <3>2. p \in Nat \ {0} /\ Power[m - (i - 1)] = Base * p
      BY <3>1, Powers, PowersPositive
    <3>3. n < Base * p /\ Base * p \in Nat \ {0}
      BY <1>1, <2>2, <3>2
    <3>4. q % Base = 0
      BY <1>1, <1>4
    <3> HIDE DEF p
    <3>5. n \div (Base * p) = 0
      BY <3>3, SmallQuotient
    <3>6. q \in Nat /\ n \div (Base * p) = q \div Base
      BY <1>1, <3>2, DivideTwice, Division
    <3> HIDE DEF q
    <3>7. q = Base * (q \div Base) + (q % Base)
      BY <1>1, <3>6, Division
    <3>8. q = 0
      BY <1>1, <3>4, <3>5, <3>6, <3>7
    <3>9. n < p
      BY <3>2, <3>8, SmallQuotient DEF q
    <3> QED BY <3>9 DEF p
  <2>3. 0 .. m - k \subseteq T
    <3>1. m - k \in Nat
      BY <1>1
    <3> HIDE DEF T
    <3> QED BY <2>1, <2>2, <3>1, UpTo
  <2>4. m - (m - k) = k /\ m - k \in 0 .. m - k
    BY <1>1
  <2> QED BY <2>3, <2>4
<1> QED BY <1>2, <1>3, <1>4 DEF w

-----------------------------------------------------------------------------
(* What a decoder makes of a number's word. *)

Types == {"word", "u128", "address", "bool", "state", "tier", "status"}

\* A word's last byte is the number modulo a byte, and all of it when the rest is zero.
LEMMA LastByte ==
  ASSUME NEW n \in Nat, n < Power[WordLen]
  PROVE  /\ WordFromU128(n)[WordLen] = n % Base
         /\ Fits(WordFromU128(n), 1) <=> n < Base
         /\ n < Base => n % Base = n
<1>1. WordLen \in 1 .. WordLen /\ WordLen - WordLen = 0 /\ 1 \in 0 .. WordLen
  BY Widths
<1>2. Power[0] = 1 /\ Power[1] = Base
  <2>1. Power[1] = Base * Power[1 - 1] /\ Power[0] = 1
    BY Powers
  <2> QED BY <2>1, Widths
<1>3. n \div 1 = n
  BY Division, SmallQuotient
<1>4. WordFromU128(n)[WordLen] = n % Base
  BY <1>1, <1>2, <1>3, WordIsBytes
<1>5. Fits(WordFromU128(n), 1) <=> n < Base
  BY <1>1, <1>2, FitsIsSmall
<1>6. n < Base => n % Base = n
  <2> SUFFICES ASSUME n < Base PROVE n % Base = n
    OBVIOUS
  <2>1. (Base * 0 + n) % Base = n
    BY Quotient, Widths
  <2> QED BY <2>1, Widths
<1> QED BY <1>4, <1>5, <1>6

\* The enums have as many names as the contracts have values, and a byte has room for
\* them.
LEMMA NamesFit ==
  /\ Len(JobStateNames) = 10 /\ \A i \in 1 .. 10 : JobStateNames[i] # AbiError
  /\ Len(TierNames) = 3 /\ \A i \in 1 .. 3 : TierNames[i] # AbiError
  /\ Len(PinStatusNames) = 4 /\ \A i \in 1 .. 4 : PinStatusNames[i] # AbiError
  /\ Base >= 10
<1>1. Len(JobStateNames) = 10
  BY DEF JobStateNames
<1>2. Len(TierNames) = 3
  BY DEF TierNames
<1>3. Len(PinStatusNames) = 4
  BY DEF PinStatusNames
<1>4. \A names \in {JobStateNames, TierNames, PinStatusNames} :
        \A i \in 1 .. Len(names) : names[i] # AbiError
  BY ErrorAssumption
<1>5. Base >= Len(JobStateNames)
  BY WidthAssumption
<1> QED BY <1>1, <1>2, <1>3, <1>4, <1>5

\* An enum takes the numbers of its names.
LEMMA MemberIsSmall ==
  ASSUME NEW n \in Nat, n < Power[WordLen], NEW names,
         Len(names) \in 0 .. Base, \A i \in 1 .. Len(names) : names[i] # AbiError
  PROVE  /\ Member(WordFromU128(n), names) <=> n < Len(names)
         /\ n < Len(names) => /\ WordFromU128(n)[WordLen] = n
                              /\ names[n + 1] # AbiError
<1>1. Len(names) \in Nat /\ Base \in Nat \ {0}
  BY Widths
<1>2. Member(WordFromU128(n), names) <=> n < Base /\ n % Base < Len(names)
  BY LastByte DEF Member
<1>3. n < Base => n % Base = n
  BY LastByte
<1>4. n < Len(names) => n + 1 \in 1 .. Len(names)
  BY <1>1
<1> QED BY <1>1, <1>2, <1>3, <1>4, LastByte

\* An error is no decoded value.
LEMMA ErrorIsNoValue ==
  /\ \A b \in BOOLEAN : b # AbiError
  /\ \A b \in Nat : b # AbiError
  /\ \A b \in Bytes : b # AbiError
BY ErrorAssumption

\* A decoder accepts exactly the words whose number means something, and returns that.
LEMMA ValueIsMeant ==
  ASSUME NEW n \in Nat, n < Power[WordLen], NEW type \in Types
  PROVE  /\ Accepts(type, WordFromU128(n)) <=> Meant(type, n) # AbiError
         /\ Accepts(type, WordFromU128(n)) => Value(type, WordFromU128(n)) = Meant(type, n)
<1> DEFINE w == WordFromU128(n)
<1>1. w \in Bytes
  BY WordIsBytes
<1>2. CASE type = "word"
  BY <1>1, <1>2, ErrorIsNoValue DEF Accepts, Value, Meant
<1>3. CASE type = "u128"
  <2>1. Fits(w, U128Len) <=> n < Power[U128Len]
    BY FitsIsSmall, Widths
  <2>2. SubSeq(w, WordLen - U128Len + 1, WordLen) = Digits(U128Len, n)
    BY LastDigits, Widths, WordIsDigits
  <2>3. n < Power[U128Len] => Number(SubSeq(w, WordLen - U128Len + 1, WordLen)) = n
    <3>1. U128Len \in Nat
      BY Widths
    <3> QED BY <2>2, <3>1, NumberOfDigits
  <2>4. n # AbiError
    BY ErrorIsNoValue
  <2>5. Accepts(type, w) <=> Fits(w, U128Len)
    BY <1>3 DEF Accepts
  <2>6. Value(type, w) = Number(SubSeq(w, WordLen - U128Len + 1, WordLen))
    BY <1>3 DEF Value
  <2>7. Meant(type, n) = IF n < Power[U128Len] THEN n ELSE AbiError
    BY <1>3 DEF Meant
  <2> QED BY <2>1, <2>3, <2>4, <2>5, <2>6, <2>7
<1>4. CASE type = "address"
  <2>1. Fits(w, AddrLen) <=> n < Power[AddrLen]
    BY FitsIsSmall, Widths
  <2>2. SubSeq(w, WordLen - AddrLen + 1, WordLen) = Digits(AddrLen, n)
    BY LastDigits, Widths, WordIsDigits
  <2>3. SubSeq(w, WordLen - AddrLen + 1, WordLen) # AbiError
    <3>1. Digits(AddrLen, n) \in Bytes
      BY DigitsAreBytes, Widths
    <3> QED BY <2>2, <3>1, ErrorIsNoValue
  <2>4. Accepts(type, w) <=> Fits(w, AddrLen)
    BY <1>4 DEF Accepts
  <2>5. Value(type, w) = SubSeq(w, WordLen - AddrLen + 1, WordLen)
    BY <1>4 DEF Value
  <2>6. Meant(type, n) = IF n < Power[AddrLen]
                         THEN SubSeq(w, WordLen - AddrLen + 1, WordLen) ELSE AbiError
    BY <1>4 DEF Meant
  <2> QED BY <2>1, <2>3, <2>4, <2>5, <2>6
<1>5. CASE type = "bool"
  <2>1. Base \in Nat /\ Base >= 2
    BY NamesFit, Widths
  <2>2. Accepts(type, w) <=> n < Base /\ n % Base \in {0, 1}
    BY <1>5, LastByte DEF Accepts
  <2>3. Accepts(type, w) <=> n <= 1
    <3>1. n < Base => n % Base = n
      BY LastByte
    <3> QED BY <2>1, <2>2, <3>1
  <2>4. n <= 1 => (Value(type, w) <=> n = 1)
    <3>1. Value(type, w) <=> n % Base = 1
      BY <1>5, LastByte DEF Value
    <3>2. n <= 1 => n % Base = n
      BY <2>1, LastByte
    <3> QED BY <3>1, <3>2
  <2>5. (n = 1) # AbiError
    BY ErrorIsNoValue
  <2>6. Meant(type, n) = IF n <= 1 THEN n = 1 ELSE AbiError
    BY <1>5 DEF Meant
  <2>7. Value(type, w) = (w[WordLen] = 1)
    BY <1>5 DEF Value
  <2> QED BY <2>3, <2>4, <2>5, <2>6, <2>7
<1>6. CASE type = "state"
  <2>1. /\ Len(JobStateNames) = 10 /\ Len(JobStateNames) \in 0 .. Base
      /\ \A i \in 1 .. Len(JobStateNames) : JobStateNames[i] # AbiError
    BY NamesFit, Widths
  <2>2. Accepts(type, w) <=> n < 10
    <3>1. Accepts(type, w) <=> Member(w, JobStateNames)
      BY <1>6 DEF Accepts
    <3>2. Member(w, JobStateNames) <=> n < Len(JobStateNames)
      BY <2>1, MemberIsSmall
    <3> QED BY <2>1, <3>1, <3>2
  <2>3. n < 10 => w[WordLen] = n /\ JobStateNames[n + 1] # AbiError
    BY <2>1, MemberIsSmall
  <2>4. Value(type, w) = JobStateNames[w[WordLen] + 1]
    BY <1>6 DEF Value
  <2>5. Meant(type, n) = IF n < 10 THEN JobStateNames[n + 1] ELSE AbiError
    BY <1>6 DEF Meant
  <2> QED BY <2>2, <2>3, <2>4, <2>5, ErrorIsNoValue
<1>7. CASE type = "tier"
  <2>1. /\ Len(TierNames) = 3 /\ Len(TierNames) \in 0 .. Base
      /\ \A i \in 1 .. Len(TierNames) : TierNames[i] # AbiError
    BY NamesFit, Widths
  <2>2. Accepts(type, w) <=> n < 3
    <3>1. Accepts(type, w) <=> Member(w, TierNames)
      BY <1>7 DEF Accepts
    <3>2. Member(w, TierNames) <=> n < Len(TierNames)
      BY <2>1, MemberIsSmall
    <3> QED BY <2>1, <3>1, <3>2
  <2>3. n < 3 => w[WordLen] = n /\ TierNames[n + 1] # AbiError
    BY <2>1, MemberIsSmall
  <2>4. Value(type, w) = TierNames[w[WordLen] + 1]
    BY <1>7 DEF Value
  <2>5. Meant(type, n) = IF n < 3 THEN TierNames[n + 1] ELSE AbiError
    BY <1>7 DEF Meant
  <2> QED BY <2>2, <2>3, <2>4, <2>5, ErrorIsNoValue
<1>8. CASE type = "status"
  <2>1. /\ Len(PinStatusNames) = 4 /\ Len(PinStatusNames) \in 0 .. Base
      /\ \A i \in 1 .. Len(PinStatusNames) : PinStatusNames[i] # AbiError
    BY NamesFit, Widths
  <2>2. Accepts(type, w) <=> n < 4
    <3>1. Accepts(type, w) <=> Member(w, PinStatusNames)
      BY <1>8 DEF Accepts
    <3>2. Member(w, PinStatusNames) <=> n < Len(PinStatusNames)
      BY <2>1, MemberIsSmall
    <3> QED BY <2>1, <3>1, <3>2
  <2>3. n < 4 => w[WordLen] = n /\ PinStatusNames[n + 1] # AbiError
    BY <2>1, MemberIsSmall
  <2>4. Value(type, w) = PinStatusNames[w[WordLen] + 1]
    BY <1>8 DEF Value
  <2>5. Meant(type, n) = IF n < 4 THEN PinStatusNames[n + 1] ELSE AbiError
    BY <1>8 DEF Meant
  <2> QED BY <2>2, <2>3, <2>4, <2>5, ErrorIsNoValue
<1> QED BY <1>2, <1>3, <1>4, <1>5, <1>6, <1>7, <1>8 DEF Types

-----------------------------------------------------------------------------
(* Hex digits. *)

LEMMA Nibbles ==
  Nibble \in Nat \ {0} /\ Base = Nibble * Nibble /\ NotHex \notin 0 .. Nibble - 1
<1>1. Nibble \in Nat /\ Base = Nibble * Nibble /\ NotHex \notin 0 .. Nibble - 1
  BY WidthAssumption
<1>2. Nibble # 0
  BY <1>1, Widths
<1> QED BY <1>1, <1>2

\* Bytes as a function.
LEMMA BytesAre ==
  ASSUME NEW b \in Bytes
  PROVE  /\ Len(b) \in Nat /\ b = [i \in 1 .. Len(b) |-> b[i]]
         /\ \A i \in 1 .. Len(b) : b[i] \in 0 .. Base - 1
<1>1. b \in Seq(0 .. Base - 1)
  BY DEF Bytes
<1>2. Len(b) \in Nat /\ b = [i \in 1 .. Len(b) |-> b[i]]
  BY <1>1
<1>3. ASSUME NEW i \in 1 .. Len(b) PROVE b[i] \in 0 .. Base - 1
  <2> DEFINE S == 0 .. Base - 1
  <2> HIDE DEF S
  <2>1. b \in Seq(S)
    BY <1>1 DEF S
  <2>2. b[i] \in S
    BY <2>1, ElementOfSeq
  <2> QED BY <2>2 DEF S
<1> QED BY <1>2, <1>3

\* hex_encode gives two digits for each byte, the higher first.
LEMMA HexDigits ==
  ASSUME NEW b \in Bytes
  PROVE  /\ HexEncode(b) \in Seq(0 .. Nibble - 1) /\ Len(HexEncode(b)) = 2 * Len(b)
         /\ \A i \in 1 .. Len(b) : /\ HexEncode(b)[2 * i - 1] = b[i] \div Nibble
                                   /\ HexEncode(b)[2 * i] = b[i] % Nibble
<1> DEFINE n == Len(b)
           h == HexEncode(b)
           High(i) == b[(i + 1) \div 2] \div Nibble
           Low(i) == b[i \div 2] % Nibble
<1>1. n \in Nat /\ \A j \in 1 .. n : b[j] \in 0 .. Base - 1
  BY BytesAre
<1>2. ASSUME NEW j \in 1 .. n
      PROVE  b[j] \div Nibble \in 0 .. Nibble - 1 /\ b[j] % Nibble \in 0 .. Nibble - 1
  <2> DEFINE x == b[j]
  <2>1. x \in Nat /\ x < Nibble * Nibble /\ Nibble \in Nat \ {0}
    BY <1>1, Nibbles
  <2> HIDE DEF x
  <2>2. x \div Nibble \in Nat /\ x % Nibble \in 0 .. Nibble - 1
        /\ x = Nibble * (x \div Nibble) + (x % Nibble)
    BY <2>1, Division
  <2>3. x \div Nibble < Nibble
    <3> SUFFICES ASSUME x \div Nibble >= Nibble PROVE FALSE
      BY <2>1, <2>2
    <3>1. Nibble * (x \div Nibble) >= Nibble * Nibble
      BY <2>1, <2>2
    <3> QED BY <2>1, <2>2, <3>1
  <2>4. x \div Nibble \in 0 .. Nibble - 1
    BY <2>1, <2>2, <2>3
  <2> QED BY <2>2, <2>4 DEF x
<1>3. h = [i \in 1 .. 2 * n |-> IF i % 2 = 1 THEN High(i) ELSE Low(i)]
  BY DEF HexEncode
<1>4. ASSUME NEW i \in 1 .. 2 * n PROVE h[i] \in 0 .. Nibble - 1
  <2>1. CASE i % 2 = 1
    <3>1. (i + 1) \div 2 \in 1 .. n
      BY <1>1, <2>1
    <3>2. h[i] = High(i)
      BY <1>3, <2>1
    <3> QED BY <1>2, <3>1, <3>2
  <2>2. CASE i % 2 # 1
    <3>1. i \div 2 \in 1 .. n
      BY <1>1, <2>2
    <3>2. h[i] = Low(i)
      BY <1>3, <2>2
    <3> QED BY <1>2, <3>1, <3>2
  <2> QED BY <2>1, <2>2
<1>5. h \in [1 .. 2 * n -> 0 .. Nibble - 1] /\ 2 * n \in Nat
  <2> HIDE DEF High, Low
  <2>1. DOMAIN h = 1 .. 2 * n /\ h = [i \in 1 .. 2 * n |-> h[i]]
    BY <1>3
  <2> HIDE DEF h
  <2> QED BY <1>1, <1>4, <2>1
<1>6. h \in Seq(0 .. Nibble - 1) /\ Len(h) = 2 * n
  <2> HIDE DEF h, n
  <2> QED BY <1>5, FunctionIsSeq
<1>7. ASSUME NEW i \in 1 .. n
      PROVE  h[2 * i - 1] = b[i] \div Nibble /\ h[2 * i] = b[i] % Nibble
  <2>1. /\ 2 * i - 1 \in 1 .. 2 * n /\ 2 * i \in 1 .. 2 * n
        /\ (2 * i - 1) % 2 = 1 /\ (2 * i) % 2 = 0
        /\ ((2 * i - 1) + 1) \div 2 = i /\ (2 * i) \div 2 = i
    BY <1>1
  <2>2. h[2 * i - 1] = High(2 * i - 1)
    BY <1>3, <2>1
  <2>3. h[2 * i] = Low(2 * i)
    BY <1>3, <2>1
  <2> QED BY <2>1, <2>2, <2>3
<1> QED BY <1>6, <1>7

\* Bytes survive the way through hex.
LEMMA HexBack ==
  ASSUME NEW b \in Bytes
  PROVE  HexDecode(HexEncode(b)) = b
<1> DEFINE n == Len(b)
           h == HexEncode(b)
           d == [i \in 1 .. n |-> Nibble * h[2 * i - 1] + h[2 * i]]
<1>1. n \in Nat /\ b = [i \in 1 .. n |-> b[i]] /\ \A i \in 1 .. n : b[i] \in 0 .. Base - 1
  BY BytesAre
<1>2. /\ Len(h) = 2 * n /\ \A i \in 1 .. 2 * n : h[i] \in 0 .. Nibble - 1
      /\ \A i \in 1 .. n : h[2 * i - 1] = b[i] \div Nibble /\ h[2 * i] = b[i] % Nibble
  <2> DEFINE D == 0 .. Nibble - 1
  <2> HIDE DEF D
  <2>1. h \in Seq(D) /\ Len(h) = 2 * n
    BY HexDigits DEF D
  <2>2. \A i \in 1 .. 2 * n : h[i] \in D
    BY <2>1, ElementOfSeq
  <2> QED BY <2>1, <2>2, HexDigits DEF D
<1> HIDE DEF h
<1>3. (2 * n) % 2 = 0 /\ (2 * n) \div 2 = n
  <2> HIDE DEF n
  <2>1. n \in Nat
    BY <1>1
  <2> QED BY <2>1
<1>4. HexDecode(h) = d
  <2>1. \A i \in 1 .. 2 * n : h[i] # NotHex
    BY <1>2, Nibbles
  <2> HIDE DEF n
  <2> QED BY <1>2, <1>3, <2>1 DEF HexDecode
<1>5. ASSUME NEW i \in 1 .. n PROVE Nibble * h[2 * i - 1] + h[2 * i] = b[i]
  <2>1. b[i] \in Nat /\ Nibble \in Nat \ {0}
    BY <1>1, Nibbles, Widths
  <2> QED BY <1>2, <2>1, Division
<1>6. d = b
  BY <1>1, <1>5
<1> QED BY <1>4, <1>6 DEF h

\* The head of calldata or of an answer: one word after the other.
LEMMA WordIsAt ==
  ASSUME NEW data \in Bytes, NEW i \in Nat \ {0}, NEW w \in Bytes32,
         At(data, (i - 1) * WordLen, w)
  PROVE  WordAt(data, i) = w /\ i * WordLen <= Len(data)
<1> DEFINE S == 0 .. Base - 1
           a == (i - 1) * WordLen
<1>1. WordLen \in Nat /\ i - 1 \in Nat
  BY Widths
<1>2. a \in Nat /\ a + WordLen = i * WordLen
  BY <1>1
<1>3. data \in Seq(S) /\ w \in Seq(S) /\ Len(w) = WordLen
  BY DEF Bytes, Bytes32
<1>4. WordAt(data, i) = SubSeq(data, a + 1, a + WordLen)
  BY <1>2 DEF WordAt
<1> HIDE DEF S, a
<1>5. At(data, a, w)
  BY DEF a
<1>6. SubSeq(data, a + 1, a + Len(w)) = w
  BY <1>2, <1>3, <1>5, AtIsSubSeq
<1>7. a + Len(w) <= Len(data)
  BY <1>5 DEF At
<1> QED BY <1>2, <1>3, <1>4, <1>6, <1>7

\* FlatAt for bytes.
LEMMA FlatBytes ==
  ASSUME NEW n \in Nat, NEW ws \in Seq(Bytes), Len(ws) = n, NEW size, Sizes(size, ws, n)
  PROVE  /\ Flat(ws) \in Bytes /\ Len(Flat(ws)) = size[n]
         /\ \A i \in 1 .. n : At(Flat(ws), size[i - 1], ws[i])
BY FlatAt DEF Bytes

\* Pieces that begin with k words: each is where the decoder reads it.
LEMMA HeadWords ==
  ASSUME NEW n \in Nat, NEW ws \in Seq(Bytes), Len(ws) = n,
         NEW size, Sizes(size, ws, n),
         NEW k \in 0 .. n, \A i \in 1 .. k : Len(ws[i]) = WordLen
  PROVE  /\ \A i \in 0 .. k : size[i] = i * WordLen
         /\ \A i \in 1 .. k : WordAt(Flat(ws), i) = ws[i]
         /\ k * WordLen <= Len(Flat(ws))
<1> DEFINE T == {i \in 0 .. k : size[i] = i * WordLen}
           data == Flat(ws)
<1>1. WordLen \in Nat \ {0} /\ k \in Nat
  BY Widths
<1>2. 0 \in T
  BY <1>1 DEF Sizes
<1>3. ASSUME NEW i \in 1 .. k, i - 1 \in T PROVE i \in T
  <2>1. size[i] = size[i - 1] + WordLen /\ size[i - 1] = (i - 1) * WordLen
    BY <1>3 DEF Sizes
  <2>2. (i - 1) * WordLen + WordLen = i * WordLen
    BY <1>1
  <2> QED BY <2>1, <2>2
<1>4. 0 .. k \subseteq T
  <2> HIDE DEF T
  <2> QED BY <1>1, <1>2, <1>3, UpTo
<1>5. data \in Bytes /\ \A i \in 1 .. n : At(data, size[i - 1], ws[i])
  BY FlatBytes
<1>6. \A i \in 1 .. n : ws[i] \in Bytes
  BY ElementOfSeq
<1> HIDE DEF data
<1>7. ASSUME NEW i \in 1 .. k PROVE WordAt(data, i) = ws[i] /\ i * WordLen <= Len(data)
  <2>1. ws[i] \in Bytes32
    BY <1>6 DEF Bytes32
  <2>2. At(data, (i - 1) * WordLen, ws[i])
    BY <1>4, <1>5
  <2> QED BY <1>5, <2>1, <2>2, WordIsAt
<1>8. k * WordLen <= Len(data)
  <2>1. CASE k = 0
    <3>1. k * WordLen = 0
      BY <1>1, <2>1
    <3>2. Len(data) \in Nat
      BY <1>5, BytesAre
    <3> QED BY <3>1, <3>2
  <2>2. CASE k # 0
    <3>1. k \in 1 .. k
      BY <1>1, <2>2
    <3> QED BY <1>7, <3>1
  <2> QED BY <2>1, <2>2
<1> QED BY <1>4, <1>7, <1>8 DEF data

\* Data that is words only.
LEMMA OnlyWords ==
  ASSUME NEW n \in Nat, NEW ws \in Seq(Bytes), Len(ws) = n,
         \A i \in 1 .. n : Len(ws[i]) = WordLen
  PROVE  /\ Flat(ws) \in Bytes /\ Len(Flat(ws)) = n * WordLen
         /\ \A i \in 1 .. n : WordAt(Flat(ws), i) = ws[i]
<1> DEFINE size == [i \in 0 .. n |-> i * WordLen]
<1>1. WordLen \in Nat \ {0}
  BY Widths
<1>2. size \in [0 .. n -> Nat]
  BY <1>1
<1>3. size[0] = 0 /\ size[n] = n * WordLen
  BY <1>1
<1>4. ASSUME NEW i \in 1 .. n PROVE size[i] = size[i - 1] + Len(ws[i])
  <2>1. i \in 0 .. n /\ i - 1 \in 0 .. n
    OBVIOUS
  <2>2. i * WordLen = (i - 1) * WordLen + WordLen
    BY <1>1
  <2> QED BY <2>1, <2>2
<1>5. Sizes(size, ws, n)
  BY <1>2, <1>3, <1>4 DEF Sizes
<1> HIDE DEF size
<1>6. \A i \in 1 .. n : WordAt(Flat(ws), i) = ws[i]
  <2>1. n \in 0 .. n
    OBVIOUS
  <2> QED BY <1>5, <2>1, HeadWords
<1>7. Flat(ws) \in Bytes /\ Len(Flat(ws)) = size[n]
  BY <1>5, FlatBytes
<1> QED BY <1>3, <1>6, <1>7

-----------------------------------------------------------------------------
(* Answers of static words. *)

LEMMA FunctionLength ==
  ASSUME NEW n \in Nat, NEW f, f = [i \in 1 .. n |-> f[i]]
  PROVE  Len(f) = n
<1> DEFINE S == {f[i] : i \in 1 .. n}
<1>1. f \in [1 .. n -> S]
  OBVIOUS
<1> HIDE DEF S
<1> QED BY <1>1, FunctionIsSeq

\* hex_decode gives one byte for two digits, or refuses.
LEMMA HexHalves ==
  ASSUME NEW d, Len(d) \in Nat
  PROVE  HexDecode(d) = AbiError \/ Len(HexDecode(d)) = Len(d) \div 2
<1> DEFINE b == [i \in 1 .. Len(d) \div 2 |-> Nibble * d[2 * i - 1] + d[2 * i]]
<1>1. HexDecode(d) = AbiError \/ HexDecode(d) = b
  BY DEF HexDecode
<1>2. Len(d) \div 2 \in Nat
  OBVIOUS
<1>3. b = [i \in 1 .. Len(d) \div 2 |-> b[i]]
  OBVIOUS
<1> HIDE DEF b
<1>4. Len(b) = Len(d) \div 2
  BY <1>2, <1>3, FunctionLength
<1> QED BY <1>1, <1>4

\* What a contract returns has each number in its word.
LEMMA ReturnedWords ==
  ASSUME NEW n \in Nat, NEW numbers \in Seq(Uint256), Len(numbers) = n
  PROVE  /\ ReturnWords(numbers) \in Bytes /\ Len(ReturnWords(numbers)) = n * WordLen
         /\ \A i \in 1 .. n : /\ numbers[i] \in Nat /\ numbers[i] < Power[WordLen]
                              /\ WordAt(ReturnWords(numbers), i) = WordFromU128(numbers[i])
<1> DEFINE ws == [i \in 1 .. n |-> WordFromU128(numbers[i])]
<1>1. \A i \in 1 .. n : numbers[i] \in Uint256
  BY ElementOfSeq
<1>2. \A i \in 1 .. n : numbers[i] \in Nat /\ numbers[i] < Power[WordLen]
  BY <1>1, PowersPositive, Widths DEF Uint256
<1>3. \A i \in 1 .. n : ws[i] \in Bytes /\ Len(ws[i]) = WordLen
  BY <1>2, WordIsBytes
<1>4. ws \in [1 .. n -> Bytes]
  BY <1>3
<1>5. ReturnWords(numbers) = Flat(ws)
  BY DEF ReturnWords
<1>6. \A i \in 1 .. n : ws[i] = WordFromU128(numbers[i])
  OBVIOUS
<1> HIDE DEF ws
<1>7. ws \in Seq(Bytes) /\ Len(ws) = n
  BY <1>4, FunctionIsSeq
<1> QED BY <1>2, <1>3, <1>5, <1>6, <1>7, OnlyWords

\* A decoder that sees all the words answers what they mean, or refuses.
LEMMA DecodedWords ==
  ASSUME NEW n \in Nat, NEW types \in Seq(Types), Len(types) = n,
         NEW data \in Bytes, n * WordLen <= Len(data), NEW value,
         \A i \in 1 .. n : /\ value[i] \in Nat /\ value[i] < Power[WordLen]
                           /\ WordAt(data, i) = WordFromU128(value[i])
  PROVE  Faithful(types, value, TRUE, Decode(types, data))
<1> DEFINE good == \A i \in 1 .. n : Accepts(types[i], WordAt(data, i))
           sense == \A i \in 1 .. n : Meant(types[i], value[i]) # AbiError
           read == [i \in 1 .. n |-> Value(types[i], WordAt(data, i))]
           meant == [i \in 1 .. n |-> Meant(types[i], value[i])]
<1>1. \A i \in 1 .. n : types[i] \in Types
  BY ElementOfSeq
<1>2. ASSUME NEW i \in 1 .. n
      PROVE  /\ Accepts(types[i], WordAt(data, i)) <=> Meant(types[i], value[i]) # AbiError
             /\ Accepts(types[i], WordAt(data, i)) =>
                  Value(types[i], WordAt(data, i)) = Meant(types[i], value[i])
  BY <1>1, ValueIsMeant
<1>3. Decode(types, data) = IF good THEN read ELSE AbiError
  BY DEF Decode
<1>4. Faithful(types, value, TRUE, Decode(types, data)) <=>
        IF sense THEN Decode(types, data) = meant ELSE Decode(types, data) = AbiError
  BY DEF Faithful
<1>5. good <=> sense
  BY <1>2
<1>6. ASSUME good PROVE read = meant
  BY <1>2, <1>6
<1> HIDE DEF good, sense, read, meant
<1> QED BY <1>3, <1>4, <1>5, <1>6

\* A decoder refuses data that ends before its last word.
LEMMA ShortIsRefused ==
  ASSUME NEW types, NEW data, Len(types) \in Nat, Len(data) \in Nat,
         Len(data) < Len(types) * WordLen
  PROVE  Decode(types, data) = AbiError
<1>1. Len(types) * WordLen \in Nat
  BY ProductIsNat, Widths
<1> QED BY <1>1 DEF Decode

\* A static answer, as far as its hex digits arrived: read as it was meant, or refused.
LEMMA AnswerIsFaithful ==
  ASSUME NEW a \in Answers
  PROVE  LET digits == 2 * WordLen * Len(a.types)
         IN Faithful(a.types, a.numbers, a.cut >= digits /\ a.bad \notin 1 .. digits,
                     EthCall(a.types, AnswerDigits(a)))
<1> DEFINE n == Len(a.types)
           digits == 2 * WordLen * n
           data == ReturnWords(a.numbers)
           h == HexEncode(data)
           m == IF a.cut < Len(h) THEN a.cut ELSE Len(h)
           c == SubSeq(h, 1, m)
           d == [i \in 1 .. Len(c) |-> IF i = a.bad THEN NotHex ELSE c[i]]
           result == EthCall(a.types, d)
<1>1. /\ a.types \in Seq(Types) /\ a.numbers \in Seq(Uint256) /\ Len(a.numbers) = n
      /\ a.cut \in Nat /\ a.bad \in Nat /\ n \in Nat
  BY AnswerAssumption DEF Types
<1>2. AnswerDigits(a) = d
  BY DEF AnswerDigits, Cut
<1>3. /\ data \in Bytes /\ Len(data) = n * WordLen
      /\ \A i \in 1 .. n : /\ a.numbers[i] \in Nat /\ a.numbers[i] < Power[WordLen]
                           /\ WordAt(data, i) = WordFromU128(a.numbers[i])
  BY <1>1, ReturnedWords
<1>4. WordLen \in Nat \ {0} /\ n * WordLen \in Nat /\ digits = 2 * (n * WordLen)
  <2> HIDE DEF n
  <2>1. WordLen \in Nat \ {0} /\ n \in Nat
    BY <1>1, Widths
  <2>2. n * WordLen \in Nat
    BY <2>1, ProductIsNat
  <2>3. 2 * WordLen * n = 2 * (n * WordLen)
    BY <2>1
  <2> QED BY <2>1, <2>2, <2>3
<1> DEFINE complete == a.cut >= digits /\ a.bad \notin 1 .. digits
<1> SUFFICES Faithful(a.types, a.numbers, complete, result)
  BY <1>2
<1> HIDE DEF n, digits, data
<1>5. h \in Seq(0 .. Nibble - 1) /\ Len(h) = digits /\ digits \in Nat
  BY <1>3, <1>4, HexDigits
<1>6. HexDecode(h) = data
  BY <1>3, HexBack
<1> HIDE DEF h
<1>7. m \in 0 .. digits /\ (a.cut >= digits => m = digits) /\ (a.cut < digits => m = a.cut)
  BY <1>1, <1>5
<1> HIDE DEF m
<1>8. Len(c) = m /\ \A i \in 1 .. m : c[i] = h[i]
  <2> DEFINE D == 0 .. Nibble - 1
  <2>1. h \in Seq(D)
    BY <1>5
  <2> HIDE DEF D
  <2>2. \A i \in 1 .. m : h[i] \in D
    BY <1>5, <1>7, <2>1, ElementOfSeq
  <2> QED BY <1>7, <2>2, SubSeqProperties
<1> HIDE DEF c
<1>9. Len(d) = m /\ \A i \in 1 .. m : d[i] = IF i = a.bad THEN NotHex ELSE h[i]
  <2>1. \A i \in 1 .. m : d[i] = IF i = a.bad THEN NotHex ELSE h[i]
    BY <1>8
  <2>2. d = [i \in 1 .. m |-> d[i]]
    BY <1>8
  <2> HIDE DEF d
  <2> QED BY <1>7, <2>1, <2>2, FunctionLength
<1>10. d = [i \in 1 .. m |-> d[i]]
  BY <1>8
<1> HIDE DEF d
<1>11. result = IF HexDecode(d) = AbiError THEN AbiError ELSE Decode(a.types, HexDecode(d))
  BY DEF EthCall
<1> HIDE DEF result
<1>12. CASE complete
  <2>1. d = h
    <3>1. h = [i \in 1 .. digits |-> h[i]]
      BY <1>5
    <3>2. \A i \in 1 .. digits : d[i] = h[i]
      BY <1>7, <1>9, <1>12
    <3> QED BY <1>7, <1>10, <1>12, <3>1, <3>2
  <2>2. HexDecode(d) = data /\ data # AbiError
    BY <1>3, <1>6, <2>1, ErrorIsNoValue
  <2>3. result = Decode(a.types, data)
    BY <1>11, <2>2
  <2>4. n * WordLen <= Len(data)
    BY <1>3, <1>4
  <2>5. Faithful(a.types, a.numbers, TRUE, Decode(a.types, data))
    BY <1>1, <1>3, <2>4, DecodedWords DEF n
  <2> QED BY <1>12, <2>3, <2>5 DEF Faithful
<1>13. CASE ~complete
  <2>1. result = AbiError
    <3>1. CASE a.cut >= digits /\ a.bad \in 1 .. digits
      <4>1. d[a.bad] = NotHex /\ a.bad \in 1 .. Len(d)
        BY <1>7, <1>9, <3>1
      <4>2. HexDecode(d) = AbiError
        BY <4>1 DEF HexDecode
      <4> QED BY <1>11, <4>2
    <3>2. CASE a.cut < digits
      <4>1. Len(d) = a.cut
        BY <1>7, <1>9, <3>2
      <4>2. HexDecode(d) = AbiError \/ Len(HexDecode(d)) = a.cut \div 2
        BY <1>1, <4>1, HexHalves
      <4>3. a.cut \div 2 \in Nat /\ a.cut \div 2 < n * WordLen
        BY <1>1, <1>4, <3>2
      <4>4. HexDecode(d) # AbiError => Decode(a.types, HexDecode(d)) = AbiError
        BY <1>1, <4>2, <4>3, ShortIsRefused DEF n
      <4> QED BY <1>11, <4>4
    <3> QED BY <1>1, <1>5, <1>13, <3>1, <3>2
  <2> QED BY <1>13, <2>1 DEF Faithful
<1> QED BY <1>12, <1>13

-----------------------------------------------------------------------------
(* Arguments, read from the calldata that carries them. *)

Static == {"uint256", "bytes32", "address"}

\* The word of an argument that has a word of its own.
WordOf(type, x) ==
  CASE type = "uint256" -> WordFromU128(x)
    [] type = "bytes32" -> x
    [] type = "address" -> WordFromAddress(x)

\* Pieces have sizes.
LEMMA SizesExist ==
  ASSUME NEW n \in Nat, NEW ws \in Seq(Bytes), Len(ws) = n
  PROVE  \E size : Sizes(size, ws, n)
<1> DEFINE step == [i \in 1 .. n |-> [x \in Nat |-> x + Len(ws[i])]]
<1>1. \A i \in 1 .. n : Len(ws[i]) \in Nat
  BY ElementOfSeq, BytesAre
<1>2. step \in [1 .. n -> [Nat -> Nat]] /\ 0 \in Nat
  BY <1>1
<1>3. \A i \in 1 .. n, x \in Nat : step[i][x] = x + Len(ws[i])
  OBVIOUS
<1> HIDE DEF step
<1>4. PICK f : Iterates(f, Nat, n, 0, step)
  BY <1>2, IterationExists
<1>5. f \in [0 .. n -> Nat] /\ f[0] = 0
  BY <1>4 DEF Iterates
<1>6. ASSUME NEW i \in 1 .. n PROVE f[i] = f[i - 1] + Len(ws[i])
  <2>1. f[i - 1] \in Nat
    BY <1>5
  <2> QED BY <1>3, <1>4, <2>1 DEF Iterates
<1>7. Sizes(f, ws, n)
  BY <1>5, <1>6 DEF Sizes
<1> QED BY <1>7

\* A uint256 survives its word.
LEMMA NumberBack ==
  ASSUME NEW n \in Uint256
  PROVE  n \in Nat /\ WordFromU128(n) \in Bytes32 /\ Number(WordFromU128(n)) = n
<1>1. WordLen \in Nat /\ Power[WordLen] \in Nat
  BY Widths, PowersPositive
<1>2. n \in Nat /\ n < Power[WordLen]
  BY <1>1 DEF Uint256
<1>3. WordFromU128(n) \in Bytes32
  BY <1>2, WordIsBytes DEF Bytes32
<1>4. Number(WordFromU128(n)) = n
  BY <1>1, <1>2, WordIsDigits, NumberOfDigits
<1> QED BY <1>2, <1>3, <1>4

\* Padding is bytes.
LEMMA ZerosAreBytes ==
  ASSUME NEW n \in Nat
  PROVE  Zeros(n) \in Bytes /\ Len(Zeros(n)) = n /\ \A i \in 1 .. n : Zeros(n)[i] = 0
<1>1. 0 \in 0 .. Base - 1
  BY Widths
<1>2. Zeros(n) \in [1 .. n -> 0 .. Base - 1] /\ \A i \in 1 .. n : Zeros(n)[i] = 0
  BY <1>1 DEF Zeros
<1> QED BY <1>2, FunctionIsSeq DEF Bytes

\* An address survives its word, and a decoder takes the word for an address.
LEMMA AddressBack ==
  ASSUME NEW a \in Bytes, Len(a) = AddrLen
  PROVE  /\ WordFromAddress(a) \in Bytes32 /\ Fits(WordFromAddress(a), AddrLen)
         /\ SubSeq(WordFromAddress(a), WordLen - AddrLen + 1, WordLen) = a
<1> DEFINE k == WordLen - AddrLen
           z == Zeros(k)
           w == z \o a
           S == 0 .. Base - 1
<1>1. k \in Nat /\ AddrLen \in Nat /\ k + AddrLen = WordLen /\ WordLen - AddrLen = k
  BY Widths
<1>2. WordFromAddress(a) = w
  BY DEF WordFromAddress, Zeros
<1>3. z \in Bytes /\ Len(z) = k /\ \A i \in 1 .. k : z[i] = 0
  BY <1>1, ZerosAreBytes
<1>4. Bytes = Seq(S)
  BY DEF Bytes
<1> HIDE DEF k, z, S
<1>5. /\ w \in Seq(S) /\ Len(w) = WordLen
      /\ \A i \in 1 .. k : w[i] = 0
      /\ \A i \in 1 .. AddrLen : w[k + i] = a[i]
  <2>1. z \in Seq(S) /\ a \in Seq(S)
    BY <1>3, <1>4
  <2>2. w \in Seq(S) /\ Len(w) = Len(z) + Len(a)
    BY <2>1, ConcatProperties
  <2>3. \A i \in 1 .. Len(z) + Len(a) : w[i] = IF i <= Len(z) THEN z[i] ELSE a[i - Len(z)]
    BY <2>1, ConcatProperties
  <2> HIDE DEF w
  <2>4. ASSUME NEW i \in 1 .. k PROVE w[i] = 0
    BY <1>1, <1>3, <2>3
  <2>5. ASSUME NEW i \in 1 .. AddrLen PROVE w[k + i] = a[i]
    <3>1. k + i \in 1 .. k + AddrLen /\ ~(k + i <= k) /\ (k + i) - k = i
      BY <1>1
    <3> QED BY <1>3, <2>3, <3>1
  <2> QED BY <1>1, <1>3, <2>2, <2>4, <2>5
<1> HIDE DEF w
<1>6. w \in Bytes32
  BY <1>4, <1>5 DEF Bytes32
<1>7. Fits(w, AddrLen)
  BY <1>1, <1>5 DEF Fits
<1>8. At(w, k, a)
  BY <1>1, <1>5 DEF At
<1>9. SubSeq(w, k + 1, k + Len(a)) = a
  BY <1>1, <1>4, <1>5, <1>8, AtIsSubSeq
<1> QED BY <1>1, <1>2, <1>6, <1>7, <1>9

\* A static argument is encoded in one word.
LEMMA StaticWord ==
  ASSUME NEW type \in Static, NEW x \in ArgumentsOf(type)
  PROVE  WordOf(type, x) \in Bytes32
<1>1. CASE type = "uint256"
  BY <1>1, NumberBack DEF WordOf, ArgumentsOf
<1>2. CASE type = "bytes32"
  BY <1>2 DEF WordOf, ArgumentsOf
<1>3. CASE type = "address"
  BY <1>3, AddressBack DEF WordOf, ArgumentsOf
<1> QED BY <1>1, <1>2, <1>3 DEF Static

\* The contract reads a static argument from the word it was encoded in.
LEMMA StaticArgument ==
  ASSUME NEW type \in Static, NEW x \in ArgumentsOf(type), NEW data, NEW i,
         WordAt(data, i) = WordOf(type, x)
  PROVE  Argument(type, data, i) = x
<1>1. CASE type = "uint256"
  BY <1>1, NumberBack DEF WordOf, ArgumentsOf, Argument
<1>2. CASE type = "bytes32"
  BY <1>2 DEF WordOf, ArgumentsOf, Argument
<1>3. CASE type = "address"
  <2>1. x \in Bytes /\ Len(x) = AddrLen
    BY <1>3 DEF ArgumentsOf
  <2>2. WordAt(data, i) = WordFromAddress(x)
    BY <1>3 DEF WordOf
  <2> QED BY <1>3, <2>1, <2>2, AddressBack DEF Argument
<1> QED BY <1>1, <1>2, <1>3 DEF Static

\* Whatever is inside calldata has its place and its length in a word.
LEMMA SmallEnough ==
  ASSUME NEW n \in Nat, n <= MaxUsize
  PROVE  n \in Uint256
<1>1. UsizeLen \in 0 .. WordLen /\ UsizeLen \in Nat /\ WordLen \in Nat
  BY Widths
<1>2. /\ Power[UsizeLen] \in Nat \ {0} /\ Power[WordLen] \in Nat \ {0}
      /\ Power[UsizeLen] <= Power[WordLen]
  BY <1>1, PowersPositive, PowersGrow
<1> QED BY <1>2 DEF MaxUsize, Uint256

\* encode_bytes_tail gives a length word, the bytes, and less than a word of zeros.
LEMMA TailIsBytes ==
  ASSUME NEW b \in Bytes
  PROVE  /\ Padding(Len(b)) \in Nat
         /\ BytesTail(b) \in Bytes
         /\ Len(BytesTail(b)) = WordLen + Len(b) + Padding(Len(b))
<1> DEFINE S == 0 .. Base - 1
           w == WordFromU128(Len(b))
           z == Zeros(Padding(Len(b)))
<1>1. Len(b) \in Nat /\ WordLen \in Nat \ {0}
  BY BytesAre, Widths
<1>2. Padding(Len(b)) \in Nat
  <2>1. Len(b) % WordLen \in 0 .. WordLen - 1
    BY <1>1, Division
  <2>2. WordLen - (Len(b) % WordLen) \in Nat
    BY <1>1, <2>1
  <2> QED BY <1>1, <2>2, Division DEF Padding
<1>3. w \in Bytes /\ Len(w) = WordLen
  BY <1>1, WordIsBytes
<1>4. z \in Bytes /\ Len(z) = Padding(Len(b))
  BY <1>2, ZerosAreBytes
<1>5. Bytes = Seq(S)
  BY DEF Bytes
<1>6. BytesTail(b) = (w \o b) \o z
  BY DEF BytesTail
<1> HIDE DEF S, w, z
<1>7. (w \o b) \o z \in Seq(S) /\ Len((w \o b) \o z) = Len(w) + Len(b) + Len(z)
  <2>1. w \in Seq(S) /\ b \in Seq(S) /\ z \in Seq(S)
    BY <1>3, <1>4, <1>5
  <2>2. w \o b \in Seq(S) /\ Len(w \o b) = Len(w) + Len(b)
    BY <2>1, ConcatProperties
  <2> QED BY <2>1, <2>2, ConcatProperties
<1> QED BY <1>2, <1>3, <1>4, <1>5, <1>6, <1>7

\* The contract reads bytes of any length from the tail they were encoded in.
LEMMA BytesArgument ==
  ASSUME NEW data \in Bytes, Len(data) <= MaxUsize, NEW o \in Nat, NEW b \in Bytes,
         At(data, o, BytesTail(b))
  PROVE  o \in Uint256 /\ DynamicTail(data, o, 1) = b
<1> DEFINE S == 0 .. Base - 1
           w == WordFromU128(Len(b))
           z == Zeros(Padding(Len(b)))
           start == o + WordLen
<1>1. Len(b) \in Nat /\ WordLen \in Nat \ {0} /\ Padding(Len(b)) \in Nat /\ Len(data) \in Nat
  BY BytesAre, Widths, TailIsBytes
<1>2. MaxUsize \in Nat
  BY PowersPositive, Widths DEF MaxUsize
<1>3. o + WordLen + Len(b) <= Len(data)
  BY <1>1, TailIsBytes DEF At
<1>4. o \in Uint256 /\ Len(b) \in Uint256
  BY <1>1, <1>2, <1>3, SmallEnough
<1>5. w \in Bytes /\ Len(w) = WordLen /\ Number(w) = Len(b)
  BY <1>4, NumberBack DEF Bytes32
<1>6. z \in Bytes
  BY <1>1, ZerosAreBytes
<1>7. Bytes = Seq(S)
  BY DEF Bytes
<1>8. At(data, o, (w \o b) \o z)
  BY DEF BytesTail
<1> HIDE DEF S, w, z
<1>9. At(data, o, w) /\ At(data, o + Len(w), b)
  <2>1. w \o b \in Seq(S)
    BY <1>5, <1>7, ConcatProperties
  <2>2. At(data, o, w \o b)
    BY <1>6, <1>7, <1>8, <2>1, AtParts
  <2> QED BY <1>5, <1>7, <2>2, AtParts
<1>10. SubSeq(data, o + 1, start) = w
  BY <1>5, <1>7, <1>9, AtIsSubSeq
<1>11. SubSeq(data, start + 1, start + Len(b)) = b
  BY <1>1, <1>5, <1>7, <1>9, AtIsSubSeq
<1>12. Number(SubSeq(data, o + 1, start)) = Len(b)
  BY <1>5, <1>10
<1>13. DynamicTail(data, o, 1) =
         IF start <= Len(data) /\ start + 1 * Number(SubSeq(data, o + 1, start)) <= Len(data)
         THEN SubSeq(data, start + 1, start + 1 * Number(SubSeq(data, o + 1, start)))
         ELSE Revert
  BY DEF DynamicTail
<1>14. 1 * Len(b) = Len(b)
  BY <1>1
<1>15. start <= Len(data) /\ start + Len(b) <= Len(data)
  BY <1>1, <1>3
<1>16. DynamicTail(data, o, 1) = SubSeq(data, start + 1, start + Len(b))
  BY <1>12, <1>13, <1>14, <1>15
<1> QED BY <1>4, <1>11, <1>16

-----------------------------------------------------------------------------
(* Calls. *)

\* The i-th word of the head stands for the argument x: itself, or the place of a tail.
Carries(ws, size, i, type, x) ==
  \/ type \in Static /\ x \in ArgumentsOf(type) /\ ws[i] = WordOf(type, x)
  \/ /\ type = "bytes" /\ x \in Bytes
     /\ \E t \in 1 .. Len(ws) : ws[i] = WordFromU128(size[t - 1]) /\ ws[t] = BytesTail(x)

\* The contract reads an argument that the words carry, static or dynamic.
LEMMA CarriedArgument ==
  ASSUME NEW n \in Nat, NEW ws \in Seq(Bytes), Len(ws) = n, NEW size, Sizes(size, ws, n),
         Len(Flat(ws)) <= MaxUsize, NEW i \in 1 .. n, WordAt(Flat(ws), i) = ws[i],
         NEW type, NEW x, Carries(ws, size, i, type, x)
  PROVE  Argument(type, Flat(ws), i) = x
<1> DEFINE data == Flat(ws)
<1>1. CASE type \in Static /\ x \in ArgumentsOf(type) /\ ws[i] = WordOf(type, x)
  BY <1>1, StaticArgument
<1>2. ASSUME type = "bytes", x \in Bytes, NEW t \in 1 .. n,
             ws[i] = WordFromU128(size[t - 1]), ws[t] = BytesTail(x)
      PROVE  Argument(type, data, i) = x
  <2> DEFINE o == size[t - 1]
  <2>1. data \in Bytes /\ At(data, o, BytesTail(x))
    BY <1>2, FlatBytes
  <2>2. o \in Nat
    BY DEF Sizes
  <2>3. WordAt(data, i) = WordFromU128(o)
    BY <1>2
  <2>4. Len(data) <= MaxUsize
    OBVIOUS
  <2> HIDE DEF data, o
  <2>5. o \in Uint256 /\ DynamicTail(data, o, 1) = x
    BY <1>2, <2>1, <2>2, <2>4, BytesArgument
  <2>6. Number(WordAt(data, i)) = o
    BY <2>3, <2>5, NumberBack
  <2> QED BY <1>2, <2>5, <2>6 DEF Argument
<1> QED BY <1>1, <1>2 DEF Carries

\* Calldata survives the hex it travels as.
LEMMA Unchanged ==
  ASSUME NEW s, NEW ws, Flat(ws) \in Bytes
  PROVE  /\ Transmitted(EncodeCall(s, ws)) = EncodeCall(s, ws)
         /\ EncodeCall(s, ws).selector = s /\ EncodeCall(s, ws).data = Flat(ws)
BY HexBack DEF Transmitted, EncodeCall

\* The head carries the arguments of the call to s.
Heads(ws, size, s, args) ==
  LET k == Len(Signatures[s])
  IN /\ k \in 0 .. Len(ws) /\ args = [i \in 1 .. k |-> args[i]]
     /\ \A i \in 1 .. k : /\ Len(ws[i]) = WordLen
                         /\ Carries(ws, size, i, Signatures[s][i], args[i])

\* Then the call is read as its arguments.
LEMMA CarriedCall ==
  ASSUME NEW s, NEW args, NEW n \in Nat, NEW ws \in Seq(Bytes), Len(ws) = n,
         NEW size, Sizes(size, ws, n), Len(Flat(ws)) <= MaxUsize, Heads(ws, size, s, args)
  PROVE  ReadCall(Transmitted(EncodeCall(s, ws))) = args
<1> DEFINE data == Flat(ws)
           types == Signatures[s]
           k == Len(types)
           read == [i \in 1 .. k |-> Argument(types[i], data, i)]
<1>1. data \in Bytes
  BY FlatBytes
<1> USE DEF Heads
<1>2. (\A i \in 1 .. k : WordAt(data, i) = ws[i]) /\ k * WordLen <= Len(data)
  <2>1. k \in 0 .. n
    OBVIOUS
  <2> QED BY <2>1, HeadWords
<1>3. ASSUME NEW i \in 1 .. k PROVE Argument(types[i], data, i) = args[i]
  <2>1. i \in 1 .. n /\ WordAt(data, i) = ws[i]
    BY <1>2
  <2>2. Carries(ws, size, i, types[i], args[i])
    OBVIOUS
  <2> HIDE DEF types
  <2> QED BY <2>1, <2>2, CarriedArgument
<1>4. Transmitted(EncodeCall(s, ws)) = EncodeCall(s, ws)
      /\ EncodeCall(s, ws).selector = s /\ EncodeCall(s, ws).data = data
  BY <1>1, Unchanged
<1>5. ReadCall(EncodeCall(s, ws)) = IF k * WordLen > Len(data) THEN Revert ELSE read
  BY <1>4 DEF ReadCall
<1>6. ~(k * WordLen > Len(data))
  <2>1. k * WordLen \in Nat /\ Len(data) \in Nat
    BY <1>1, BytesAre, ProductIsNat, Widths
  <2> QED BY <1>2, <2>1
<1>7. read = args
  BY <1>3
<1> HIDE DEF data, read
<1> QED BY <1>4, <1>5, <1>6, <1>7

\* A call whose arguments have a word each.
IsCall(s, a) ==
  LET types == Signatures[s]
  IN /\ Len(types) \in Nat /\ a = [i \in 1 .. Len(types) |-> a[i]]
     /\ \A i \in 1 .. Len(types) : a[i] \in ArgumentsOf(types[i])
     /\ Len(Build(s, a).data) <= MaxUsize

StaticWords(ws, s, a) ==
  LET types == Signatures[s]
  IN /\ ws = [i \in 1 .. Len(types) |-> ws[i]]
     /\ \A i \in 1 .. Len(types) : types[i] \in Static /\ ws[i] = WordOf(types[i], a[i])

\* A call of static arguments is read as the arguments it was built from.
LEMMA StaticCall ==
  ASSUME NEW s, NEW a, IsCall(s, a), NEW ws, StaticWords(ws, s, a),
         Build(s, a) = EncodeCall(s, ws)
  PROVE  ReadCall(Transmitted(Build(s, a))) = a
<1> DEFINE types == Signatures[s]
           k == Len(types)
<1>1. k \in Nat /\ a = [i \in 1 .. k |-> a[i]]
  BY DEF IsCall
<1>2. ASSUME NEW i \in 1 .. k
      PROVE  types[i] \in Static /\ a[i] \in ArgumentsOf(types[i]) /\ ws[i] = WordOf(types[i], a[i])
  BY DEF IsCall, StaticWords
<1>3. ws = [i \in 1 .. k |-> ws[i]]
  BY DEF StaticWords
<1>4. Len(Flat(ws)) <= MaxUsize
  BY DEF IsCall, EncodeCall
<1> HIDE DEF types
<1>5. ASSUME NEW i \in 1 .. k PROVE ws[i] \in Bytes32
  BY <1>2, StaticWord
<1>6. ws \in [1 .. k -> Bytes]
  BY <1>3, <1>5 DEF Bytes32
<1>7. ws \in Seq(Bytes) /\ Len(ws) = k
  <2> HIDE DEF k
  <2> QED BY <1>1, <1>6, FunctionIsSeq
<1>8. PICK size : Sizes(size, ws, k)
  BY <1>1, <1>7, SizesExist
<1>9. Heads(ws, size, s, a)
  <2>1. k \in 0 .. Len(ws)
    BY <1>1, <1>7
  <2>2. \A i \in 1 .. k : Len(ws[i]) = WordLen /\ Carries(ws, size, i, types[i], a[i])
    BY <1>2, <1>5 DEF Carries, Bytes32
  <2> QED BY <1>1, <2>1, <2>2 DEF Heads, types
<1> HIDE DEF k
<1>10. ReadCall(Transmitted(EncodeCall(s, ws))) = a
  BY <1>1, <1>4, <1>7, <1>8, <1>9, CarriedCall
<1> QED BY <1>10

-----------------------------------------------------------------------------
(* Every call the agent builds. *)

JobCalls == {"getJob", "assignBestBid", "startExecution", "completeJob", "getRecord",
             "commitmentBlock", "resultVerifiedAt", "disputeResolvedForProvider"}
AccountCalls == {"getProvider", "claimable", "registered"}
BareCalls == {"claimRewards", "heartbeat", "saltPerPflopHour", "isPriceStale",
              "registerPinner", "unallocatedSlotFunding"}
PinReads == {"getPin", "owedOf"}
SlotCalls == {"getSlot", "challenge", "claim", "returnBond"}

\* The calls by their argument types.
LEMMA SignaturesAre ==
  /\ DOMAIN Signatures = JobCalls \cup AccountCalls \cup BareCalls \cup PinReads \cup SlotCalls
       \cup {"getModel", "bidOnJob", "submitCommitment", "submitResult", "registerProvider",
             "sealCommit", "submitPoSt"}
  /\ \A s \in JobCalls : Signatures[s] = <<"uint256">>
  /\ \A s \in AccountCalls : Signatures[s] = <<"address">>
  /\ \A s \in BareCalls : Signatures[s] = <<>>
  /\ \A s \in PinReads : Signatures[s] = <<"address", "bytes32", "uint256">>
  /\ \A s \in SlotCalls : Signatures[s] = <<"bytes32", "uint256">>
  /\ Signatures["getModel"] = <<"bytes32">>
  /\ Signatures["bidOnJob"] = <<"uint256", "uint256", "uint256">>
  /\ Signatures["submitCommitment"] = <<"uint256", "bytes32">>
  /\ Signatures["submitResult"] = <<"uint256", "bytes", "bytes">>
  /\ Signatures["registerProvider"] = <<"bytes32[]">>
  /\ Signatures["sealCommit"] = <<"bytes32", "uint256", "bytes32", "uint256", "bytes32",
                                 "bytes32", "bytes32", "bytes">>
  /\ Signatures["submitPoSt"] = <<"bytes32", "uint256", "bytes32", "bytes32", "uint256", "bytes">>
BY DEF Signatures, JobCalls, AccountCalls, BareCalls, PinReads, SlotCalls

\* Which builder makes which call.
LEMMA BuildIs ==
  ASSUME NEW a
  PROVE  /\ \A s \in JobCalls : Build(s, a) = EncodeJobCall(s, a[1])
         /\ \A s \in AccountCalls : Build(s, a) = EncodeAccountCall(s, a[1])
         /\ \A s \in BareCalls : Build(s, a) = EncodeCall(s, <<>>)
         /\ \A s \in PinReads : Build(s, a) = EncodePinRead(s, a[1], a[2], a[3])
         /\ \A s \in SlotCalls : Build(s, a) = EncodeSlotCall(s, a[1], a[2])
         /\ Build("getModel", a) = EncodeGetModel(a[1])
         /\ Build("bidOnJob", a) = EncodeBidOnJob(a[1], a[2], a[3])
         /\ Build("submitCommitment", a) = EncodeSubmitCommitment(a[1], a[2])
         /\ Build("submitResult", a) = EncodeSubmitResult(a[1], a[2], a[3])
         /\ Build("registerProvider", a) = EncodeRegisterProvider(a[1])
         /\ Build("sealCommit", a) =
              EncodeSealCommit(a[1], a[2], a[3], a[4], a[5], a[6], a[7], a[8])
         /\ Build("submitPoSt", a) =
              EncodeSubmitPost(a[1], a[2], a[3], a[4], WordFromU128(a[5]), a[6])
BY DEF Build, JobCalls, AccountCalls, BareCalls, PinReads, SlotCalls

\* The builders without dynamic arguments.
LEMMA StaticCallsAreRead ==
  ASSUME NEW s, NEW a, IsCall(s, a),
         s \in JobCalls \cup AccountCalls \cup BareCalls \cup PinReads \cup SlotCalls
                 \cup {"getModel", "bidOnJob", "submitCommitment"}
  PROVE  ReadCall(Transmitted(Build(s, a))) = a
<1>1. CASE s \in JobCalls
  <2>1. Build(s, a) = EncodeCall(s, <<WordFromU128(a[1])>>) /\ Signatures[s] = <<"uint256">>
    BY <1>1, BuildIs, SignaturesAre DEF EncodeJobCall
  <2>2. StaticWords(<<WordFromU128(a[1])>>, s, a)
    BY <2>1 DEF StaticWords, WordOf, Static
  <2> QED BY <2>1, <2>2, StaticCall
<1>2. CASE s \in AccountCalls
  <2>1. Build(s, a) = EncodeCall(s, <<WordFromAddress(a[1])>>) /\ Signatures[s] = <<"address">>
    BY <1>2, BuildIs, SignaturesAre DEF EncodeAccountCall
  <2>2. StaticWords(<<WordFromAddress(a[1])>>, s, a)
    BY <2>1 DEF StaticWords, WordOf, Static
  <2> QED BY <2>1, <2>2, StaticCall
<1>3. CASE s \in BareCalls
  <2>1. Build(s, a) = EncodeCall(s, <<>>) /\ Signatures[s] = <<>>
    BY <1>3, BuildIs, SignaturesAre
  <2>2. StaticWords(<<>>, s, a)
    BY <2>1 DEF StaticWords
  <2> QED BY <2>1, <2>2, StaticCall
<1>4. CASE s \in PinReads
  <2>1. /\ Build(s, a) = EncodeCall(s, <<WordFromAddress(a[1]), a[2], WordFromU128(a[3])>>)
        /\ Signatures[s] = <<"address", "bytes32", "uint256">>
    BY <1>4, BuildIs, SignaturesAre DEF EncodePinRead
  <2>2. StaticWords(<<WordFromAddress(a[1]), a[2], WordFromU128(a[3])>>, s, a)
    BY <2>1 DEF StaticWords, WordOf, Static
  <2> QED BY <2>1, <2>2, StaticCall
<1>5. CASE s \in SlotCalls
  <2>1. /\ Build(s, a) = EncodeCall(s, <<a[1], WordFromU128(a[2])>>)
        /\ Signatures[s] = <<"bytes32", "uint256">>
    BY <1>5, BuildIs, SignaturesAre DEF EncodeSlotCall
  <2>2. StaticWords(<<a[1], WordFromU128(a[2])>>, s, a)
    BY <2>1 DEF StaticWords, WordOf, Static
  <2> QED BY <2>1, <2>2, StaticCall
<1>6. CASE s = "getModel"
  <2>1. Build(s, a) = EncodeCall(s, <<a[1]>>) /\ Signatures[s] = <<"bytes32">>
    BY <1>6, BuildIs, SignaturesAre DEF EncodeGetModel
  <2>2. StaticWords(<<a[1]>>, s, a)
    BY <2>1 DEF StaticWords, WordOf, Static
  <2> QED BY <2>1, <2>2, StaticCall
<1>7. CASE s = "bidOnJob"
  <2>1. /\ Build(s, a) =
             EncodeCall(s, <<WordFromU128(a[1]), WordFromU128(a[2]), WordFromU128(a[3])>>)
        /\ Signatures[s] = <<"uint256", "uint256", "uint256">>
    BY <1>7, BuildIs, SignaturesAre DEF EncodeBidOnJob
  <2>2. StaticWords(<<WordFromU128(a[1]), WordFromU128(a[2]), WordFromU128(a[3])>>, s, a)
    BY <2>1 DEF StaticWords, WordOf, Static
  <2> QED BY <2>1, <2>2, StaticCall
<1>8. CASE s = "submitCommitment"
  <2>1. /\ Build(s, a) = EncodeCall(s, <<WordFromU128(a[1]), a[2]>>)
        /\ Signatures[s] = <<"uint256", "bytes32">>
    BY <1>8, BuildIs, SignaturesAre DEF EncodeSubmitCommitment
  <2>2. StaticWords(<<WordFromU128(a[1]), a[2]>>, s, a)
    BY <2>1 DEF StaticWords, WordOf, Static
  <2> QED BY <2>1, <2>2, StaticCall
<1> QED BY <1>1, <1>2, <1>3, <1>4, <1>5, <1>6, <1>7, <1>8

\* The values of the types.
LEMMA ArgumentsAre ==
  /\ ArgumentsOf("uint256") = Uint256 /\ ArgumentsOf("bytes32") = Bytes32
  /\ ArgumentsOf("bytes") = Bytes /\ ArgumentsOf("bytes32[]") = Seq(Bytes32)
BY DEF ArgumentsOf

\* encode_seal_commit: the proof behind an offset of eight words.
LEMMA SealCommitIsRead ==
  ASSUME NEW s, s = "sealCommit", NEW a, IsCall(s, a)
  PROVE  ReadCall(Transmitted(Build(s, a))) = a
<1> DEFINE place == WordFromU128(8 * WordLen)
           tail == BytesTail(a[8])
           ws == <<a[1], WordFromU128(a[2]), a[3], WordFromU128(a[4]), a[5], a[6], a[7],
                   place, tail>>
<1>1. /\ Build(s, a) = EncodeCall(s, ws)
      /\ Signatures[s] = <<"bytes32", "uint256", "bytes32", "uint256", "bytes32", "bytes32",
                           "bytes32", "bytes">>
  BY BuildIs, SignaturesAre DEF EncodeSealCommit
<1>2. /\ a = [i \in 1 .. 8 |-> a[i]]
      /\ a[1] \in Bytes32 /\ a[2] \in Uint256 /\ a[3] \in Bytes32 /\ a[4] \in Uint256
      /\ a[5] \in Bytes32 /\ a[6] \in Bytes32 /\ a[7] \in Bytes32 /\ a[8] \in Bytes
  <2>1. Len(Signatures[s]) = 8
    BY <1>1
  <2>2. a = [i \in 1 .. 8 |-> a[i]] /\ \A i \in 1 .. 8 : a[i] \in ArgumentsOf(Signatures[s][i])
    BY <2>1 DEF IsCall
  <2> QED BY <1>1, <2>2, ArgumentsAre
<1>3. WordLen \in Nat /\ 8 * WordLen \in Nat
  BY Widths
<1>4. /\ WordFromU128(a[2]) \in Bytes32 /\ WordFromU128(a[4]) \in Bytes32
      /\ place \in Bytes32 /\ tail \in Bytes
  BY <1>2, <1>3, NumberBack, TailIsBytes, WordIsBytes DEF Bytes32
<1> HIDE DEF place, tail
<1>5. ws \in Seq(Bytes) /\ Len(ws) = 9
  BY <1>2, <1>4 DEF Bytes32
<1>6. PICK size : Sizes(size, ws, 9)
  BY <1>5, SizesExist
<1>7. ASSUME NEW i \in 1 .. 8 PROVE Len(ws[i]) = WordLen
  BY <1>2, <1>4 DEF Bytes32
<1>8. size[8] = 8 * WordLen
  <2> HIDE DEF ws
  <2>1. 8 \in 0 .. 9 /\ 9 \in Nat /\ 8 \in 0 .. 8
    OBVIOUS
  <2> QED BY <1>5, <1>6, <1>7, <2>1, HeadWords
<1>9. Carries(ws, size, 8, "bytes", a[8])
  <2>1. ws[8] = WordFromU128(size[9 - 1]) /\ ws[9] = BytesTail(a[8])
    BY <1>8 DEF place, tail
  <2> QED BY <1>2, <1>5, <2>1 DEF Carries
<1>10. Heads(ws, size, s, a)
  <2>1. ASSUME NEW i \in 1 .. 7
        PROVE  /\ Signatures[s][i] \in Static /\ a[i] \in ArgumentsOf(Signatures[s][i])
               /\ ws[i] = WordOf(Signatures[s][i], a[i])
    BY <1>1, <1>2 DEF Static, ArgumentsOf, WordOf
  <2>2. Len(Signatures[s]) = 8 /\ Signatures[s][8] = "bytes"
    BY <1>1
  <2> HIDE DEF ws
  <2>3. \A i \in 1 .. 8 : Carries(ws, size, i, Signatures[s][i], a[i])
    <3>1. \A i \in 1 .. 7 : Carries(ws, size, i, Signatures[s][i], a[i])
      BY <2>1 DEF Carries
    <3>2. \A i \in 1 .. 8 : i = 8 \/ i \in 1 .. 7
      OBVIOUS
    <3> QED BY <1>9, <2>2, <3>1, <3>2
  <2> QED BY <1>2, <1>5, <1>7, <2>2, <2>3 DEF Heads
<1>11. Len(Flat(ws)) <= MaxUsize
  BY <1>1 DEF IsCall, EncodeCall
<1> HIDE DEF ws
<1> QED BY <1>1, <1>5, <1>6, <1>10, <1>11, CarriedCall

\* encode_submit_post: the proof behind an offset of six words.
LEMMA SubmitPostIsRead ==
  ASSUME NEW s, s = "submitPoSt", NEW a, IsCall(s, a)
  PROVE  ReadCall(Transmitted(Build(s, a))) = a
<1> DEFINE place == WordFromU128(6 * WordLen)
           tail == BytesTail(a[6])
           ws == <<a[1], WordFromU128(a[2]), a[3], a[4], WordFromU128(a[5]), place, tail>>
<1>1. /\ Build(s, a) = EncodeCall(s, ws)
      /\ Signatures[s] = <<"bytes32", "uint256", "bytes32", "bytes32", "uint256", "bytes">>
  BY BuildIs, SignaturesAre DEF EncodeSubmitPost
<1>2. /\ a = [i \in 1 .. 6 |-> a[i]]
      /\ a[1] \in Bytes32 /\ a[2] \in Uint256 /\ a[3] \in Bytes32 /\ a[4] \in Bytes32
      /\ a[5] \in Uint256 /\ a[6] \in Bytes
  <2>1. Len(Signatures[s]) = 6
    BY <1>1
  <2>2. a = [i \in 1 .. 6 |-> a[i]] /\ \A i \in 1 .. 6 : a[i] \in ArgumentsOf(Signatures[s][i])
    BY <2>1 DEF IsCall
  <2> QED BY <1>1, <2>2, ArgumentsAre
<1>3. WordLen \in Nat /\ 6 * WordLen \in Nat
  BY Widths
<1>4. /\ WordFromU128(a[2]) \in Bytes32 /\ WordFromU128(a[5]) \in Bytes32
      /\ place \in Bytes32 /\ tail \in Bytes
  BY <1>2, <1>3, NumberBack, TailIsBytes, WordIsBytes DEF Bytes32
<1> HIDE DEF place, tail
<1>5. ws \in Seq(Bytes) /\ Len(ws) = 7
  BY <1>2, <1>4 DEF Bytes32
<1>6. PICK size : Sizes(size, ws, 7)
  BY <1>5, SizesExist
<1>7. ASSUME NEW i \in 1 .. 6 PROVE Len(ws[i]) = WordLen
  BY <1>2, <1>4 DEF Bytes32
<1>8. size[6] = 6 * WordLen
  <2> HIDE DEF ws
  <2>1. 6 \in 0 .. 7 /\ 7 \in Nat /\ 6 \in 0 .. 6
    OBVIOUS
  <2> QED BY <1>5, <1>6, <1>7, <2>1, HeadWords
<1>9. Carries(ws, size, 6, "bytes", a[6])
  <2>1. ws[6] = WordFromU128(size[7 - 1]) /\ ws[7] = BytesTail(a[6])
    BY <1>8 DEF place, tail
  <2> QED BY <1>2, <1>5, <2>1 DEF Carries
<1>10. Heads(ws, size, s, a)
  <2>1. ASSUME NEW i \in 1 .. 5
        PROVE  /\ Signatures[s][i] \in Static /\ a[i] \in ArgumentsOf(Signatures[s][i])
               /\ ws[i] = WordOf(Signatures[s][i], a[i])
    BY <1>1, <1>2 DEF Static, ArgumentsOf, WordOf
  <2>2. Len(Signatures[s]) = 6 /\ Signatures[s][6] = "bytes"
    BY <1>1
  <2> HIDE DEF ws
  <2>3. \A i \in 1 .. 6 : Carries(ws, size, i, Signatures[s][i], a[i])
    <3>1. \A i \in 1 .. 5 : Carries(ws, size, i, Signatures[s][i], a[i])
      BY <2>1 DEF Carries
    <3>2. \A i \in 1 .. 6 : i = 6 \/ i \in 1 .. 5
      OBVIOUS
    <3> QED BY <1>9, <2>2, <3>1, <3>2
  <2> QED BY <1>2, <1>5, <1>7, <2>2, <2>3 DEF Heads
<1>11. Len(Flat(ws)) <= MaxUsize
  BY <1>1 DEF IsCall, EncodeCall
<1> HIDE DEF ws
<1> QED BY <1>1, <1>5, <1>6, <1>10, <1>11, CarriedCall

\* The second tail begins where the first one's padding ends.
LEMMA SubmitResultIsRead ==
  ASSUME NEW s, s = "submitResult", NEW a, IsCall(s, a)
  PROVE  ReadCall(Transmitted(Build(s, a))) = a
<1> DEFINE output == BytesTail(a[2])
           proof == BytesTail(a[3])
           place == WordFromU128(3 * WordLen)
           behind == WordFromU128(3 * WordLen + Len(output))
           ws == <<WordFromU128(a[1]), place, behind, output, proof>>
<1>1. Build(s, a) = EncodeCall(s, ws) /\ Signatures[s] = <<"uint256", "bytes", "bytes">>
  BY BuildIs, SignaturesAre DEF EncodeSubmitResult
<1>2. a = [i \in 1 .. 3 |-> a[i]] /\ a[1] \in Uint256 /\ a[2] \in Bytes /\ a[3] \in Bytes
  <2>1. Len(Signatures[s]) = 3
    BY <1>1
  <2>2. a = [i \in 1 .. 3 |-> a[i]] /\ \A i \in 1 .. 3 : a[i] \in ArgumentsOf(Signatures[s][i])
    BY <2>1 DEF IsCall
  <2> QED BY <1>1, <2>2, ArgumentsAre
<1>3. output \in Bytes /\ proof \in Bytes /\ Len(output) \in Nat
  BY <1>2, TailIsBytes, BytesAre
<1>4. WordLen \in Nat /\ 3 * WordLen \in Nat /\ 3 * WordLen + Len(output) \in Nat
  BY <1>3, Widths
<1>5. WordFromU128(a[1]) \in Bytes32 /\ place \in Bytes32 /\ behind \in Bytes32
  BY <1>2, <1>4, NumberBack, WordIsBytes DEF Bytes32
<1> HIDE DEF place, behind, output, proof
<1>6. ws \in Seq(Bytes) /\ Len(ws) = 5
  BY <1>3, <1>5 DEF Bytes32
<1>7. PICK size : Sizes(size, ws, 5)
  BY <1>6, SizesExist
<1>8. ASSUME NEW i \in 1 .. 3 PROVE Len(ws[i]) = WordLen
  BY <1>5 DEF Bytes32
<1>9. size[3] = 3 * WordLen
  <2> HIDE DEF ws
  <2>1. 3 \in 0 .. 5 /\ 5 \in Nat /\ 3 \in 0 .. 3
    OBVIOUS
  <2> QED BY <1>6, <1>7, <1>8, <2>1, HeadWords
<1>10. size[4] = 3 * WordLen + Len(output)
  <2>1. 4 \in 1 .. 5 /\ 4 - 1 = 3 /\ ws[4] = output
    OBVIOUS
  <2>2. size[4] = size[4 - 1] + Len(ws[4])
    BY <1>7, <2>1 DEF Sizes
  <2> QED BY <1>9, <2>1, <2>2
<1>11. Carries(ws, size, 2, "bytes", a[2])
  <2>1. ws[2] = WordFromU128(size[4 - 1]) /\ ws[4] = BytesTail(a[2])
    BY <1>9 DEF place, output
  <2> QED BY <1>2, <1>6, <2>1 DEF Carries
<1>12. Carries(ws, size, 3, "bytes", a[3])
  <2>1. ws[3] = WordFromU128(size[5 - 1]) /\ ws[5] = BytesTail(a[3])
    BY <1>10 DEF behind, proof
  <2> QED BY <1>2, <1>6, <2>1 DEF Carries
<1>13. Carries(ws, size, 1, "uint256", a[1])
  BY <1>2 DEF Carries, Static, ArgumentsOf, WordOf
<1>14. Heads(ws, size, s, a)
  <2>1. /\ Len(Signatures[s]) = 3 /\ Signatures[s][1] = "uint256"
        /\ Signatures[s][2] = "bytes" /\ Signatures[s][3] = "bytes"
    BY <1>1
  <2> HIDE DEF ws
  <2>2. \A i \in 1 .. 3 : Carries(ws, size, i, Signatures[s][i], a[i])
    <3>1. \A i \in 1 .. 3 : i = 1 \/ i = 2 \/ i = 3
      OBVIOUS
    <3> QED BY <1>11, <1>12, <1>13, <2>1, <3>1
  <2> QED BY <1>2, <1>6, <1>8, <2>1, <2>2 DEF Heads
<1>15. Len(Flat(ws)) <= MaxUsize
  BY <1>1 DEF IsCall, EncodeCall
<1> HIDE DEF ws
<1> QED BY <1>1, <1>6, <1>7, <1>14, <1>15, CarriedCall

\* The words of an array are where its place and length say.
LEMMA RegisterProviderIsRead ==
  ASSUME NEW s, s = "registerProvider", NEW a, IsCall(s, a)
  PROVE  ReadCall(Transmitted(Build(s, a))) = a
<1> DEFINE models == a[1]
           q == Len(models)
           n == 2 + q
           place == WordFromU128(WordLen)
           count == WordFromU128(q)
           ws == <<place, count>> \o models
           data == Flat(ws)
           rest == SubSeq(data, 2 * WordLen + 1, n * WordLen)
           S == 0 .. Base - 1
<1>1. Build(s, a) = EncodeCall(s, ws) /\ Signatures[s] = <<"bytes32[]">>
  BY BuildIs, SignaturesAre DEF EncodeRegisterProvider
<1>2. a = [i \in 1 .. 1 |-> a[i]] /\ models \in Seq(Bytes32)
  <2>1. Len(Signatures[s]) = 1
    BY <1>1
  <2>2. a = [i \in 1 .. 1 |-> a[i]] /\ \A i \in 1 .. 1 : a[i] \in ArgumentsOf(Signatures[s][i])
    BY <2>1 DEF IsCall
  <2> QED BY <1>1, <2>2, ArgumentsAre
<1>3. Len(data) <= MaxUsize
  BY <1>1 DEF IsCall, EncodeCall
<1> HIDE DEF models
<1>4. q \in Nat /\ n \in Nat /\ WordLen \in Nat \ {0} /\ 2 * WordLen \in Nat /\ q * WordLen \in Nat
      /\ n * WordLen = 2 * WordLen + q * WordLen
  <2>1. q \in Nat /\ WordLen \in Nat \ {0}
    BY <1>2, Widths
  <2> HIDE DEF q
  <2>2. n \in Nat /\ 2 * WordLen \in Nat
    BY <2>1
  <2>3. q * WordLen \in Nat
    BY <2>1, ProductIsNat
  <2>4. n * WordLen = 2 * WordLen + q * WordLen
    BY <2>1
  <2> QED BY <2>1, <2>2, <2>3, <2>4
<1>5. place \in Bytes32 /\ count \in Bytes32
  BY <1>4, WordIsBytes DEF Bytes32
<1>6. Bytes = Seq(S)
  BY DEF Bytes
<1> HIDE DEF q, place, count, S
<1>7. ws \in Seq(Bytes32) /\ Len(ws) = n /\ ws[1] = place /\ ws[2] = count
      /\ \A i \in 1 .. q : ws[2 + i] = models[i]
  <2> DEFINE two == <<place, count>>
  <2>1. two \in Seq(Bytes32) /\ Len(two) = 2 /\ two[1] = place /\ two[2] = count
    BY <1>5
  <2> HIDE DEF two
  <2>2. Len(models) = q
    BY DEF q
  <2>3. two \o models \in Seq(Bytes32) /\ Len(two \o models) = Len(two) + Len(models)
    BY <1>2, <2>1, ConcatProperties
  <2>4. \A i \in 1 .. 2 + q :
          (two \o models)[i] = IF i <= 2 THEN two[i] ELSE models[i - 2]
    <3>1. \A i \in 1 .. Len(two) + Len(models) :
            (two \o models)[i] = IF i <= Len(two) THEN two[i] ELSE models[i - Len(two)]
      BY <1>2, <2>1, ConcatProperties
    <3> QED BY <2>1, <2>2, <3>1
  <2>5. ws = two \o models
    BY DEF two
  <2> HIDE DEF ws
  <2>6. \A i \in 1 .. q : ws[2 + i] = models[i]
    <3>1. \A i \in 1 .. q : 2 + i \in 1 .. 2 + q /\ ~(2 + i <= 2) /\ (2 + i) - 2 = i
      BY <1>4
    <3> QED BY <2>4, <2>5, <3>1
  <2>7. ws[1] = place /\ ws[2] = count
    <3>1. ASSUME NEW i \in 1 .. 2 PROVE (two \o models)[i] = two[i]
      <4>1. i \in 1 .. 2 + q /\ i <= 2
        BY <1>4
      <4> QED BY <2>4, <4>1
    <3>2. 1 \in 1 .. 2 /\ 2 \in 1 .. 2
      OBVIOUS
    <3>3. (two \o models)[1] = two[1] /\ (two \o models)[2] = two[2]
      BY <3>1, <3>2
    <3> QED BY <2>1, <2>5, <3>3
  <2> QED BY <2>1, <2>2, <2>3, <2>5, <2>6, <2>7
<1> HIDE DEF ws
<1>8. ASSUME NEW i \in 1 .. n PROVE ws[i] \in Bytes /\ Len(ws[i]) = WordLen /\ ws[i] \in Bytes32
  BY <1>7, ElementOfSeq DEF Bytes32
<1>9. ws \in Seq(Bytes)
  BY <1>7 DEF Bytes32
<1>10. /\ data \in Bytes /\ Len(data) = n * WordLen
       /\ \A i \in 1 .. n : WordAt(data, i) = ws[i]
  <2> HIDE DEF data, n
  <2> QED BY <1>4, <1>7, <1>8, <1>9, OnlyWords DEF data
<1> HIDE DEF data
<1>11. WordAt(data, 1) = place /\ WordAt(data, 2) = count /\ 1 \in 1 .. n /\ 2 \in 1 .. n
  BY <1>4, <1>7, <1>10
<1>12. WordLen \in Uint256 /\ q \in Uint256
  <2>1. MaxUsize \in Nat
    BY PowersPositive, Widths DEF MaxUsize
  <2>2. q <= q * WordLen
    BY <1>4
  <2>3. WordLen <= MaxUsize /\ q <= MaxUsize
    BY <1>3, <1>4, <1>10, <2>1, <2>2
  <2> QED BY <1>4, <2>3, SmallEnough
<1>13. Number(place) = WordLen /\ Number(count) = q
  BY <1>12, NumberBack DEF place, count
<1>14. SubSeq(data, WordLen + 1, 2 * WordLen) = count
  <2>1. (2 - 1) * WordLen + 1 = WordLen + 1
    BY <1>4
  <2> QED BY <1>11, <2>1 DEF WordAt
<1>15. DynamicTail(data, WordLen, WordLen) = rest
  <2>1. WordLen + WordLen = 2 * WordLen /\ WordLen * q = q * WordLen
    BY <1>4
  <2>2. 2 * WordLen <= Len(data) /\ n * WordLen <= Len(data)
    BY <1>4, <1>10
  <2> QED BY <1>4, <1>13, <1>14, <2>1, <2>2 DEF DynamicTail
<1>16. /\ rest \in Seq(S) /\ Len(rest) = q * WordLen
       /\ \A j \in 1 .. q * WordLen : rest[j] = data[2 * WordLen + j]
  <2> DEFINE b == 2 * WordLen
             e == n * WordLen
  <2>1. b \in Nat /\ e \in Nat /\ e = b + q * WordLen /\ e = Len(data)
    BY <1>4, <1>10
  <2>2. \A i \in b + 1 .. e : data[i] \in S
    BY <1>6, <1>10, <2>1, ElementOfSeq
  <2> HIDE DEF b, e
  <2>3. /\ SubSeq(data, b + 1, e) \in Seq(S)
        /\ Len(SubSeq(data, b + 1, e)) = IF b + 1 <= e THEN e - (b + 1) + 1 ELSE 0
        /\ \A i \in 1 .. e - (b + 1) + 1 : SubSeq(data, b + 1, e)[i] = data[(b + 1) + i - 1]
    <3>1. b + 1 \in Int /\ e \in Int
      BY <2>1
    <3> QED BY <2>2, <3>1, SubSeqProperties
  <2>4. e - (b + 1) + 1 = q * WordLen /\ \A j \in 1 .. q * WordLen : (b + 1) + j - 1 = b + j
    BY <1>4, <2>1
  <2>5. (IF b + 1 <= e THEN e - (b + 1) + 1 ELSE 0) = q * WordLen
    BY <1>4, <2>1
  <2> QED BY <2>3, <2>4, <2>5 DEF b, e
<1> HIDE DEF rest
<1>17. rest \in Bytes /\ rest # Revert
  BY <1>6, <1>16, RevertAssumption
<1>18. ASSUME NEW i \in 1 .. q PROVE WordAt(rest, i) = models[i]
  <2> DEFINE m == models[i]
             o == (i - 1) * WordLen
  <2>1. m \in Bytes32
    BY <1>2, ElementOfSeq DEF q
  <2>2. o \in Nat /\ o + WordLen = i * WordLen /\ i * WordLen <= q * WordLen
    <3>1. i \in Nat \ {0} /\ i <= q /\ WordLen \in Nat
      BY <1>4
    <3>2. i - 1 \in Nat
      BY <3>1
    <3>3. o \in Nat
      BY <3>1, <3>2, ProductIsNat
    <3>4. o + WordLen = i * WordLen /\ i * WordLen <= q * WordLen
      BY <3>1, <1>4
    <3> QED BY <3>3, <3>4
  <2>3. 2 + i \in 1 .. n /\ ((2 + i) - 1) * WordLen = 2 * WordLen + o /\ (2 + i) - 1 \in Nat
    BY <1>4
  <2>4. WordAt(data, 2 + i) = m
    BY <1>7, <1>10, <2>3
  <2>5. At(rest, o, m)
    <3>1. Len(m) = WordLen
      BY <2>1 DEF Bytes32
    <3>2. o + Len(m) <= Len(rest)
      BY <1>16, <2>2, <3>1
    <3>3. ASSUME NEW j \in 1 .. WordLen PROVE rest[o + j] = m[j]
      <4>1. o + j \in 1 .. q * WordLen
        BY <1>4, <2>2
      <4>2. rest[o + j] = data[2 * WordLen + (o + j)]
        BY <1>16, <4>1
      <4>3. m[j] = data[(2 * WordLen + o) + j]
        <5>1. (2 + i) * WordLen = (2 * WordLen + o) + WordLen
          BY <1>4
        <5> DEFINE b == 2 * WordLen + o
        <5>2. b \in Nat /\ b + WordLen <= Len(data)
          BY <1>4, <1>10, <2>2
        <5>3. m = SubSeq(data, b + 1, b + WordLen)
          BY <2>3, <2>4, <5>1 DEF WordAt
        <5> HIDE DEF b, m
        <5>4. SubSeq(data, b + 1, b + WordLen)[j] = data[b + j]
          <6>1. \A x \in b + 1 .. b + WordLen : data[x] \in S
            <7>1. data \in Seq(S)
              BY <1>6, <1>10
            <7>2. Len(data) \in Nat /\ \A x \in b + 1 .. b + WordLen : x \in 1 .. Len(data)
              BY <1>4, <1>10, <5>2
            <7> QED BY <7>1, <7>2, ElementOfSeq
          <6>2. b + 1 \in Int /\ b + WordLen \in Int /\ j \in 1 .. (b + WordLen) - (b + 1) + 1
                /\ (b + 1) + j - 1 = b + j
            BY <1>4, <5>2
          <6> QED BY <6>1, <6>2, SubSeqProperties
        <5> QED BY <5>3, <5>4 DEF b
      <4>4. 2 * WordLen + (o + j) = (2 * WordLen + o) + j
        BY <1>4, <2>2
      <4> QED BY <4>2, <4>3, <4>4
    <3> QED BY <3>1, <3>2, <3>3 DEF At
  <2> HIDE DEF m
  <2>6. WordAt(rest, i) = m
    <3>1. i \in Nat \ {0}
      BY <1>4
    <3> QED BY <1>17, <2>1, <2>5, <3>1, WordIsAt
  <2> QED BY <2>6 DEF m
<1>19. Words(rest) = models
  <2>1. Len(rest) \div WordLen = q
    <3>1. (WordLen * q + 0) \div WordLen = q
      BY <1>4, Quotient
    <3>2. WordLen * q + 0 = Len(rest)
      BY <1>4, <1>16
    <3> QED BY <3>1, <3>2
  <2>2. Words(rest) = [i \in 1 .. q |-> WordAt(rest, i)]
    BY <1>17, <2>1 DEF Words
  <2>3. models = [i \in 1 .. q |-> models[i]]
    BY <1>2 DEF q
  <2> QED BY <1>18, <2>2, <2>3
<1>20. Argument("bytes32[]", data, 1) = models
  BY <1>11, <1>13, <1>15, <1>19 DEF Argument
<1>21. ReadCall(EncodeCall(s, ws)) = [i \in 1 .. 1 |-> Argument(Signatures[s][i], data, i)]
  <2>1. EncodeCall(s, ws).selector = s /\ EncodeCall(s, ws).data = data
    BY DEF EncodeCall, data
  <2>2. Len(Signatures[s]) = 1 /\ ~(1 * WordLen > Len(data))
    BY <1>1, <1>4, <1>10
  <2> QED BY <2>1, <2>2 DEF ReadCall
<1>22. [i \in 1 .. 1 |-> Argument(Signatures[s][i], data, i)] = a
  <2>1. \A i \in 1 .. 1 : i = 1 /\ Signatures[s][i] = "bytes32[]"
    BY <1>1
  <2> QED BY <1>2, <1>20, <2>1 DEF models
<1>23. Transmitted(EncodeCall(s, ws)) = EncodeCall(s, ws)
  BY <1>10, Unchanged DEF data
<1> QED BY <1>1, <1>21, <1>22, <1>23

\* All builders.
LEMMA CallIsRead ==
  ASSUME NEW c \in Calls
  PROVE  ReadCall(Transmitted(Build(c.selector, c.args))) = c.args
<1>1. IsCall(c.selector, c.args)
  <2>1. c.selector \in DOMAIN Signatures
    BY CallAssumption
  <2>2. Len(Signatures[c.selector]) \in Nat
    BY <2>1, SignaturesAre
  <2> QED BY <2>2, CallAssumption DEF IsCall
<1>2. c.selector \in DOMAIN Signatures
  BY CallAssumption
<1> QED BY <1>1, <1>2, SignaturesAre, StaticCallsAreRead, SealCommitIsRead, SubmitPostIsRead,
           SubmitResultIsRead, RegisterProviderIsRead

-----------------------------------------------------------------------------
(* The proof that submitResult carries. *)

\* The commitment binds output and nonce: one word is the nonce, the rest the output.
LEMMA CommitmentBinds ==
  ASSUME NEW o1 \in Bytes, NEW n1 \in Bytes, NEW o2 \in Bytes, NEW n2 \in Bytes,
         Len(n1) = Len(n2), Commitment(o1, n1) = Commitment(o2, n2)
  PROVE  o1 = o2 /\ n1 = n2
<1> DEFINE s == o1 \o n1
<1> USE DEF Bytes
<1>1. o1 \o n1 = o2 \o n2
  <2>1. Commitment(o1, n1).keccak = o1 \o n1 /\ Commitment(o2, n2).keccak = o2 \o n2
    BY DEF Commitment
  <2> QED BY <2>1
<1>2. Len(o1) \in Nat /\ Len(o2) \in Nat /\ Len(n1) \in Nat
  OBVIOUS
<1>3. /\ Len(s) = Len(o1) + Len(n1)
      /\ \A i \in 1 .. Len(o1) + Len(n1) : s[i] = IF i <= Len(o1) THEN o1[i] ELSE n1[i - Len(o1)]
  BY ConcatProperties
<1>4. /\ Len(s) = Len(o2) + Len(n2)
      /\ \A i \in 1 .. Len(o2) + Len(n2) : s[i] = IF i <= Len(o2) THEN o2[i] ELSE n2[i - Len(o2)]
  BY <1>1, ConcatProperties
<1> HIDE DEF s
<1>5. Len(o1) = Len(o2)
  BY <1>2, <1>3, <1>4
<1>6. ASSUME NEW i \in 1 .. Len(o1) PROVE o1[i] = o2[i]
  BY <1>2, <1>3, <1>4, <1>5
<1>7. ASSUME NEW i \in 1 .. Len(n1) PROVE n1[i] = n2[i]
  <2> DEFINE j == Len(o1) + i
  <2>1. j \in 1 .. Len(o1) + Len(n1) /\ ~(j <= Len(o1)) /\ j - Len(o1) = i
    BY <1>2
  <2> HIDE DEF j
  <2> QED BY <1>3, <1>4, <1>5, <2>1
<1>8. o1 = o2
  BY <1>5, <1>6, SeqEqual
<1>9. n1 = n2
  BY <1>7, SeqEqual
<1> QED BY <1>8, <1>9

\* submitResult's proof opens the commitment to its own output and nonce and no other.
LEMMA ProofOpensItsOwn ==
  ASSUME NEW w \in Proofs
  PROVE  VerifyCommitment(Commitment(w.of.output, w.of.nonce), ProofData(w.output, w.nonce))
           <=> w.of = [output |-> w.output, nonce |-> w.nonce]
<1> DEFINE c == Commitment(w.output, w.nonce)
           S == {c} \cup (0 .. Base - 1)
           first == <<c>>
           nonce == w.nonce
           output == w.output
           data == (first \o nonce) \o output
<1>1. /\ output \in Bytes /\ nonce \in Bytes /\ Len(nonce) = WordLen
      /\ w.of \in [output : Bytes, nonce : Bytes32]
  BY ProofAssumption DEF Bytes32
<1>2. /\ w.of.output \in Bytes /\ w.of.nonce \in Bytes /\ Len(w.of.nonce) = WordLen
      /\ w.of = [output |-> w.of.output, nonce |-> w.of.nonce]
  BY <1>1 DEF Bytes32
<1>3. WordLen \in Nat /\ Len(output) \in Nat
  BY <1>1, BytesAre, Widths
<1>4. first \in Seq(S) /\ Len(first) = 1 /\ nonce \in Seq(S) /\ output \in Seq(S)
      /\ <<>> \in Seq(S) /\ first[1] = c
  <2>1. c \in S /\ \A x \in 0 .. Base - 1 : x \in S
    OBVIOUS
  <2> HIDE DEF c, S
  <2>2. first \in Seq(S) /\ Len(first) = 1 /\ first[1] = c
    BY <2>1
  <2>3. ASSUME NEW b \in Bytes PROVE b \in Seq(S)
    <3>1. Len(b) \in Nat /\ b \in [1 .. Len(b) -> S]
      BY <2>1, BytesAre
    <3> QED BY <3>1, FunctionIsSeq
  <2> QED BY <1>1, <2>2, <2>3, EmptySeq
<1>5. ProofData(w.output, w.nonce) = data
  BY DEF ProofData
<1> HIDE DEF c, S, first, nonce, output
<1>6. first \o nonce \in Seq(S) /\ Len(first \o nonce) = 1 + WordLen
  <2>1. first \o nonce \in Seq(S) /\ Len(first \o nonce) = Len(first) + Len(nonce)
    BY <1>4, ConcatProperties
  <2>2. Len(nonce) = WordLen
    BY <1>1
  <2> QED BY <1>4, <2>1, <2>2
<1>7. data \in Seq(S) /\ Len(data) = 1 + WordLen + Len(output)
  BY <1>4, <1>6, ConcatProperties
<1>8. At(data, 1, nonce)
  BY <1>4, AtIn
<1>9. At(data, 1 + WordLen, output)
  <2>1. At((first \o nonce) \o output, Len(first \o nonce), output)
    <3>1. At(((first \o nonce) \o output) \o <<>>, Len(first \o nonce), output)
      BY <1>4, <1>6, AtIn
    <3>2. ((first \o nonce) \o output) \o <<>> = (first \o nonce) \o output
      BY <1>7, ConcatEmptySeq
    <3> QED BY <3>1, <3>2
  <2> QED BY <1>6, <2>1
<1>10. data[1] = c
  <2>1. (first \o nonce)[1] = first[1]
    <3>1. \A i \in 1 .. Len(first) + Len(nonce) :
            (first \o nonce)[i] = IF i <= Len(first) THEN first[i] ELSE nonce[i - Len(first)]
      BY <1>4, ConcatProperties
    <3>2. 1 \in 1 .. Len(first) + Len(nonce) /\ 1 <= Len(first)
      BY <1>1, <1>3, <1>4
    <3> QED BY <3>1, <3>2
  <2>2. data[1] = (first \o nonce)[1]
    BY <1>3, <1>4, <1>6, ConcatProperties
  <2> QED BY <1>4, <2>1, <2>2
<1> HIDE DEF data
<1>11. SubSeq(data, 2, 1 + WordLen) = nonce
  <2>1. SubSeq(data, 1 + 1, 1 + Len(nonce)) = nonce
    BY <1>4, <1>7, <1>8, AtIsSubSeq
  <2>2. 1 + 1 = 2
    OBVIOUS
  <2> QED BY <1>1, <2>1, <2>2
<1>12. SubSeq(data, 2 + WordLen, Len(data)) = output
  <2>1. SubSeq(data, (1 + WordLen) + 1, (1 + WordLen) + Len(output)) = output
    <3>1. 1 + WordLen \in Nat
      BY <1>3
    <3> QED BY <1>4, <1>7, <1>9, <3>1, AtIsSubSeq
  <2>2. (1 + WordLen) + 1 = 2 + WordLen
    BY <1>3
  <2> QED BY <1>7, <2>1, <2>2
<1> DEFINE stored == Commitment(w.of.output, w.of.nonce)
<1>13. VerifyCommitment(stored, data) <=> c = stored /\ [keccak |-> output \o nonce] = stored
  <2>1. Len(data) >= 1 + WordLen
    BY <1>3, <1>7
  <2> HIDE DEF stored
  <2> QED BY <1>10, <1>11, <1>12, <2>1 DEF VerifyCommitment
<1>14. c = [keccak |-> output \o nonce]
  BY DEF c, output, nonce, Commitment
<1>15. c = stored <=> output = w.of.output /\ nonce = w.of.nonce
  <2>1. ASSUME c = stored PROVE output = w.of.output /\ nonce = w.of.nonce
    <3>1. Commitment(output, nonce) = Commitment(w.of.output, w.of.nonce)
      BY <2>1 DEF c, output, nonce
    <3>2. Len(nonce) = Len(w.of.nonce)
      BY <1>1, <1>2
    <3> QED BY <1>1, <1>2, <3>1, <3>2, CommitmentBinds
  <2>2. output = w.of.output /\ nonce = w.of.nonce => c = stored
    BY DEF c, output, nonce
  <2> QED BY <2>1, <2>2
<1>16. w.of = [output |-> output, nonce |-> nonce]
         <=> output = w.of.output /\ nonce = w.of.nonce
  BY <1>2
<1>17. VerifyCommitment(stored, data) <=> w.of = [output |-> output, nonce |-> nonce]
  BY <1>13, <1>14, <1>15, <1>16
<1> QED BY <1>5, <1>17 DEF output, nonce

-----------------------------------------------------------------------------
(* Content identifiers. *)

LEMMA TwoTos ==
  /\ TwoTo \in [Nat -> Nat \ {0}] /\ TwoTo[0] = 1
  /\ \A n \in Nat \ {0} : TwoTo[n] = 2 * TwoTo[n - 1]
<1> DEFINE Rule(g) == g = [n \in Nat |-> IF n = 0 THEN 1 ELSE 2 * g[n - 1]]
<1>1. TwoTo = CHOOSE g : Rule(g)
  BY DEF TwoTo
<1>2. \E f : Rule(f)
  BY PowersExist
<1>3. Rule(TwoTo)
  <2> HIDE DEF Rule
  <2> QED BY <1>1, <1>2
<1> QED BY <1>3, PowerRule

\* FromBits is what its recursion says.
LEMMA FromBitsIs ==
  ASSUME NEW n \in Nat, NEW w, Len(w) = n, NEW f \in [0 .. n -> Nat],
         f[0] = 0, \A i \in 1 .. n : f[i] = 2 * f[i - 1] + w[i]
  PROVE  FromBits(w) = f[n]
<1> DEFINE Rule(v) ==
             v = [i \in 0 .. n |-> IF i = 0 THEN 0 ELSE 2 * v[i - 1] + w[i]]
           g == CHOOSE v : Rule(v)
<1>1. Rule(f)
  <2>1. \A i \in 0 .. n : f[i] = IF i = 0 THEN 0 ELSE 2 * f[i - 1] + w[i]
    OBVIOUS
  <2> QED BY <2>1
<1>2. Rule(g)
  <2> HIDE DEF Rule
  <2> QED BY <1>1
<1>3. FromBits(w) = g[n]
  BY DEF FromBits
<1> HIDE DEF g
<1>4. \A i \in 0 .. n : g[i] = IF i = 0 THEN 0 ELSE 2 * g[i - 1] + w[i]
  BY <1>2
<1> HIDE DEF Rule
<1> DEFINE T == {i \in 0 .. n : f[i] = g[i]}
<1>5. 0 \in T
  BY <1>4
<1>6. ASSUME NEW i \in 1 .. n, i - 1 \in T PROVE i \in T
  <2>1. f[i - 1] = g[i - 1] /\ i \in 0 .. n /\ i # 0
    BY <1>6
  <2>2. g[i] = 2 * g[i - 1] + w[i]
    BY <1>4, <2>1
  <2> QED BY <2>1, <2>2
<1>7. 0 .. n \subseteq T
  <2> HIDE DEF T
  <2> QED BY <1>5, <1>6, UpTo
<1> QED BY <1>3, <1>7

\* The bits of a number that bits make up.
LEMMA BitsBack ==
  ASSUME NEW n \in Nat, NEW b \in [1 .. n -> {0, 1}], Len(b) = n
  PROVE  /\ FromBits(b) \in Nat
         /\ \A j \in 1 .. n : (FromBits(b) \div TwoTo[n - j]) % 2 = b[j]
<1> DEFINE step == [i \in 1 .. n |-> [x \in Nat |-> 2 * x + b[i]]]
<1>1. step \in [1 .. n -> [Nat -> Nat]] /\ 0 \in Nat
  OBVIOUS
<1>2. \A i \in 1 .. n, x \in Nat : step[i][x] = 2 * x + b[i]
  OBVIOUS
<1> HIDE DEF step
<1>3. PICK f : Iterates(f, Nat, n, 0, step)
  BY <1>1, IterationExists
<1>4. f \in [0 .. n -> Nat] /\ f[0] = 0
  BY <1>3 DEF Iterates
<1>5. ASSUME NEW i \in 1 .. n PROVE f[i] = 2 * f[i - 1] + b[i]
  <2>1. f[i] = step[i][f[i - 1]] /\ f[i - 1] \in Nat
    BY <1>3 DEF Iterates
  <2> QED BY <1>2, <2>1
<1>6. FromBits(b) = f[n]
  BY <1>4, <1>5, FromBitsIs
<1> DEFINE T == {i \in 0 .. n : \A j \in 1 .. i : (f[i] \div TwoTo[i - j]) % 2 = b[j]}
<1>7. 0 \in T
  OBVIOUS
<1>8. ASSUME NEW i \in 1 .. n, i - 1 \in T PROVE i \in T
  <2>1. i - 1 \in 0 .. n /\ f[i - 1] \in Nat /\ f[i] \in Nat /\ b[i] \in 0 .. 1
    BY <1>4
  <2>2. f[i] = 2 * f[i - 1] + b[i]
    BY <1>5
  <2>3. f[i] \div 2 = f[i - 1] /\ f[i] % 2 = b[i]
    <3> DEFINE q == f[i - 1]
               r == b[i]
    <3>1. q \in Nat /\ r \in 0 .. 2 - 1 /\ 2 \in Nat \ {0}
      BY <2>1
    <3>2. f[i] = 2 * q + r
      BY <2>2
    <3> HIDE DEF q, r
    <3>3. (2 * q + r) \div 2 = q /\ (2 * q + r) % 2 = r
      BY <3>1, Quotient
    <3> QED BY <3>2, <3>3 DEF q, r
  <2>4. ASSUME NEW j \in 1 .. i PROVE (f[i] \div TwoTo[i - j]) % 2 = b[j]
    <3>1. CASE j = i
      <4>1. i - j = 0 /\ TwoTo[0] = 1
        BY <3>1, TwoTos
      <4>2. \A x \in Nat : x \div 1 = x
        OBVIOUS
      <4>3. f[i] \div TwoTo[i - j] = f[i]
        BY <2>1, <4>1, <4>2
      <4> QED BY <2>3, <3>1, <4>3
    <3>2. CASE j # i
      <4> DEFINE p == TwoTo[(i - 1) - j]
      <4>1. j \in 1 .. i - 1 /\ (i - 1) - j \in Nat /\ i - j \in Nat \ {0}
            /\ (i - j) - 1 = (i - 1) - j
        BY <3>2
      <4>2. p \in Nat \ {0} /\ TwoTo[i - j] = 2 * p
        BY <4>1, TwoTos
      <4>3. (f[i - 1] \div p) % 2 = b[j]
        BY <1>8, <4>1
      <4> HIDE DEF p
      <4>4. f[i] \div (p * 2) = (f[i] \div 2) \div p
        BY <2>1, <4>2, DivideTwice
      <4>5. p * 2 = TwoTo[i - j]
        BY <4>2
      <4> QED BY <2>3, <4>3, <4>4, <4>5
    <3> QED BY <3>1, <3>2
  <2> QED BY <2>4
<1>9. 0 .. n \subseteq T
  <2> HIDE DEF T
  <2> QED BY <1>7, <1>8, UpTo
<1> QED BY <1>4, <1>6, <1>9

\* A number is made up of its bits.
LEMMA NumberOfBits ==
  ASSUME NEW n \in Nat, NEW x \in Nat, x < TwoTo[n], NEW b, Len(b) = n,
         \A j \in 1 .. n : b[j] = (x \div TwoTo[n - j]) % 2
  PROVE  FromBits(b) = x
<1> DEFINE f == [i \in 0 .. n |-> x \div TwoTo[n - i]]
<1>1. f[0] = 0
  <2>1. n - 0 = n /\ TwoTo[n] \in Nat \ {0}
    BY TwoTos
  <2>2. x \div TwoTo[n] = 0
    BY <2>1, SmallQuotient
  <2> QED BY <2>1, <2>2
<1>2. ASSUME NEW i \in 1 .. n PROVE f[i] = 2 * f[i - 1] + b[i]
  <2> DEFINE p == TwoTo[n - i]
             q == x \div p
  <2>1. n - i \in Nat /\ n - (i - 1) \in Nat \ {0} /\ (n - (i - 1)) - 1 = n - i
        /\ i \in 0 .. n /\ i - 1 \in 0 .. n
    OBVIOUS
  <2>2. p \in Nat \ {0} /\ TwoTo[n - (i - 1)] = 2 * p
    BY <2>1, TwoTos
  <2>3. f[i - 1] = x \div (2 * p) /\ f[i] = q /\ b[i] = q % 2
    BY <2>1, <2>2
  <2> HIDE DEF p, f
  <2>4. x \div (2 * p) = q \div 2
    BY <2>2, DivideTwice
  <2>5. q \in Nat
    BY <2>2, Division
  <2> HIDE DEF q
  <2>6. q = 2 * (q \div 2) + (q % 2)
    BY <2>5, Division
  <2> QED BY <2>3, <2>4, <2>6
<1>3. f[n] = x
  BY TwoTos
<1>4. f \in [0 .. n -> Nat]
  <2>1. ASSUME NEW i \in 0 .. n PROVE x \div TwoTo[n - i] \in Nat
    <3>1. n - i \in Nat
      OBVIOUS
    <3>2. TwoTo[n - i] \in Nat \ {0}
      BY <3>1, TwoTos
    <3> QED BY <3>2, Division
  <2> QED BY <2>1
<1> HIDE DEF f
<1> QED BY <1>1, <1>2, <1>3, <1>4, FromBitsIs

\* A bit of numbers, and of zeros behind them.
BitAt(s, width, k) == IF k < Len(s) * width THEN Bit(s, width, k) ELSE 0

\* A bit is 0 or 1.
LEMMA BitIsBit ==
  ASSUME NEW s \in Seq(Nat), NEW width \in Nat \ {0}, NEW k \in Nat
  PROVE  BitAt(s, width, k) \in {0, 1}
<1> DEFINE i == k \div width
           r == k % width
<1>1. CASE k < Len(s) * width
  <2>1. i \in Nat /\ r \in 0 .. width - 1 /\ k = width * i + r
    BY Division
  <2>2. i + 1 \in 1 .. Len(s)
    <3>1. Len(s) \in Nat
      OBVIOUS
    <3>2. ASSUME i >= Len(s) PROVE FALSE
      <4>1. (i - Len(s)) * width \in Nat
        <5>1. i - Len(s) \in Nat
          BY <2>1, <3>1, <3>2
        <5> QED BY <5>1, ProductIsNat
      <4>2. width * i = Len(s) * width + (i - Len(s)) * width
        BY <2>1, <3>1
      <4> DEFINE x == width * i
                 y == Len(s) * width
                 z == (i - Len(s)) * width
      <4>3. y \in Nat /\ x = y + z /\ z \in Nat /\ k = x + r /\ k < y
        BY <1>1, <2>1, <3>1, <4>1, <4>2, ProductIsNat
      <4> HIDE DEF x, y, z, r
      <4> QED BY <2>1, <4>3
    <3> QED BY <2>1, <3>1, <3>2
  <2> HIDE DEF i, r
  <2>3. s[i + 1] \in Nat
    BY <2>2, ElementOfSeq
  <2>4. TwoTo[width - 1 - r] \in Nat \ {0}
    <3>1. width - 1 - r \in Nat
      BY <2>1
    <3> QED BY <3>1, TwoTos
  <2> DEFINE q == s[i + 1] \div TwoTo[width - 1 - r]
  <2>5. q \in Nat
    BY <2>3, <2>4, Division
  <2>6. BitAt(s, width, k) = q % 2
    BY <1>1 DEF BitAt, Bit, i, r
  <2> HIDE DEF q
  <2> QED BY <2>5, <2>6
<1>2. CASE ~(k < Len(s) * width)
  BY <1>2 DEF BitAt
<1> QED BY <1>1, <1>2

\* What Regroup's numbers are, and that their bits are the bits it was given.
Regrouped(r, s, from, width, n) ==
  /\ r \in Seq(Nat) /\ Len(r) = n
  /\ r = [i \in 1 .. n |-> r[i]]
  /\ \A i \in 1 .. n :
       r[i] = FromBits([j \in 1 .. width |-> BitAt(s, from, (i - 1) * width + j - 1)])
  /\ \A k \in Nat : k < n * width => BitAt(r, width, k) = BitAt(s, from, k)

\* Regroup regroups.
LEMMA RegroupIs ==
  ASSUME NEW s \in Seq(Nat), NEW from \in Nat \ {0}, NEW width \in Nat \ {0}, NEW n \in Nat
  PROVE  Regrouped(Regroup(s, from, width, n), s, from, width, n)
<1> DEFINE r == Regroup(s, from, width, n)
           bits(i) == [j \in 1 .. width |-> BitAt(s, from, (i - 1) * width + j - 1)]
<1>1. r = [i \in 1 .. n |-> FromBits(bits(i))]
  BY DEF Regroup, BitAt
<1>2. r = [i \in 1 .. n |-> r[i]] /\ \A i \in 1 .. n : r[i] = FromBits(bits(i))
  BY <1>1
<1> HIDE DEF r
<1>3. Len(r) = n
  BY <1>2, FunctionLength
<1>4. ASSUME NEW i \in 1 .. n, NEW j \in 1 .. width
      PROVE  (i - 1) * width + j - 1 \in Nat
  <2>1. (i - 1) * width \in Nat
    <3>1. i - 1 \in Nat
      OBVIOUS
    <3> QED BY <3>1, ProductIsNat
  <2> DEFINE x == (i - 1) * width
  <2> HIDE DEF x
  <2>2. x + j - 1 \in Nat
    BY <2>1 DEF x
  <2> QED BY <2>2 DEF x
<1>5. ASSUME NEW k \in Nat, k < n * width PROVE BitAt(r, width, k) = BitAt(s, from, k)
  <2> DEFINE q == k \div width
             t == k % width
             i == q + 1
             j == t + 1
  <2>1. q \in Nat /\ t \in 0 .. width - 1 /\ k = width * q + t
    BY Division
  <2>2. i \in 1 .. n
    <3>1. ASSUME q >= n PROVE FALSE
      <4>1. (q - n) * width \in Nat
        <5>1. q - n \in Nat
          BY <2>1, <3>1
        <5> QED BY <5>1, ProductIsNat
      <4>2. width * q = n * width + (q - n) * width
        BY <2>1
      <4> DEFINE x == width * q
                 y == n * width
                 z == (q - n) * width
      <4>3. y \in Nat /\ x = y + z /\ z \in Nat /\ k = x + t /\ k < y
        BY <1>5, <2>1, <4>1, <4>2, ProductIsNat
      <4> HIDE DEF x, y, z, t
      <4> QED BY <2>1, <4>3
    <3> QED BY <2>1, <3>1
  <2>3. j \in 1 .. width /\ width - 1 - t = width - j /\ (i - 1) * width + j - 1 = k
    BY <2>1
  <2>4. BitAt(r, width, k) = (r[i] \div TwoTo[width - j]) % 2
    <3>1. BitAt(r, width, k) = Bit(r, width, k)
      BY <1>3, <1>5 DEF BitAt
    <3>2. Bit(r, width, k) = (r[i] \div TwoTo[width - 1 - t]) % 2
      BY DEF Bit
    <3> QED BY <2>3, <3>1, <3>2
  <2> HIDE DEF q, t, i, j
  <2> DEFINE b == bits(i)
  <2>5. b \in [1 .. width -> {0, 1}] /\ b[j] = BitAt(s, from, k)
    <3>1. \A l \in 1 .. width : b[l] \in {0, 1}
      BY <1>4, <2>2, BitIsBit
    <3> QED BY <2>3, <3>1
  <2>6. r[i] = FromBits(b)
    BY <1>2, <2>2
  <2> HIDE DEF b
  <2>7. b \in Seq({0, 1}) /\ Len(b) = width
    BY <2>5, FunctionIsSeq
  <2>8. (FromBits(b) \div TwoTo[width - j]) % 2 = b[j]
    BY <2>3, <2>5, <2>7, BitsBack
  <2> QED BY <2>4, <2>5, <2>6, <2>8
<1>6. r \in [1 .. n -> Nat]
  <2>1. ASSUME NEW i \in 1 .. n PROVE r[i] \in Nat
    <3> DEFINE b == bits(i)
    <3>1. b \in [1 .. width -> {0, 1}]
      BY <1>4, BitIsBit
    <3>2. r[i] = FromBits(b)
      BY <1>2
    <3> HIDE DEF b
    <3>3. Len(b) = width
      BY <3>1, FunctionIsSeq
    <3> QED BY <3>1, <3>2, <3>3, BitsBack
  <2> QED BY <1>2, <2>1
<1>7. r \in Seq(Nat)
  BY <1>6, FunctionIsSeq
<1> QED BY <1>2, <1>3, <1>5, <1>7 DEF r, Regrouped

\* What decodes is the encoding of what it decodes to.
LEMMA DecodedIsCanonical ==
  ASSUME NEW s \in Seq(Nat), Base32Decode(s) # NotDecoded
  PROVE  Base32Encode(Base32Decode(s)) = s
<1> DEFINE C == CharBits
           B == ByteBits
           L == Len(s)
           bits == Len(s) * CharBits
           left == bits % ByteBits
           n == bits \div ByteBits
           p == Base32Decode(s)
           e == Base32Encode(p)
<1>1. C \in Nat \ {0} /\ B \in Nat \ {0} /\ L \in Nat
  BY CidAssumption
<1>2. /\ \A i \in 1 .. L : ~(s[i] >= TwoTo[CharBits])
      /\ ~(left >= CharBits)
      /\ \A k \in bits - left .. bits - 1 : Bit(s, CharBits, k) # 1
      /\ p = Regroup(s, CharBits, ByteBits, n)
  BY DEF Base32Decode
<1>3. bits \in Nat
  BY <1>1, ProductIsNat
<1>4. n \in Nat /\ left \in 0 .. B - 1 /\ bits = B * n + left
  <2> HIDE DEF bits
  <2> QED BY <1>1, <1>3, Division
<1>5. left \in 0 .. C - 1
  <2> HIDE DEF left
  <2> QED BY <1>1, <1>2, <1>4
<1> HIDE DEF n, left, p
<1>6. Regrouped(p, s, C, B, n)
  BY <1>1, <1>2, <1>4, RegroupIs
<1>7. /\ Len(p) = n
      /\ \A k \in Nat : k < n * B => BitAt(p, B, k) = BitAt(s, C, k)
  BY <1>6 DEF Regrouped
<1>8. ASSUME NEW k \in Nat, k < bits PROVE BitAt(p, B, k) = Bit(s, C, k)
  <2>1. BitAt(s, C, k) = Bit(s, C, k)
    BY <1>8 DEF BitAt
  <2>2. CASE k < n * B
    BY <1>7, <2>1, <2>2
  <2>3. CASE ~(k < n * B)
    <3>1. BitAt(p, B, k) = 0
      BY <1>7, <2>3 DEF BitAt
    <3>2. Bit(s, C, k) # 1
      <4> DEFINE x == n * B
      <4>1. x \in Nat /\ bits = x + left
        BY <1>1, <1>4
      <4> HIDE DEF x, bits
      <4>2. k \in bits - left .. bits - 1
        BY <1>3, <1>5, <1>8, <2>3, <4>1 DEF x
      <4> QED BY <1>2, <4>2 DEF bits
    <3>3. BitAt(s, C, k) \in {0, 1}
      BY <1>1, BitIsBit
    <3> QED BY <2>1, <3>1, <3>2, <3>3
  <2> QED BY <2>2, <2>3
<1>9. (n * B + C - 1) \div C = L
  <2> DEFINE x == n * B
             r == C - 1 - left
  <2>1. r \in 0 .. C - 1
    BY <1>1, <1>5
  <2>2. x \in Nat /\ bits = x + left /\ bits = C * L
    BY <1>1, <1>4
  <2> HIDE DEF x, bits
  <2>3. x + C - 1 = C * L + r
    BY <1>1, <1>3, <1>5, <2>2
  <2> HIDE DEF r
  <2>4. (C * L + r) \div C = L
    BY <1>1, <2>1, Quotient
  <2> QED BY <2>3, <2>4 DEF x
<1>10. e = Regroup(p, B, C, L)
  BY <1>7, <1>9 DEF Base32Encode
<1>11. p \in Seq(Nat)
  BY <1>6 DEF Regrouped
<1>12. Regrouped(e, p, B, C, L)
  BY <1>1, <1>10, <1>11, RegroupIs
<1> HIDE DEF e
<1>13. ASSUME NEW i \in 1 .. L PROVE e[i] = s[i]
  <2> DEFINE b == [j \in 1 .. C |-> BitAt(p, B, (i - 1) * C + j - 1)]
  <2>1. e[i] = FromBits(b)
    BY <1>12 DEF Regrouped
  <2>2. ASSUME NEW j \in 1 .. C PROVE b[j] = (s[i] \div TwoTo[C - j]) % 2
    <3> DEFINE k == (i - 1) * C + j - 1
    <3>1. k = C * (i - 1) + (j - 1) /\ i - 1 \in Nat /\ j - 1 \in 0 .. C - 1
      BY <1>1
    <3>2. k \div C = i - 1 /\ k % C = j - 1
      <4> DEFINE q == i - 1
                 r == j - 1
      <4> HIDE DEF q, r, k
      <4>1. k = C * q + r /\ q \in Nat /\ r \in 0 .. C - 1
        BY <3>1 DEF q, r
      <4>2. (C * q + r) \div C = q /\ (C * q + r) % C = r
        BY <1>1, <4>1, Quotient
      <4> QED BY <4>1, <4>2 DEF q, r
    <3>3. k \in Nat /\ k < bits
      <4> DEFINE x == C * (i - 1)
                 y == C * (L - i)
      <4>1. L - i \in Nat
        BY <1>1
      <4>2. x \in Nat /\ y \in Nat /\ bits = x + C + y
        BY <1>1, <3>1, <4>1
      <4> HIDE DEF y, bits
      <4>3. k = x + (j - 1)
        BY <3>1
      <4> HIDE DEF x, k
      <4> QED BY <1>1, <4>2, <4>3
    <3> HIDE DEF k
    <3>4. b[j] = Bit(s, C, k)
      BY <1>8, <3>3 DEF k
    <3>5. Bit(s, C, k) = (s[(i - 1) + 1] \div TwoTo[C - 1 - (j - 1)]) % 2
      BY <3>2 DEF Bit
    <3>6. (i - 1) + 1 = i /\ C - 1 - (j - 1) = C - j
      BY <1>1
    <3> QED BY <3>4, <3>5, <3>6
  <2>3. b = [j \in 1 .. C |-> b[j]]
    OBVIOUS
  <2> HIDE DEF b
  <2>4. Len(b) = C
    BY <1>1, <2>3, FunctionLength
  <2>5. s[i] \in Nat
    BY <1>1, ElementOfSeq
  <2>6. s[i] < TwoTo[C]
    <3>1. TwoTo[C] \in Nat
      BY <1>1, TwoTos
    <3> QED BY <1>2, <2>5, <3>1
  <2> QED BY <1>1, <2>1, <2>2, <2>4, <2>5, <2>6, NumberOfBits
<1>14. e = [i \in 1 .. L |-> e[i]]
  BY <1>12 DEF Regrouped
<1>15. s = [i \in 1 .. L |-> s[i]]
  OBVIOUS
<1>16. e = s
  BY <1>13, <1>14, <1>15
<1> QED BY <1>16 DEF e, p

\* A CID with a payload is the CID of that payload.
LEMMA CidIsCanonical ==
  ASSUME NEW c \in Cids, Payload(c) # NotDecoded
  PROVE  c = CidOf(Payload(c)) /\ c[1] = CharB
<1> DEFINE s == SubSeq(c, 2, Len(c))
<1>1. c \in Seq(Nat)
  BY StringAssumption
<1>2. c # <<>> /\ c[1] = CharB /\ Payload(c) = Base32Decode(s)
  BY DEF Payload
<1>3. Len(c) \in Nat \ {0}
  BY <1>1, <1>2, EmptySeq
<1>4. s \in Seq(Nat) /\ Len(s) = Len(c) - 1 /\ \A i \in 1 .. Len(s) : s[i] = c[i + 1]
  <2>1. \A i \in 2 .. Len(c) : c[i] \in Nat
    BY <1>1, <1>3, ElementOfSeq
  <2>2. 2 \in Nat /\ 2 <= Len(c) + 1
    BY <1>3
  <2>3. /\ SubSeq(c, 2, Len(c)) \in Seq(Nat)
        /\ Len(SubSeq(c, 2, Len(c))) = IF 2 <= Len(c) THEN Len(c) - 2 + 1 ELSE 0
        /\ \A i \in 1 .. Len(c) - 2 + 1 : SubSeq(c, 2, Len(c))[i] = c[2 + i - 1]
    BY <1>1, <1>3, <2>1, <2>2, SubSeqProperties
  <2> DEFINE l == Len(c)
  <2> HIDE DEF l
  <2>4. l \in Nat \ {0}
    BY <1>3 DEF l
  <2>5. l - 2 + 1 = l - 1 /\ \A i \in 1 .. l - 1 : 2 + i - 1 = i + 1
    BY <2>4
  <2>6. (IF 2 <= l THEN l - 2 + 1 ELSE 0) = l - 1
    <3>1. CASE l = 1
      BY <3>1
    <3>2. CASE l # 1
      BY <2>4, <2>5, <3>2
    <3> QED BY <3>1, <3>2
  <2> HIDE DEF s
  <2> QED BY <2>3, <2>6, <2>5 DEF s, l
<1> HIDE DEF s
<1>5. s \in Seq(Nat)
  BY <1>4
<1>6. Base32Encode(Base32Decode(s)) = s
  BY <1>2, <1>4, DecodedIsCanonical
<1>7. CharB \in Nat
  <2>1. 1 \in 1 .. Len(c)
    BY <1>3
  <2> QED BY <1>1, <1>2, <2>1, ElementOfSeq
<1>8. <<CharB>> \o s = c
  <2> DEFINE h == <<CharB>>
  <2>1. h \in Seq(Nat) /\ Len(h) = 1 /\ h[1] = CharB
    BY <1>7
  <2> HIDE DEF h
  <2>2. /\ h \o s \in Seq(Nat) /\ Len(h \o s) = Len(h) + Len(s)
        /\ \A i \in 1 .. Len(h) + Len(s) :
             (h \o s)[i] = IF i <= Len(h) THEN h[i] ELSE s[i - Len(h)]
    BY <1>5, <2>1, ConcatProperties
  <2>3. Len(h \o s) = Len(c)
    BY <1>3, <1>4, <2>1, <2>2
  <2>4. ASSUME NEW i \in 1 .. Len(c) PROVE (h \o s)[i] = c[i]
    <3>1. CASE i = 1
      BY <1>2, <1>3, <1>4, <2>1, <2>2, <3>1
    <3>2. CASE i # 1
      <4>1. i - 1 \in 1 .. Len(s) /\ (i - 1) + 1 = i /\ ~(i <= 1)
            /\ i \in 1 .. Len(h) + Len(s)
        BY <1>3, <1>4, <2>1, <3>2
      <4>2. (h \o s)[i] = s[i - 1]
        BY <2>1, <2>2, <4>1
      <4> QED BY <1>4, <4>1, <4>2
    <3> QED BY <3>1, <3>2
  <2>5. h \o s = c
    <3> DEFINE t == h \o s
    <3>1. t \in Seq(Nat) /\ Len(t) = Len(c) /\ \A i \in 1 .. Len(c) : t[i] = c[i]
      BY <2>2, <2>3, <2>4
    <3> HIDE DEF t
    <3>2. t = c
      BY <1>1, <3>1, SeqEqual
    <3> QED BY <3>2 DEF t
  <2> QED BY <2>5 DEF h
<1> QED BY <1>2, <1>6, <1>8 DEF CidOf

\* The digest of a CID is what follows the four bytes that name the way it is made.
LEMMA DigestIsEncoded ==
  ASSUME NEW c \in Cids, EmbeddedSha256(c) # NotDecoded
  PROVE  c = CidOf(<<1, Raw, Sha256, DigestLen>> \o EmbeddedSha256(c))
<1> DEFINE p == Payload(c)
           front == SubSeq(p, 1, 4)
           back == SubSeq(p, 5, Len(p))
<1>1. /\ p # NotDecoded /\ Len(p) = 4 + DigestLen
      /\ front = <<1, Raw, Sha256, DigestLen>> /\ EmbeddedSha256(c) = back
  BY DEF EmbeddedSha256
<1>2. p \in Seq(Nat)
  <2> DEFINE s == SubSeq(c, 2, Len(c))
             n == (Len(s) * CharBits) \div ByteBits
  <2>1. p = Regroup(s, CharBits, ByteBits, n)
    BY <1>1 DEF Payload, Base32Decode
  <2>2. c \in Seq(Nat) /\ c # <<>>
    BY <1>1, StringAssumption DEF Payload
  <2>3. s \in Seq(Nat)
    BY <2>2, SubSeqProperties, ElementOfSeq, EmptySeq
  <2>4. CharBits \in Nat \ {0} /\ ByteBits \in Nat \ {0}
    BY CidAssumption
  <2> HIDE DEF s
  <2>5. n \in Nat
    <3> DEFINE x == Len(s) * CharBits
    <3>1. x \in Nat
      BY <2>3, <2>4, ProductIsNat
    <3> HIDE DEF x
    <3>2. x \div ByteBits \in Nat
      BY <2>4, <3>1, Division
    <3> QED BY <3>2 DEF x
  <2> HIDE DEF n, p
  <2> QED BY <2>1, <2>3, <2>4, <2>5, RegroupIs DEF Regrouped
<1> HIDE DEF p
<1>3. Len(p) \in Nat /\ 4 <= Len(p)
  BY <1>1, <1>2, CidAssumption
<1>4. \A i \in 1 .. Len(p) : p[i] \in Nat
  BY <1>2, ElementOfSeq
<1>5. front \in Seq(Nat) /\ Len(front) = 4 /\ \A i \in 1 .. 4 : front[i] = p[i]
  BY <1>3, <1>4, SubSeqProperties
<1>6. /\ back \in Seq(Nat) /\ Len(back) = Len(p) - 4
      /\ \A i \in 1 .. Len(p) - 4 : back[i] = p[4 + i]
  <2>1. \A i \in 5 .. Len(p) : p[i] \in Nat
    BY <1>3, <1>4
  <2>2. 5 \in Nat /\ 5 <= Len(p) + 1
    BY <1>3
  <2>3. /\ SubSeq(p, 5, Len(p)) \in Seq(Nat)
        /\ Len(SubSeq(p, 5, Len(p))) = IF 5 <= Len(p) THEN Len(p) - 5 + 1 ELSE 0
        /\ \A i \in 1 .. Len(p) - 5 + 1 : SubSeq(p, 5, Len(p))[i] = p[5 + i - 1]
    BY <1>3, <2>1, <2>2, SubSeqProperties
  <2> DEFINE l == Len(p)
  <2> HIDE DEF l
  <2>4. l \in Nat /\ 4 <= l
    BY <1>3 DEF l
  <2>5. l - 5 + 1 = l - 4 /\ \A i \in 1 .. l - 4 : 5 + i - 1 = 4 + i
    BY <2>4
  <2>6. (IF 5 <= l THEN l - 5 + 1 ELSE 0) = l - 4
    <3>1. CASE l = 4
      BY <3>1
    <3>2. CASE l # 4
      BY <2>4, <2>5, <3>2
    <3> QED BY <3>1, <3>2
  <2> HIDE DEF back
  <2> QED BY <2>3, <2>6, <2>5 DEF back, l
<1> HIDE DEF front, back
<1>7. /\ front \o back \in Seq(Nat) /\ Len(front \o back) = Len(front) + Len(back)
      /\ \A i \in 1 .. Len(front) + Len(back) :
           (front \o back)[i] = IF i <= Len(front) THEN front[i] ELSE back[i - Len(front)]
  BY <1>5, <1>6, ConcatProperties
<1> DEFINE whole == front \o back
<1>8. whole \in Seq(Nat) /\ Len(whole) = Len(p)
      /\ \A i \in 1 .. Len(p) : whole[i] = IF i <= 4 THEN front[i] ELSE back[i - 4]
  <2>1. Len(front) + Len(back) = Len(p) /\ Len(front) = 4
    BY <1>3, <1>5, <1>6
  <2> QED BY <1>7, <2>1
<1> HIDE DEF whole
<1>9. ASSUME NEW i \in 1 .. Len(p) PROVE whole[i] = p[i]
  <2>1. CASE i <= 4
    <3>1. i \in 1 .. 4
      BY <1>3, <2>1
    <3> QED BY <1>5, <1>8, <2>1, <3>1
  <2>2. CASE ~(i <= 4)
    <3>1. i - 4 \in 1 .. Len(p) - 4 /\ 4 + (i - 4) = i
      BY <1>3, <2>2
    <3> QED BY <1>6, <1>8, <2>2, <3>1
  <2> QED BY <2>1, <2>2
<1>10. whole = p
  BY <1>2, <1>8, <1>9, SeqEqual
<1>11. c = CidOf(p)
  BY <1>1, CidIsCanonical DEF p
<1> QED BY <1>1, <1>10, <1>11 DEF whole

-----------------------------------------------------------------------------
(* Answers with dynamic parts. *)

LEMMA AtBehind ==
  ASSUME NEW x \in Bytes, NEW y \in Bytes, NEW a \in Nat, NEW p \in Bytes, At(x, a, p)
  PROVE  At(y \o x, Len(y) + a, p)
<1>1. Len(x) \in Nat /\ Len(y) \in Nat /\ Len(p) \in Nat /\ a + Len(p) <= Len(x)
  BY BytesAre DEF At
<1>2. Len(y \o x) = Len(y) + Len(x)
  BY ConcatProperties DEF Bytes
<1>3. ASSUME NEW j \in 1 .. Len(p) PROVE (y \o x)[(Len(y) + a) + j] = p[j]
  <2> DEFINE i == (Len(y) + a) + j
  <2>1. i \in 1 .. Len(y) + Len(x) /\ ~(i <= Len(y)) /\ i - Len(y) = a + j
    BY <1>1
  <2> HIDE DEF i
  <2>2. (y \o x)[i] = x[i - Len(y)]
    BY <2>1, ConcatProperties DEF Bytes
  <2>3. x[a + j] = p[j]
    BY DEF At
  <2> QED BY <2>1, <2>2, <2>3 DEF i
<1>4. (Len(y) + a) + Len(p) <= Len(y \o x)
  BY <1>1, <1>2
<1> QED BY <1>3, <1>4 DEF At

\* What is put behind moves nothing.
LEMMA AtBefore ==
  ASSUME NEW x \in Bytes, NEW y \in Bytes, NEW a \in Nat, NEW p \in Bytes, At(x, a, p)
  PROVE  At(x \o y, a, p)
BY AtLonger DEF Bytes

\* Bytes behind bytes.
LEMMA JoinedBytes ==
  ASSUME NEW x \in Bytes, NEW y \in Bytes
  PROVE  x \o y \in Bytes /\ Len(x \o y) = Len(x) + Len(y)
BY ConcatProperties DEF Bytes

\* head's words, and tails that the words at `at' point to; place[k] bytes of tails
\* end with the k-th.
TupleOf(n, head, m, at, tails, place) ==
  /\ Len(head) = n /\ \A i \in 1 .. n : head[i] \in Bytes32
  /\ tails \in Seq(Bytes) /\ Len(tails) = m
  /\ Len(at) = m /\ \A k \in 1 .. m : at[k] \in 1 .. n
  /\ \A k \in 1 .. m, j \in 1 .. m : at[k] = at[j] => k = j
  /\ Sizes(place, [k \in 1 .. m |-> BytesTail(tails[k])], m)

\* The other words in their places, and the tails where the words at `at' say.
IsTuple(data, n, head, m, at, tails, place) ==
  /\ data \in Bytes /\ Len(data) = n * WordLen + place[m]
  /\ \A i \in 1 .. n :
       (\A k \in 1 .. m : at[k] # i) => At(data, (i - 1) * WordLen, head[i])
  /\ \A k \in 1 .. m :
       /\ At(data, (at[k] - 1) * WordLen, WordFromU128(n * WordLen + place[k - 1]))
       /\ At(data, n * WordLen + place[k - 1], BytesTail(tails[k]))

\* ReturnTuple lays a tuple out that way.
LEMMA TupleIs ==
  ASSUME NEW n \in Nat, NEW head, NEW m \in Nat, NEW at, NEW tails, NEW place,
         TupleOf(n, head, m, at, tails, place)
  PROVE  IsTuple(ReturnTuple(head, at, tails, 0), n, head, m, at, tails, place)
<1>1. /\ Len(head) = n /\ \A i \in 1 .. n : head[i] \in Bytes32
      /\ tails \in Seq(Bytes) /\ Len(tails) = m
      /\ Len(at) = m /\ \A k \in 1 .. m : at[k] \in 1 .. n
      /\ \A k \in 1 .. m, j \in 1 .. m : at[k] = at[j] => k = j
      /\ Sizes(place, [k \in 1 .. m |-> BytesTail(tails[k])], m)
  BY DEF TupleOf
<1> DEFINE ts == [k \in 1 .. m |-> BytesTail(tails[k])]
           Rule(v) == v = [k \in 0 .. m |-> IF k = 0 THEN 0
                                            ELSE v[k - 1] + Len(BytesTail(tails[k]))]
           before == CHOOSE v : Rule(v)
           Offset(k) == n * WordLen - 0 + before[k - 1]
           words == [i \in 1 .. n |->
                       IF \E k \in 1 .. m : at[k] = i
                       THEN WordFromU128(Offset(CHOOSE k \in 1 .. m : at[k] = i))
                       ELSE head[i]]
           data == ReturnTuple(head, at, tails, 0)
<1>2. WordLen \in Nat \ {0} /\ n * WordLen \in Nat
  BY ProductIsNat, Widths
<1>3. /\ place \in [0 .. m -> Nat] /\ place[0] = 0
      /\ \A k \in 1 .. m : place[k] = place[k - 1] + Len(BytesTail(tails[k]))
  BY <1>1 DEF Sizes
<1>4. data = Flat(words) \o Flat(ts)
  BY <1>1 DEF ReturnTuple
<1>5. Rule(place)
  <2>1. ASSUME NEW k \in 0 .. m
        PROVE  place[k] = IF k = 0 THEN 0 ELSE place[k - 1] + Len(BytesTail(tails[k]))
    <3>1. CASE k = 0
      BY <1>3, <3>1
    <3>2. CASE k # 0
      <4>1. k \in 1 .. m
        BY <3>2
      <4> QED BY <1>3, <3>2, <4>1
    <3> QED BY <3>1, <3>2
  <2> QED BY <1>3, <2>1
<1>6. Rule(before)
  <2> HIDE DEF Rule
  <2> QED BY <1>5
<1> HIDE DEF before
<1>7. \A k \in 0 .. m :
        before[k] = IF k = 0 THEN 0 ELSE before[k - 1] + Len(BytesTail(tails[k]))
  BY <1>6
<1> HIDE DEF Rule
<1>8. ASSUME NEW j \in 0 .. m PROVE before[j] = place[j]
  <2> DEFINE T == {k \in 0 .. m : before[k] = place[k]}
  <2>1. 0 \in T
    BY <1>3, <1>7
  <2>2. ASSUME NEW k \in 1 .. m, k - 1 \in T PROVE k \in T
    <3>1. before[k - 1] = place[k - 1] /\ k \in 0 .. m /\ k # 0
      BY <2>2
    <3>2. before[k] = before[k - 1] + Len(BytesTail(tails[k]))
      BY <1>7, <3>1
    <3> QED BY <1>3, <3>1, <3>2
  <2>3. 0 .. m \subseteq T
    <3> HIDE DEF T
    <3> QED BY <2>1, <2>2, UpTo
  <2> QED BY <2>3
<1>9. ASSUME NEW k \in 1 .. m
      PROVE  /\ n * WordLen + place[k - 1] \in Nat
             /\ words[at[k]] = WordFromU128(n * WordLen + place[k - 1])
  <2>1. k - 1 \in 0 .. m
    OBVIOUS
  <2>2. place[k - 1] \in Nat /\ before[k - 1] = place[k - 1]
    BY <1>3, <1>8, <2>1
  <2>3. (CHOOSE j \in 1 .. m : at[j] = at[k]) = k
    BY <1>1
  <2>4. words[at[k]] = WordFromU128(Offset(k))
    BY <1>1, <2>3
  <2>5. Offset(k) = n * WordLen + place[k - 1]
    BY <1>2, <2>2
  <2>6. n * WordLen + place[k - 1] \in Nat
    <3> DEFINE x == n * WordLen
               y == place[k - 1]
    <3>1. x \in Nat /\ y \in Nat
      BY <1>2, <2>2
    <3> HIDE DEF x, y
    <3>2. x + y \in Nat
      BY <3>1
    <3> QED BY <3>2 DEF x, y
  <2> QED BY <2>4, <2>5, <2>6
<1>10. ASSUME NEW i \in 1 .. n, \A k \in 1 .. m : at[k] # i PROVE words[i] = head[i]
  BY <1>10
<1>11. words = [i \in 1 .. n |-> words[i]]
  OBVIOUS
<1> HIDE DEF words, Offset
<1>12. ASSUME NEW i \in 1 .. n PROVE words[i] \in Bytes32
  <2>1. CASE \E k \in 1 .. m : at[k] = i
    <3>1. PICK k \in 1 .. m : at[k] = i
      BY <2>1
    <3> QED BY <1>9, <3>1, WordIsBytes DEF Bytes32
  <2>2. CASE \A k \in 1 .. m : at[k] # i
    BY <1>1, <1>10, <2>2
  <2> QED BY <2>1, <2>2
<1>13. words \in Seq(Bytes) /\ Len(words) = n /\ \A i \in 1 .. n : Len(words[i]) = WordLen
  <2>1. words \in [1 .. n -> Bytes] /\ \A i \in 1 .. n : Len(words[i]) = WordLen
    BY <1>11, <1>12 DEF Bytes32
  <2> QED BY <2>1, FunctionIsSeq
<1>14. \A k \in 1 .. m : ts[k] = BytesTail(tails[k]) /\ ts[k] \in Bytes /\ tails[k] \in Bytes
  BY <1>1, ElementOfSeq, TailIsBytes
<1>15. ts \in [1 .. m -> Bytes] /\ Sizes(place, ts, m)
  BY <1>1, <1>14
<1> HIDE DEF ts
<1>16. ts \in Seq(Bytes) /\ Len(ts) = m
  BY <1>15, FunctionIsSeq
<1>17. PICK size : Sizes(size, words, n)
  BY <1>13, SizesExist
<1>18. \A i \in 0 .. n : size[i] = i * WordLen
  <2>1. n \in 0 .. n
    OBVIOUS
  <2>2. /\ \A i \in 0 .. n : size[i] = i * WordLen
        /\ \A i \in 1 .. n : WordAt(Flat(words), i) = words[i]
        /\ n * WordLen <= Len(Flat(words))
    BY <1>13, <1>17, <2>1, HeadWords
  <2> QED BY <2>2
<1>19. /\ Flat(words) \in Bytes /\ Len(Flat(words)) = n * WordLen
       /\ \A i \in 1 .. n : At(Flat(words), (i - 1) * WordLen, words[i])
  <2>1. /\ Flat(words) \in Bytes /\ Len(Flat(words)) = size[n]
        /\ \A i \in 1 .. n : At(Flat(words), size[i - 1], words[i])
    BY <1>13, <1>17, FlatBytes
  <2>2. n \in 0 .. n /\ \A i \in 1 .. n : i - 1 \in 0 .. n
    OBVIOUS
  <2> QED BY <1>18, <2>1, <2>2
<1>20. /\ Flat(ts) \in Bytes /\ Len(Flat(ts)) = place[m]
       /\ \A k \in 1 .. m : At(Flat(ts), place[k - 1], ts[k])
  BY <1>15, <1>16, FlatBytes
<1> HIDE DEF data
<1>21. data \in Bytes /\ Len(data) = n * WordLen + place[m]
  BY <1>4, <1>19, <1>20, JoinedBytes
<1>22. ASSUME NEW i \in 1 .. n PROVE At(data, (i - 1) * WordLen, words[i])
  <2>1. (i - 1) * WordLen \in Nat
    BY <1>2
  <2> QED BY <1>4, <1>12, <1>19, <1>20, <2>1, AtBefore DEF Bytes32
<1>23. ASSUME NEW k \in 1 .. m PROVE At(data, n * WordLen + place[k - 1], BytesTail(tails[k]))
  <2>1. place[k - 1] \in Nat
    BY <1>3
  <2>2. At(Flat(words) \o Flat(ts), Len(Flat(words)) + place[k - 1], ts[k])
    BY <1>14, <1>19, <1>20, <2>1, AtBehind
  <2> QED BY <1>4, <1>14, <1>19, <2>2
<1>24. ASSUME NEW k \in 1 .. m
       PROVE  At(data, (at[k] - 1) * WordLen, WordFromU128(n * WordLen + place[k - 1]))
  BY <1>1, <1>9, <1>22
<1>25. ASSUME NEW i \in 1 .. n, \A k \in 1 .. m : at[k] # i
       PROVE  At(data, (i - 1) * WordLen, head[i])
  BY <1>10, <1>22, <1>25
<1> QED BY <1>21, <1>23, <1>24, <1>25 DEF data, IsTuple

\* What arrived of data.
LEMMA CutIs ==
  ASSUME NEW data \in Bytes, NEW c \in Nat
  PROVE  /\ Cut(data, c) \in Bytes
         /\ Len(Cut(data, c)) = IF c < Len(data) THEN c ELSE Len(data)
         /\ \A j \in 1 .. Len(Cut(data, c)) : Cut(data, c)[j] = data[j]
<1> DEFINE m == IF c < Len(data) THEN c ELSE Len(data)
           S == 0 .. Base - 1
           s == SubSeq(data, 1, m)
<1>1. Len(data) \in Nat
  BY BytesAre
<1>2. m \in 0 .. Len(data)
  BY <1>1
<1>3. Cut(data, c) = s
  BY DEF Cut
<1>4. Bytes = Seq(S)
  BY DEF Bytes
<1> HIDE DEF m, S
<1>5. \A i \in 1 .. m : data[i] \in S
  BY <1>1, <1>2, <1>4, ElementOfSeq
<1>6. s \in Seq(S) /\ Len(s) = m /\ \A j \in 1 .. m : s[j] = data[j]
  BY <1>1, <1>2, <1>5, SubSeqProperties
<1> HIDE DEF s
<1> QED BY <1>3, <1>4, <1>6 DEF m

\* What lies in front of the cut arrives.
LEMMA CutKeeps ==
  ASSUME NEW data \in Bytes, NEW c \in Nat, NEW o \in Nat, NEW p \in Bytes, At(data, o, p),
         o + Len(p) <= c
  PROVE  At(Cut(data, c), o, p)
<1> DEFINE s == Cut(data, c)
<1>1. Len(data) \in Nat /\ Len(p) \in Nat /\ o + Len(p) <= Len(data)
  BY BytesAre DEF At
<1>2. Len(s) = (IF c < Len(data) THEN c ELSE Len(data)) /\ \A j \in 1 .. Len(s) : s[j] = data[j]
  BY CutIs
<1> HIDE DEF s
<1>3. o + Len(p) <= Len(s) /\ Len(s) \in Nat
  BY <1>1, <1>2
<1>4. ASSUME NEW j \in 1 .. Len(p) PROVE s[o + j] = p[j]
  <2>1. o + j \in 1 .. Len(s)
    BY <1>1, <1>3
  <2> QED BY <1>2, <2>1 DEF At
<1> QED BY <1>3, <1>4 DEF At, s

\* AtIsSubSeq for bytes.
LEMMA BytesAt ==
  ASSUME NEW data \in Bytes, NEW o \in Nat, NEW p \in Bytes, At(data, o, p)
  PROVE  SubSeq(data, o + 1, o + Len(p)) = p
BY AtIsSubSeq DEF Bytes

\* getJob's answer, before anything is lost.
JobNumbers(a) ==
  <<WordLen, a.numbers[1], a.numbers[2], a.numbers[3], (Len(a.numbers) + a.gap) * WordLen>>
    \o SubSeq(a.numbers, 5, Len(a.numbers))

\* The 14 words of getJob's head: the outer offset, 12 numbers and inputHash's offset.
LEMMA JobNumbersAre ==
  ASSUME NEW a \in JobAnswers
  PROVE  /\ Len(a.numbers) = 13 /\ Len(JobNumbers(a)) = 14
         /\ JobNumbers(a)[1] = WordLen /\ JobNumbers(a)[5] = (13 + a.gap) * WordLen
         /\ \A i \in 1 .. 13 : i # 4 => JobNumbers(a)[i + 1] = a.numbers[i]
         /\ \A i \in 1 .. 13 : a.numbers[i] \in Uint256
<1> DEFINE head == <<WordLen, a.numbers[1], a.numbers[2], a.numbers[3], (13 + a.gap) * WordLen>>
           tail == SubSeq(a.numbers, 5, 13)
           num == head \o tail
<1>1. a.numbers \in Seq(Uint256) /\ Len(a.numbers) = 13 /\ a.gap \in Nat
  <2>1. Len(JobTypes) - 1 = 13
    BY DEF JobTypes
  <2> QED BY <2>1, JobAssumption
<1>2. \A i \in 1 .. 13 : a.numbers[i] \in Uint256
  BY <1>1, ElementOfSeq
<1>3. WordLen \in Nat /\ (13 + a.gap) * WordLen \in Nat
  BY <1>1, ProductIsNat, Widths
<1>4. JobNumbers(a) = num
  BY <1>1 DEF JobNumbers
<1>5. \A x \in Uint256 : x \in Nat
  BY NumberBack
<1>6. /\ head \in Seq(Nat) /\ Len(head) = 5 /\ head[1] = WordLen
      /\ head[5] = (13 + a.gap) * WordLen
      /\ \A i \in 1 .. 3 : head[i + 1] = a.numbers[i]
  <2>1. a.numbers[1] \in Nat /\ a.numbers[2] \in Nat /\ a.numbers[3] \in Nat
    BY <1>2, <1>5
  <2>2. head \in Seq(Nat) /\ Len(head) = 5
    BY <1>3, <2>1
  <2>3. \A i \in 1 .. 3 : i = 1 \/ i = 2 \/ i = 3
    OBVIOUS
  <2> QED BY <2>2, <2>3
<1>7. /\ tail \in Seq(Nat) /\ Len(tail) = 9
      /\ \A i \in 1 .. 9 : tail[i] = a.numbers[4 + i]
  <2>1. \A i \in 5 .. 13 : a.numbers[i] \in Nat
    BY <1>2, <1>5
  <2>2. /\ SubSeq(a.numbers, 5, 13) \in Seq(Nat)
        /\ Len(SubSeq(a.numbers, 5, 13)) = IF 5 <= 13 THEN 13 - 5 + 1 ELSE 0
        /\ \A i \in 1 .. 13 - 5 + 1 : SubSeq(a.numbers, 5, 13)[i] = a.numbers[5 + i - 1]
    BY <2>1, SubSeqProperties
  <2>3. 13 - 5 + 1 = 9 /\ \A i \in 1 .. 9 : 5 + i - 1 = 4 + i
    OBVIOUS
  <2> QED BY <2>2, <2>3
<1> HIDE DEF head, tail
<1>8. /\ Len(num) = 14
      /\ \A i \in 1 .. 14 : num[i] = IF i <= 5 THEN head[i] ELSE tail[i - 5]
  <2>1. /\ Len(head \o tail) = Len(head) + Len(tail)
        /\ \A i \in 1 .. Len(head) + Len(tail) :
             (head \o tail)[i] = IF i <= Len(head) THEN head[i] ELSE tail[i - Len(head)]
    BY <1>6, <1>7, ConcatProperties
  <2>2. 5 + 9 = 14
    OBVIOUS
  <2> QED BY <1>6, <1>7, <2>1, <2>2
<1> HIDE DEF num
<1>9. num[1] = head[1] /\ num[5] = head[5]
  BY <1>8
<1>10. ASSUME NEW i \in 1 .. 13, i # 4 PROVE num[i + 1] = a.numbers[i]
  <2>1. CASE i \in 1 .. 3
    BY <1>6, <1>8, <2>1
  <2>2. CASE i \in 5 .. 13
    <3>1. i + 1 \in 1 .. 14 /\ ~(i + 1 <= 5) /\ (i + 1) - 5 = i - 4 /\ i - 4 \in 1 .. 9
          /\ 4 + (i - 4) = i
      BY <2>2
    <3>2. num[i + 1] = tail[i - 4]
      BY <1>8, <3>1
    <3> QED BY <1>7, <3>1, <3>2
  <2> QED BY <1>10, <2>1, <2>2
<1> QED BY <1>1, <1>2, <1>4, <1>6, <1>8, <1>9, <1>10

\* Where getJob's answer has its head and its inputHash.
LEMMA JobLayout ==
  ASSUME NEW a \in JobAnswers
  PROVE  LET data == WholeJobAnswer(a)
             m == (13 + a.gap) * WordLen
         IN /\ data \in Bytes /\ m \in Nat /\ Len(data) <= MaxUsize
            /\ Len(data) = WordLen + m + Len(BytesTail(a.hash))
            /\ At(data, WordLen + m, BytesTail(a.hash))
            /\ \A i \in 1 .. 14 : /\ JobNumbers(a)[i] \in Uint256
                                  /\ At(data, (i - 1) * WordLen, WordFromU128(JobNumbers(a)[i]))
<1> DEFINE n == 13 + a.gap
           m == n * WordLen
           first == [i \in 1 .. 13 |-> WordFromU128(a.numbers[i])]
           more == [i \in 1 .. a.gap |-> WordFromU128(1)]
           words == first \o more
           tail == BytesTail(a.hash)
           place == [k \in 0 .. 1 |-> IF k = 0 THEN 0 ELSE Len(tail)]
           tuple == ReturnTuple(words, <<4>>, <<a.hash>>, 0)
           front == WordFromU128(WordLen)
           data == WholeJobAnswer(a)
           num == JobNumbers(a)
<1>1. a.gap \in Nat /\ a.hash \in Bytes /\ Len(a.numbers) = 13 /\ Len(data) <= MaxUsize
  BY JobAssumption, JobNumbersAre
<1>2. n \in Nat /\ m \in Nat /\ WordLen \in Nat
  BY <1>1, ProductIsNat, Widths
<1>3. data = front \o tuple
  BY <1>1 DEF WholeJobAnswer
<1>4. /\ num[1] = WordLen /\ num[5] = m
      /\ \A i \in 1 .. 13 : i # 4 => num[i + 1] = a.numbers[i]
      /\ \A i \in 1 .. 13 : a.numbers[i] \in Uint256
  BY JobNumbersAre
<1>5. /\ Len(words) = n /\ \A i \in 1 .. n : words[i] \in Bytes32
      /\ \A i \in 1 .. 13 : words[i] = WordFromU128(a.numbers[i])
  <2>1. \A i \in 1 .. 13 : first[i] \in Bytes32 /\ first[i] = WordFromU128(a.numbers[i])
    BY <1>4, NumberBack
  <2>2. \A i \in 1 .. a.gap : more[i] \in Bytes32
    <3>1. WordFromU128(1) \in Bytes32
      BY WordIsBytes DEF Bytes32
    <3> QED BY <3>1
  <2>3. first \in [1 .. 13 -> Bytes32] /\ more \in [1 .. a.gap -> Bytes32]
    BY <2>1, <2>2
  <2> HIDE DEF first, more
  <2>4. /\ first \in Seq(Bytes32) /\ Len(first) = 13
        /\ more \in Seq(Bytes32) /\ Len(more) = a.gap
    BY <1>1, <2>3, FunctionIsSeq
  <2>5. words \in Seq(Bytes32) /\ Len(words) = n
    <3>1. first \o more \in Seq(Bytes32) /\ Len(first \o more) = Len(first) + Len(more)
      BY <2>4, ConcatProperties
    <3> QED BY <2>4, <3>1
  <2>6. \A i \in 1 .. n : words[i] \in Bytes32
    BY <1>2, <2>5, ElementOfSeq
  <2>7. \A i \in 1 .. Len(first) + Len(more) :
          words[i] = IF i <= Len(first) THEN first[i] ELSE more[i - Len(first)]
    BY <2>4, ConcatProperties
  <2> HIDE DEF words
  <2>8. \A i \in 1 .. 13 : words[i] = first[i]
    <3>1. \A i \in 1 .. 13 : i \in 1 .. Len(first) + Len(more) /\ i <= Len(first)
      BY <1>1, <2>4
    <3> QED BY <2>7, <3>1
  <2> QED BY <2>1, <2>5, <2>6, <2>8
<1> HIDE DEF first, more, words, num
<1>6. tail \in Bytes /\ Len(tail) \in Nat
  BY <1>1, TailIsBytes, BytesAre
<1> DEFINE hashes == <<a.hash>>
           four == <<4>>
<1>7. Sizes(place, [k \in 1 .. 1 |-> BytesTail(hashes[k])], 1)
  BY <1>6 DEF Sizes
<1>8. place[0] = 0 /\ place[1] = Len(tail)
  OBVIOUS
<1>9. hashes \in Seq(Bytes) /\ Len(hashes) = 1 /\ hashes[1] = a.hash
      /\ Len(four) = 1 /\ four[1] = 4 /\ \A k \in 1 .. 1 : k = 1
  BY <1>1
<1>10. 4 \in 1 .. n /\ 1 \in Nat /\ 1 \in 1 .. 1
  BY <1>1
<1>11. tuple = ReturnTuple(words, four, hashes, 0)
  OBVIOUS
<1> HIDE DEF tail, place, hashes, four, n, tuple
<1>12. TupleOf(n, words, 1, four, hashes, place)
  BY <1>5, <1>7, <1>9, <1>10 DEF TupleOf
<1>13. /\ tuple \in Bytes /\ Len(tuple) = n * WordLen + place[1]
       /\ \A i \in 1 .. n :
            (\A k \in 1 .. 1 : four[k] # i) => At(tuple, (i - 1) * WordLen, words[i])
       /\ \A k \in 1 .. 1 :
            /\ At(tuple, (four[k] - 1) * WordLen, WordFromU128(n * WordLen + place[k - 1]))
            /\ At(tuple, n * WordLen + place[k - 1], BytesTail(hashes[k]))
  <2>1. IsTuple(tuple, n, words, 1, four, hashes, place)
    BY <1>2, <1>10, <1>11, <1>12, TupleIs
  <2> QED BY <2>1 DEF IsTuple
<1>14. At(tuple, m, tail) /\ At(tuple, 3 * WordLen, WordFromU128(m)) /\ Len(tuple) = m + Len(tail)
  <2>1. 1 - 1 = 0 /\ 4 - 1 = 3 /\ m + 0 = m
    BY <1>2
  <2> QED BY <1>8, <1>9, <1>10, <1>13, <2>1 DEF tail
<1>15. ASSUME NEW i \in 1 .. 13, i # 4
       PROVE  At(tuple, (i - 1) * WordLen, WordFromU128(a.numbers[i]))
  <2>1. i \in 1 .. n
    BY <1>1 DEF n
  <2> QED BY <1>5, <1>9, <1>13, <1>15, <2>1
<1> HIDE DEF m
<1>16. front \in Bytes /\ Len(front) = WordLen
  BY <1>2, WordIsBytes
<1>17. data \in Bytes /\ Len(data) = WordLen + m + Len(tail)
  <2>1. data \in Bytes /\ Len(data) = Len(front) + Len(tuple)
    BY <1>3, <1>13, <1>16, JoinedBytes
  <2> QED BY <1>2, <1>6, <1>14, <1>16, <2>1
<1>18. At(data, WordLen + m, tail)
  BY <1>2, <1>3, <1>6, <1>13, <1>14, <1>16, AtBehind
<1>19. WordLen \in Uint256 /\ m \in Uint256
  <2>1. WordLen <= MaxUsize /\ m <= MaxUsize
    <3>1. MaxUsize \in Nat
      BY PowersPositive, Widths DEF MaxUsize
    <3> QED BY <1>1, <1>2, <1>6, <1>17, <3>1
  <2> QED BY <1>2, <2>1, SmallEnough
<1>20. ASSUME NEW i \in 1 .. 14
       PROVE  num[i] \in Uint256 /\ At(data, (i - 1) * WordLen, WordFromU128(num[i]))
  <2>1. CASE i = 1
    <3>1. At((<<>> \o front) \o tuple, Len(<<>>), front)
      <4>1. <<>> \in Bytes
        BY EmptySeq DEF Bytes
      <4> QED BY <1>13, <1>16, <4>1, AtIn DEF Bytes
    <3>2. <<>> \o front = front /\ Len(<<>>) = 0 /\ (i - 1) * WordLen = 0
      BY <1>2, <1>16, <2>1, ConcatEmptySeq, EmptySeq DEF Bytes
    <3> QED BY <1>3, <1>4, <1>19, <2>1, <3>1, <3>2
  <2>2. CASE i # 1
    <3> DEFINE j == i - 1
               o == (j - 1) * WordLen
    <3>1. j \in 1 .. 13 /\ i = j + 1
      BY <2>2
    <3>2. o \in Nat /\ WordLen + o = (i - 1) * WordLen
      <4>1. j - 1 \in Nat /\ j \in Nat
        BY <3>1
      <4>2. o \in Nat
        BY <1>2, <4>1, ProductIsNat
      <4>3. WordLen + (j - 1) * WordLen = j * WordLen
        BY <1>2, <4>1
      <4> QED BY <4>2, <4>3
    <3>3. num[i] \in Uint256 /\ At(tuple, o, WordFromU128(num[i]))
      <4>1. CASE j = 4
        BY <1>4, <1>14, <1>19, <3>1, <4>1
      <4>2. CASE j # 4
        BY <1>4, <1>15, <3>1, <4>2
      <4> QED BY <4>1, <4>2
    <3>4. WordFromU128(num[i]) \in Bytes
      BY <3>3, NumberBack DEF Bytes32
    <3> HIDE DEF o
    <3>5. At(front \o tuple, Len(front) + o, WordFromU128(num[i]))
      BY <1>13, <1>16, <3>2, <3>3, <3>4, AtBehind
    <3> QED BY <1>3, <1>16, <3>2, <3>3, <3>5
  <2> QED BY <2>1, <2>2
<1> QED BY <1>1, <1>2, <1>17, <1>18, <1>20 DEF m, n, tail, num

\* What a dynamic value's tail begins with.
LEMMA TailAt ==
  ASSUME NEW data \in Bytes, NEW o \in Nat, NEW b \in Bytes, At(data, o, BytesTail(b))
  PROVE  /\ Len(b) \in Nat /\ WordFromU128(Len(b)) \in Bytes
         /\ Len(WordFromU128(Len(b))) = WordLen
         /\ At(data, o, WordFromU128(Len(b))) /\ At(data, o + WordLen, b)
         /\ o + WordLen + Len(b) <= Len(data)
<1> DEFINE S == 0 .. Base - 1
           w == WordFromU128(Len(b))
           z == Zeros(Padding(Len(b)))
<1>1. Len(b) \in Nat
  BY BytesAre
<1>2. w \in Bytes /\ Len(w) = WordLen /\ z \in Bytes
  BY <1>1, WordIsBytes, TailIsBytes, ZerosAreBytes
<1>3. BytesTail(b) = (w \o b) \o z
  BY DEF BytesTail
<1>4. Bytes = Seq(S)
  BY DEF Bytes
<1> HIDE DEF S, w, z
<1>5. w \o b \in Seq(S)
  BY <1>2, <1>4, ConcatProperties
<1>6. At(data, o, w \o b)
  BY <1>2, <1>3, <1>4, <1>5, AtParts
<1>7. At(data, o, w) /\ At(data, o + WordLen, b)
  BY <1>2, <1>4, <1>6, AtParts
<1>8. o + WordLen + Len(b) <= Len(data)
  BY <1>7 DEF At
<1> QED BY <1>1, <1>2, <1>7, <1>8 DEF w

\* A number that is small enough for a usize, in a word.
LEMMA UsizeWord ==
  ASSUME NEW n \in Nat, n <= MaxUsize
  PROVE  IsUsize(WordFromU128(n)) /\ Number(WordFromU128(n)) = n
<1>1. n \in Uint256
  BY SmallEnough
<1>2. n < Power[WordLen]
  BY <1>1, PowersPositive, Widths DEF Uint256
<1>3. n < Power[UsizeLen] /\ UsizeLen \in 0 .. WordLen
  BY PowersPositive, Widths DEF MaxUsize
<1> QED BY <1>1, <1>2, <1>3, NumberBack, FitsIsSmall DEF IsUsize

\* The words of an answer that ends early, as far as they arrived.
LEMMA CutWord ==
  ASSUME NEW data \in Bytes, NEW c \in Nat, NEW i \in Nat \ {0}, NEW n \in Uint256,
         At(data, (i - 1) * WordLen, WordFromU128(n)), i * WordLen <= c
  PROVE  WordAt(Cut(data, c), i) = WordFromU128(n) /\ i * WordLen <= Len(Cut(data, c))
<1> DEFINE o == (i - 1) * WordLen
           w == WordFromU128(n)
<1>1. WordLen \in Nat /\ i - 1 \in Nat
  BY Widths
<1>2. o \in Nat /\ o + WordLen = i * WordLen
  BY <1>1
<1>3. w \in Bytes32
  BY NumberBack
<1>4. w \in Bytes /\ Len(w) = WordLen
  BY <1>3 DEF Bytes32
<1> HIDE DEF o, w
<1>5. At(data, o, w)
  BY DEF o, w
<1>6. At(Cut(data, c), o, w)
  BY <1>2, <1>4, <1>5, CutKeeps
<1>7. Cut(data, c) \in Bytes
  BY CutIs
<1>8. At(Cut(data, c), (i - 1) * WordLen, w)
  BY <1>6 DEF o
<1>9. WordAt(Cut(data, c), i) = w /\ i * WordLen <= Len(Cut(data, c))
  BY <1>3, <1>7, <1>8, WordIsAt
<1> QED BY <1>9 DEF w

\* inputHash, when the words of the head arrived.
LEMMA HashIs ==
  ASSUME NEW a \in JobAnswers, a.cut >= 14 * WordLen
  PROVE  InputHash(JobAnswer(a)) =
           IF /\ Len(a.hash) = WordLen
              /\ a.cut >= (1 + Len(a.numbers) + a.gap) * WordLen + WordLen + Len(a.hash)
           THEN a.hash ELSE NoHash
<1> DEFINE W == WordLen
           m == (13 + a.gap) * WordLen
           d == WholeJobAnswer(a)
           c == JobAnswer(a)
           t == BytesTail(a.hash)
           h == Len(a.hash)
           num == JobNumbers(a)
           lenAt == W + m
           end == lenAt + 2 * W
           size == (1 + Len(a.numbers) + a.gap) * WordLen + WordLen + Len(a.hash)
           length == SubSeq(c, lenAt + 1, lenAt + WordLen)
           found == SubSeq(c, lenAt + WordLen + 1, end)
<1>1. a.hash \in Bytes /\ a.cut \in Nat /\ a.gap \in Nat /\ Len(d) <= MaxUsize
      /\ c = Cut(d, a.cut)
  BY JobAssumption DEF JobAnswer
<1>2. /\ d \in Bytes /\ m \in Nat /\ Len(d) = W + m + Len(t)
      /\ At(d, W + m, t)
  BY JobLayout
<1>3. num[1] = W /\ num[5] = m /\ Len(a.numbers) = 13
  BY JobNumbersAre
<1>4. /\ WordLen \in Nat \ {0} /\ W = WordLen
      /\ h \in Nat /\ Padding(h) \in Nat /\ Len(t) = W + h + Padding(h)
  BY <1>1, Widths, BytesAre, TailIsBytes
<1>5. size = lenAt + W + h
  <2> DEFINE g == 13 + a.gap
  <2>1. g \in Nat /\ 1 + Len(a.numbers) + a.gap = 1 + g
    BY <1>1, <1>3
  <2> HIDE DEF g
  <2>2. (1 + g) * WordLen = WordLen + g * WordLen
    BY <1>4, <2>1
  <2>3. g * WordLen = m
    BY DEF g
  <2> QED BY <2>1, <2>2, <2>3
<1>6. WordAt(c, 1) = WordFromU128(W) /\ WordAt(c, 5) = WordFromU128(m)
  <2>1. 1 * WordLen <= a.cut /\ 5 * WordLen <= a.cut
    BY <1>1, <1>4
  <2>2. /\ num[1] \in Uint256 /\ At(d, (1 - 1) * WordLen, WordFromU128(num[1]))
        /\ num[5] \in Uint256 /\ At(d, (5 - 1) * WordLen, WordFromU128(num[5]))
    BY JobLayout
  <2> HIDE DEF num, d, c, m, W
  <2>3. WordAt(c, 1) = WordFromU128(num[1])
    BY <1>1, <1>2, <2>1, <2>2, CutWord
  <2>4. WordAt(c, 5) = WordFromU128(num[5])
    BY <1>1, <1>2, <2>1, <2>2, CutWord
  <2> QED BY <1>3, <2>3, <2>4
<1> HIDE DEF num, d, c, m, t, h, size, W
<1>7. W + m <= MaxUsize /\ W <= MaxUsize /\ m <= MaxUsize /\ h <= MaxUsize /\ MaxUsize \in Nat
  <2>1. MaxUsize \in Nat
    BY PowersPositive, Widths DEF MaxUsize
  <2> QED BY <1>1, <1>2, <1>4, <2>1
<1>8. /\ IsUsize(WordAt(c, 1)) /\ Number(WordAt(c, 1)) = W
      /\ IsUsize(WordAt(c, 5)) /\ Number(WordAt(c, 5)) = m
  BY <1>2, <1>4, <1>6, <1>7, UsizeWord
<1>9. InputHash(c) =
        IF /\ end <= MaxUsize /\ end <= Len(c)
           /\ IsUsize(length) /\ Number(length) = WordLen
        THEN found ELSE NoHash
  BY <1>4, <1>8 DEF InputHash
<1>10. c \in Bytes /\ Len(c) = IF a.cut < Len(d) THEN a.cut ELSE Len(d)
  BY <1>1, <1>2, CutIs
<1>11. /\ WordFromU128(h) \in Bytes /\ Len(WordFromU128(h)) = WordLen
       /\ At(d, lenAt, WordFromU128(h)) /\ At(d, lenAt + WordLen, a.hash)
  <2>1. lenAt \in Nat
    BY <1>2, <1>4
  <2> HIDE DEF lenAt
  <2>2. At(d, lenAt, BytesTail(a.hash))
    BY <1>2 DEF lenAt, t
  <2> QED BY <1>1, <1>2, <2>1, <2>2, TailAt DEF h
<1>12. lenAt \in Nat /\ lenAt + WordLen \in Nat /\ end = (lenAt + WordLen) + WordLen
       /\ Len(d) = (lenAt + WordLen) + h + Padding(h)
  BY <1>2, <1>4
<1> HIDE DEF lenAt, end
<1>13. CASE end <= Len(c)
  <2>1. end <= a.cut /\ end <= Len(d) /\ end <= MaxUsize
    <3>1. Len(d) \in Nat
      BY <1>2, BytesAre
    <3>2. end \in Nat
      BY <1>4, <1>12
    <3> QED BY <1>1, <1>7, <1>10, <1>13, <3>1, <3>2
  <2>2. At(c, lenAt, WordFromU128(h))
    <3>1. lenAt + Len(WordFromU128(h)) <= a.cut
      BY <1>1, <1>4, <1>11, <1>12, <2>1
    <3> QED BY <1>1, <1>2, <1>11, <1>12, <3>1, CutKeeps
  <2>3. length = WordFromU128(h)
    BY <1>10, <1>11, <1>12, <2>2, BytesAt
  <2>4. IsUsize(length) /\ Number(length) = h
    BY <1>4, <1>7, <2>3, UsizeWord
  <2> HIDE DEF length
  <2>5. CASE h = WordLen
    <3>1. At(c, lenAt + WordLen, a.hash)
      <4>1. lenAt + WordLen + Len(a.hash) <= a.cut
        BY <1>12, <2>1, <2>5 DEF h
      <4> QED BY <1>1, <1>2, <1>11, <1>12, <4>1, CutKeeps
    <3>2. SubSeq(c, (lenAt + WordLen) + 1, (lenAt + WordLen) + Len(a.hash)) = a.hash
      BY <1>1, <1>10, <1>12, <3>1, BytesAt
    <3>3. found = a.hash
      BY <1>12, <2>5, <3>2 DEF h
    <3> HIDE DEF found
    <3>4. a.cut >= size
      BY <1>4, <1>5, <1>12, <2>1, <2>5
    <3> QED BY <1>9, <1>13, <2>1, <2>4, <2>5, <3>3, <3>4 DEF h, size, c
  <2>6. CASE h # WordLen
    <3> HIDE DEF found
    <3> QED BY <1>9, <2>4, <2>6 DEF h, c
  <2> QED BY <2>5, <2>6
<1>14. CASE ~(end <= Len(c))
  <2>1. InputHash(c) = NoHash
    BY <1>9, <1>14
  <2>2. ASSUME h = WordLen PROVE ~(a.cut >= size)
    <3>1. Len(d) = end + Padding(h) /\ size = end
      BY <1>4, <1>5, <1>12, <2>2
    <3> QED BY <1>1, <1>4, <1>10, <1>12, <1>14, <3>1
  <2> QED BY <2>1, <2>2 DEF h, size, c
<1> QED BY <1>13, <1>14

\* getJob's answer, as far as it arrived: read as it was meant, or refused.
LEMMA JobIsFaithful ==
  ASSUME NEW a \in JobAnswers
  PROVE  LET answer == DecodeJob(JobAnswer(a))
             size == (1 + Len(a.numbers) + a.gap) * WordLen + WordLen + Len(a.hash)
         IN /\ Faithful(JobTypes, JobNumbers(a), a.cut >= Len(JobTypes) * WordLen,
                        IF answer = AbiError THEN AbiError ELSE answer.head)
            /\ answer # AbiError =>
                 answer.inputHash =
                   IF Len(a.hash) = WordLen /\ a.cut >= size THEN a.hash ELSE NoHash
<1> DEFINE c == JobAnswer(a)
           d == WholeJobAnswer(a)
           m == (13 + a.gap) * WordLen
           head == Decode(JobTypes, c)
           answer == DecodeJob(c)
           num == JobNumbers(a)
<1>1. a.cut \in Nat /\ a.gap \in Nat /\ c = Cut(d, a.cut) /\ a.hash \in Bytes
      /\ (head # AbiError => answer # AbiError)
  BY JobAssumption DEF JobAnswer
<1>2. Len(JobTypes) = 14 /\ JobTypes \in Seq(Types)
  BY DEF JobTypes, Types
<1>3. d \in Bytes /\ m \in Nat /\ Len(d) = WordLen + m + Len(BytesTail(a.hash))
  BY JobLayout
<1>4. answer = IF head = AbiError THEN AbiError
               ELSE [head |-> head, inputHash |-> InputHash(c)]
  BY DEF DecodeJob
<1>5. 14 * WordLen <= Len(d) /\ WordLen \in Nat
  <2>1. Len(BytesTail(a.hash)) \in Nat
    BY <1>1, TailIsBytes, BytesAre
  <2> DEFINE x == a.gap * WordLen
  <2>2. WordLen \in Nat /\ m = 13 * WordLen + x
    BY <1>1, Widths
  <2>3. x \in Nat
    BY <1>1, <2>2, ProductIsNat
  <2> HIDE DEF m, x, d
  <2> QED BY <1>3, <2>1, <2>2, <2>3
<1> HIDE DEF m, d, c, num, head, answer
<1>6. c \in Bytes /\ Len(c) = IF a.cut < Len(d) THEN a.cut ELSE Len(d)
  BY <1>1, <1>3, CutIs
<1>7. CASE a.cut < 14 * WordLen
  <2>1. Len(c) = a.cut
    BY <1>1, <1>3, <1>5, <1>6, <1>7
  <2>2. head = AbiError
    <3>1. Len(c) < Len(JobTypes) * WordLen /\ Len(JobTypes) \in Nat /\ Len(c) \in Nat
      BY <1>1, <1>2, <1>7, <2>1
    <3> QED BY <3>1, ShortIsRefused DEF head
  <2> QED BY <1>1, <1>2, <1>4, <1>5, <1>7, <2>2 DEF Faithful, answer, c
<1>8. CASE a.cut >= 14 * WordLen
  <2>1. 14 * WordLen <= Len(c)
    BY <1>1, <1>3, <1>5, <1>6, <1>8
  <2>2. ASSUME NEW i \in 1 .. 14
        PROVE  num[i] \in Nat /\ num[i] < Power[WordLen] /\ WordAt(c, i) = WordFromU128(num[i])
    <3>1. num[i] \in Uint256 /\ At(d, (i - 1) * WordLen, WordFromU128(num[i]))
      BY JobLayout DEF num, d
    <3>2. i * WordLen <= a.cut
      <4> DEFINE x == (14 - i) * WordLen
                 y == i * WordLen
      <4>1. x \in Nat /\ y \in Nat
        BY <1>5, ProductIsNat
      <4>2. 14 * WordLen = y + x
        BY <1>5
      <4> HIDE DEF x, y
      <4>3. y <= a.cut
        BY <1>1, <1>5, <1>8, <4>1, <4>2
      <4> QED BY <4>3 DEF y
    <3>3. num[i] < Power[WordLen] /\ num[i] \in Nat
      BY <3>1, PowersPositive, Widths DEF Uint256
    <3> QED BY <1>1, <1>3, <3>1, <3>2, <3>3, CutWord
  <2>3. Faithful(JobTypes, num, TRUE, head)
    BY <1>2, <1>6, <2>1, <2>2, DecodedWords DEF head
  <2>4. (IF answer = AbiError THEN AbiError ELSE answer.head) = head
    BY <1>1, <1>4
  <2>5. answer # AbiError => answer.inputHash = InputHash(c)
    BY <1>4
  <2> QED BY <1>2, <1>8, <2>3, <2>4, <2>5, HashIs DEF Faithful, answer, c, num
<1> QED BY <1>1, <1>5, <1>7, <1>8

\* A dynamic value takes whole words.
LEMMA TailIsWords ==
  ASSUME NEW b \in Bytes
  PROVE  \E q \in Nat : Len(BytesTail(b)) = WordLen * q
<1> DEFINE n == Len(b)
           r == n % WordLen
           k == n \div WordLen
<1>1. WordLen \in Nat \ {0} /\ n \in Nat
  BY Widths, BytesAre
<1>2. Len(BytesTail(b)) = WordLen + n + Padding(n)
  BY TailIsBytes
<1>3. k \in Nat /\ r \in 0 .. WordLen - 1 /\ n = WordLen * k + r
  BY <1>1, Division
<1>4. Padding(n) = (WordLen - r) % WordLen
  BY DEF Padding
<1> HIDE DEF n, r, k
<1>5. CASE r = 0
  <2>1. (WordLen - r) % WordLen = 0
    <3>1. 1 \in Nat /\ 0 \in 0 .. WordLen - 1
      BY <1>1
    <3>2. (WordLen * 1 + 0) % WordLen = 0
      BY <1>1, <3>1, Quotient
    <3>3. WordLen * 1 + 0 = WordLen - r
      BY <1>1, <1>5
    <3> QED BY <3>2, <3>3
  <2>2. Len(BytesTail(b)) = WordLen * (k + 1)
    <3>1. WordLen * (k + 1) = WordLen * k + WordLen
      BY <1>1, <1>3
    <3> DEFINE x == WordLen * k
    <3>2. x \in Nat
      BY <1>1, <1>3, ProductIsNat
    <3>3. n = x + r /\ WordLen * (k + 1) = x + WordLen
      BY <1>3, <3>1
    <3> HIDE DEF x
    <3> QED BY <1>1, <1>2, <1>4, <1>5, <2>1, <3>2, <3>3
  <2>3. k + 1 \in Nat
    BY <1>3
  <2> QED BY <2>2, <2>3
<1>6. CASE r # 0
  <2>1. (WordLen - r) % WordLen = WordLen - r
    <3>1. WordLen - r \in 0 .. WordLen - 1 /\ 0 \in Nat
      BY <1>1, <1>3, <1>6
    <3>2. (WordLen * 0 + (WordLen - r)) % WordLen = WordLen - r
      BY <1>1, <3>1, Quotient
    <3>3. WordLen * 0 + (WordLen - r) = WordLen - r
      BY <1>1, <3>1
    <3> QED BY <3>2, <3>3
  <2>2. Len(BytesTail(b)) = WordLen * (k + 2)
    <3> DEFINE x == WordLen * k
               y == WordLen * (k + 2)
    <3>1. y = x + WordLen + WordLen
      BY <1>1, <1>3
    <3>2. x \in Nat
      BY <1>1, <1>3, ProductIsNat
    <3>3. n = x + r
      BY <1>3
    <3> HIDE DEF x, y
    <3>4. Len(BytesTail(b)) = y
      BY <1>1, <1>2, <1>3, <1>4, <2>1, <3>1, <3>2, <3>3
    <3> QED BY <3>4 DEF y
  <2>3. k + 2 \in Nat
    BY <1>3
  <2> QED BY <2>2, <2>3
<1> QED BY <1>5, <1>6

\* getModel's answer, before anything is lost: where the CID is, and the words read.
CidOffset(a) == 8 * WordLen + 3 * Len(BytesTail(a.name))

\* Where getModel's answer has the owner, the CID and the flag.
LEMMA ModelLayout ==
  ASSUME NEW a \in ModelAnswers
  PROVE  LET data == WholeModelAnswer(a)
             off == CidOffset(a)
         IN /\ data \in Bytes /\ off \in Nat /\ off >= 8 * WordLen /\ off % WordLen = 0
            /\ Len(data) = off + Len(BytesTail(a.cid)) /\ Len(data) <= MaxUsize
            /\ At(data, off, BytesTail(a.cid))
            /\ At(data, 0, WordFromU128(a.owner))
            /\ At(data, 4 * WordLen, WordFromU128(off))
            /\ At(data, 7 * WordLen, WordFromU128(a.active))
<1> DEFINE zero == WordFromU128(0)
           head == <<WordFromU128(a.owner), zero, zero, zero, zero, zero, zero,
                     WordFromU128(a.active)>>
           at == <<2, 3, 4, 5>>
           tails == <<a.name, a.name, a.name, a.cid>>
           L == Len(BytesTail(a.name))
           T == Len(BytesTail(a.cid))
           place == [k \in 0 .. 4 |-> IF k = 4 THEN 3 * L + T ELSE k * L]
           data == WholeModelAnswer(a)
           off == CidOffset(a)
<1>1. /\ a.owner \in Uint256 /\ a.active \in Uint256 /\ a.cid \in Bytes /\ a.name \in Bytes
      /\ Len(data) <= MaxUsize
  BY ModelAssumption
<1>2. data = ReturnTuple(head, at, tails, 0)
  BY DEF WholeModelAnswer
<1>3. L \in Nat /\ T \in Nat /\ WordLen \in Nat \ {0}
  BY <1>1, TailIsBytes, BytesAre, Widths
<1>4. off = 8 * WordLen + 3 * L
  BY DEF CidOffset
<1>5. off \in Nat /\ off >= 8 * WordLen
  <2> HIDE DEF L, off
  <2> QED BY <1>3, <1>4
<1>6. off % WordLen = 0
  <2>1. PICK q \in Nat : L = WordLen * q
    BY <1>1, TailIsWords
  <2>2. off = WordLen * (8 + 3 * q) + 0
    BY <1>3, <1>4, <2>1
  <2>3. 8 + 3 * q \in Nat /\ 0 \in 0 .. WordLen - 1
    BY <1>3
  <2> HIDE DEF off
  <2> QED BY <1>3, <2>2, <2>3, Quotient
<1>7. /\ Len(head) = 8 /\ head[1] = WordFromU128(a.owner) /\ head[8] = WordFromU128(a.active)
      /\ \A i \in 1 .. 8 : head[i] \in Bytes32
  <2>1. /\ WordFromU128(a.owner) \in Bytes32 /\ WordFromU128(a.active) \in Bytes32
        /\ zero \in Bytes32
    BY <1>1, NumberBack, WordIsBytes DEF Bytes32
  <2> HIDE DEF zero
  <2>2. \A i \in 1 .. 8 : i \in {1, 2, 3, 4, 5, 6, 7, 8}
    OBVIOUS
  <2> QED BY <2>1, <2>2
<1>8. /\ tails \in Seq(Bytes) /\ Len(tails) = 4
      /\ tails[1] = a.name /\ tails[2] = a.name /\ tails[3] = a.name /\ tails[4] = a.cid
  BY <1>1
<1>9. /\ Len(at) = 4 /\ at[1] = 2 /\ at[2] = 3 /\ at[3] = 4 /\ at[4] = 5
      /\ \A k \in 1 .. 4 : at[k] = k + 1
  OBVIOUS
<1>10. Sizes(place, [k \in 1 .. 4 |-> BytesTail(tails[k])], 4)
  <2> DEFINE ts == [k \in 1 .. 4 |-> BytesTail(tails[k])]
  <2>1. Len(ts[1]) = L /\ Len(ts[2]) = L /\ Len(ts[3]) = L /\ Len(ts[4]) = T
    BY <1>8
  <2> HIDE DEF L, T, ts
  <2>2. place[0] = 0 /\ place[1] = L /\ place[2] = 2 * L /\ place[3] = 3 * L
        /\ place[4] = 3 * L + T
    BY <1>3
  <2>3. place \in [0 .. 4 -> Nat]
    <3>1. \A k \in 0 .. 4 : place[k] \in Nat
      <4>1. \A k \in 0 .. 4 : k \in {0, 1, 2, 3, 4}
        OBVIOUS
      <4> HIDE DEF place
      <4> QED BY <1>3, <2>2, <4>1
    <3>2. place = [k \in 0 .. 4 |-> place[k]]
      OBVIOUS
    <3> HIDE DEF place
    <3> QED BY <3>1, <3>2
  <2> HIDE DEF place
  <2>4. ASSUME NEW k \in 1 .. 4 PROVE place[k] = place[k - 1] + Len(ts[k])
    <3>1. CASE k = 1
      BY <1>3, <2>1, <2>2, <3>1
    <3>2. CASE k = 2
      BY <1>3, <2>1, <2>2, <3>2
    <3>3. CASE k = 3
      BY <1>3, <2>1, <2>2, <3>3
    <3>4. CASE k = 4
      BY <1>3, <2>1, <2>2, <3>4
    <3> QED BY <3>1, <3>2, <3>3, <3>4
  <2>5. Sizes(place, ts, 4)
    BY <2>2, <2>3, <2>4 DEF Sizes
  <2> QED BY <2>5 DEF ts
<1>11. place[3] = 3 * L /\ place[4] = 3 * L + T
  BY <1>3
<1> HIDE DEF head, at, tails, place, data, off, L, T
<1>12. TupleOf(8, head, 4, at, tails, place)
  <2>1. \A k \in 1 .. 4 : at[k] \in 1 .. 8
    BY <1>9
  <2>2. \A k \in 1 .. 4, j \in 1 .. 4 : at[k] = at[j] => k = j
    BY <1>9
  <2> QED BY <1>7, <1>8, <1>9, <1>10, <2>1, <2>2 DEF TupleOf
<1>13. IsTuple(data, 8, head, 4, at, tails, place)
  BY <1>2, <1>12, TupleIs
<1>14. data \in Bytes /\ Len(data) = off + T
  <2>1. data \in Bytes /\ Len(data) = 8 * WordLen + place[4]
    BY <1>13 DEF IsTuple
  <2> QED BY <1>3, <1>4, <1>11, <2>1
<1>15. At(data, 0, head[1]) /\ At(data, 7 * WordLen, head[8])
  <2>1. \A k \in 1 .. 4 : at[k] # 1 /\ at[k] # 8
    BY <1>9
  <2>2. At(data, (1 - 1) * WordLen, head[1]) /\ At(data, (8 - 1) * WordLen, head[8])
    BY <1>13, <2>1 DEF IsTuple
  <2>3. (1 - 1) * WordLen = 0 /\ (8 - 1) * WordLen = 7 * WordLen
    BY <1>3
  <2> QED BY <2>2, <2>3
<1>16. At(data, 4 * WordLen, WordFromU128(off)) /\ At(data, off, BytesTail(a.cid))
  <2>1. 4 \in 1 .. 4 /\ 4 - 1 = 3
    OBVIOUS
  <2>2. /\ At(data, (at[4] - 1) * WordLen, WordFromU128(8 * WordLen + place[4 - 1]))
        /\ At(data, 8 * WordLen + place[4 - 1], BytesTail(tails[4]))
    BY <1>13, <2>1 DEF IsTuple
  <2>3. (at[4] - 1) * WordLen = 4 * WordLen /\ 8 * WordLen + place[4 - 1] = off
    BY <1>4, <1>9, <1>11, <2>1
  <2> QED BY <1>8, <2>2, <2>3
<1> QED BY <1>1, <1>5, <1>6, <1>7, <1>14, <1>15, <1>16 DEF data, off, T

\* getModel's answer, as far as it arrived: read as it was meant, or refused.
LEMMA ModelIsFaithful ==
  ASSUME NEW a \in ModelAnswers
  PROVE  LET good == /\ a.owner < Power[AddrLen] /\ a.active <= 1
                     /\ \A i \in 1 .. Len(a.cid) : a.cid[i] # NotUtf8
             size == 8 * WordLen + 3 * Len(BytesTail(a.name)) + WordLen + Len(a.cid)
         IN DecodeGetModel(ModelAnswer(a)) =
              IF good /\ a.cut >= size
              THEN [owner |-> Meant("address", a.owner), cid |-> a.cid,
                    active |-> a.active = 1]
              ELSE AbiError
<1> DEFINE d == WholeModelAnswer(a)
           c == ModelAnswer(a)
           off == CidOffset(a)
           h == Len(a.cid)
           utf8 == \A i \in 1 .. Len(a.cid) : a.cid[i] # NotUtf8
           good == a.owner < Power[AddrLen] /\ a.active <= 1 /\ utf8
           size == 8 * WordLen + 3 * Len(BytesTail(a.name)) + WordLen + Len(a.cid)
           answer == [owner |-> Meant("address", a.owner), cid |-> a.cid,
                      active |-> a.active = 1]
           result == DecodeGetModel(c)
           length == SubSeq(c, off + 1, off + WordLen)
           start == off + WordLen
           end == start + Number(length)
           cid == SubSeq(c, start + 1, end)
<1>1. /\ a.owner \in Uint256 /\ a.active \in Uint256 /\ a.cid \in Bytes /\ a.cut \in Nat
      /\ c = Cut(d, a.cut)
  BY ModelAssumption DEF ModelAnswer
<1>2. /\ d \in Bytes /\ off \in Nat /\ off >= 8 * WordLen /\ off % WordLen = 0
      /\ Len(d) = off + Len(BytesTail(a.cid)) /\ Len(d) <= MaxUsize
      /\ At(d, off, BytesTail(a.cid))
      /\ At(d, 0, WordFromU128(a.owner))
      /\ At(d, 4 * WordLen, WordFromU128(off))
      /\ At(d, 7 * WordLen, WordFromU128(a.active))
  BY ModelLayout
<1>3. WordLen \in Nat \ {0} /\ h \in Nat /\ Padding(h) \in Nat
      /\ Len(BytesTail(a.cid)) = WordLen + h + Padding(h)
  BY <1>1, Widths, BytesAre, TailIsBytes
<1>4. size = off + WordLen + h
  BY DEF CidOffset
<1> HIDE DEF d, c, off, h, size, utf8, answer
<1>5. c \in Bytes /\ Len(c) = IF a.cut < Len(d) THEN a.cut ELSE Len(d)
  BY <1>1, <1>2, CutIs
<1>6. Len(d) \in Nat /\ Len(c) \in Nat /\ MaxUsize \in Nat /\ size \in Nat
  <2>1. MaxUsize \in Nat
    BY PowersPositive, Widths DEF MaxUsize
  <2>2. Len(d) \in Nat /\ Len(c) \in Nat
    BY <1>2, <1>5, BytesAre
  <2> QED BY <1>2, <1>3, <1>4, <2>1, <2>2
<1>7. CASE a.cut < 8 * WordLen
  <2>1. ~(8 * WordLen <= Len(c)) /\ ~(a.cut >= size)
    BY <1>1, <1>2, <1>3, <1>4, <1>5, <1>6, <1>7
  <2>2. DecodeGetModel(c) = AbiError
    BY <2>1 DEF DecodeGetModel
  <2> QED BY <2>1, <2>2 DEF c, size
<1>8. CASE a.cut >= 8 * WordLen
  <2>1. 8 * WordLen <= Len(c)
    BY <1>1, <1>2, <1>3, <1>5, <1>6, <1>8
  <2>2. off <= MaxUsize /\ h <= MaxUsize
    BY <1>2, <1>3, <1>6
  <2>3. off \in Uint256
    BY <1>2, <2>2, SmallEnough
  <2>4. WordAt(c, 1) = WordFromU128(a.owner)
    <3>1. 1 \in Nat \ {0} /\ 1 * WordLen <= a.cut /\ (1 - 1) * WordLen = 0
      BY <1>1, <1>3, <1>8
    <3> QED BY <1>1, <1>2, <3>1, CutWord
  <2>5. WordAt(c, 5) = WordFromU128(off)
    <3>1. 5 \in Nat \ {0} /\ 5 * WordLen <= a.cut /\ (5 - 1) * WordLen = 4 * WordLen
      BY <1>1, <1>3, <1>8
    <3> QED BY <1>1, <1>2, <2>3, <3>1, CutWord
  <2>6. WordAt(c, 8) = WordFromU128(a.active)
    <3>1. 8 \in Nat \ {0} /\ 8 * WordLen <= a.cut /\ (8 - 1) * WordLen = 7 * WordLen
      BY <1>1, <1>3, <1>8
    <3> QED BY <1>1, <1>2, <3>1, CutWord
  <2>7. a.owner \in Nat /\ a.owner < Power[WordLen] /\ a.active \in Nat /\ a.active < Power[WordLen]
    BY <1>1, PowersPositive, Widths DEF Uint256
  <2>8. /\ Accepts("address", WordFromU128(a.owner)) <=> a.owner < Power[AddrLen]
        /\ a.owner < Power[AddrLen] =>
             Value("address", WordFromU128(a.owner)) = Meant("address", a.owner)
    <3>1. Accepts("address", WordFromU128(a.owner)) <=> a.owner < Power[AddrLen]
      <4>1. AddrLen \in 0 .. WordLen
        BY Widths
      <4>2. Fits(WordFromU128(a.owner), AddrLen) <=> a.owner < Power[AddrLen]
        BY <2>7, <4>1, FitsIsSmall
      <4> QED BY <4>2 DEF Accepts
    <3>2. "address" \in Types
      BY DEF Types
    <3> QED BY <2>7, <3>1, <3>2, ValueIsMeant
  <2>9. /\ Accepts("bool", WordFromU128(a.active)) <=> a.active <= 1
        /\ a.active <= 1 => Value("bool", WordFromU128(a.active)) = (a.active = 1)
    <3>1. "bool" \in Types
      BY DEF Types
    <3>2. Meant("bool", a.active) = IF a.active <= 1 THEN a.active = 1 ELSE AbiError
      BY DEF Meant
    <3>3. (a.active = 1) # AbiError
      BY ErrorIsNoValue
    <3> QED BY <2>7, <3>1, <3>2, <3>3, ValueIsMeant
  <2>10. IsUsize(WordFromU128(off)) /\ Number(WordFromU128(off)) = off
    BY <1>2, <2>2, UsizeWord
  <2> DEFINE fine == /\ start <= Len(c) /\ IsUsize(length) /\ end <= MaxUsize /\ end <= Len(c)
                     /\ \A i \in 1 .. Len(cid) : cid[i] # NotUtf8
             read == [owner |-> Value("address", WordFromU128(a.owner)), cid |-> cid,
                      active |-> Value("bool", WordFromU128(a.active))]
  <2>11. DecodeGetModel(c) =
           IF a.owner < Power[AddrLen] /\ a.active <= 1 /\ fine THEN read ELSE AbiError
    <3> DEFINE heads == /\ 8 * WordLen <= Len(c) /\ Accepts("address", WordAt(c, 1))
                        /\ IsUsize(WordAt(c, 5)) /\ Accepts("bool", WordAt(c, 8))
                        /\ off % WordLen = 0
               found == [owner |-> Value("address", WordAt(c, 1)), cid |-> cid,
                         active |-> Value("bool", WordAt(c, 8))]
    <3>1. Number(WordAt(c, 5)) = off
      BY <2>5, <2>10
    <3>2. DecodeGetModel(c) = IF heads /\ fine THEN found ELSE AbiError
      BY <3>1 DEF DecodeGetModel
    <3>3. found = read
      BY <2>4, <2>6
    <3>4. heads <=> a.owner < Power[AddrLen] /\ a.active <= 1
      BY <1>2, <2>1, <2>4, <2>5, <2>6, <2>8, <2>9, <2>10
    <3> HIDE DEF heads, found, fine, read
    <3> QED BY <3>2, <3>3, <3>4
  <2>12. /\ WordFromU128(h) \in Bytes /\ Len(WordFromU128(h)) = WordLen
         /\ At(d, off, WordFromU128(h)) /\ At(d, off + WordLen, a.cid)
    BY <1>1, <1>2, TailAt DEF h
  <2>13. start \in Nat /\ start = off + WordLen /\ size = start + h /\ size <= Len(d)
    BY <1>2, <1>3, <1>4
  <2>14. ASSUME start <= Len(c)
         PROVE  IsUsize(length) /\ Number(length) = h /\ end = size
    <3>1. off + Len(WordFromU128(h)) <= a.cut
      BY <1>1, <1>2, <1>3, <1>5, <1>6, <2>12, <2>13, <2>14
    <3>2. At(c, off, WordFromU128(h))
      BY <1>1, <1>2, <2>12, <3>1, CutKeeps
    <3>3. length = WordFromU128(h)
      BY <1>2, <1>5, <2>12, <3>2, BytesAt
    <3>4. IsUsize(length) /\ Number(length) = h
      BY <1>3, <2>2, <3>3, UsizeWord
    <3> QED BY <2>13, <3>4
  <2> HIDE DEF length, start, end
  <2>15. CASE a.cut >= size
    <3>1. size <= Len(c) /\ start <= Len(c)
      BY <1>1, <1>3, <1>5, <1>6, <2>13, <2>15
    <3>2. end = size /\ end <= MaxUsize
      BY <1>2, <1>6, <2>13, <2>14, <3>1
    <3>3. At(c, start, a.cid)
      <4>1. start + Len(a.cid) <= a.cut
        BY <2>13, <2>15 DEF h
      <4>2. At(d, start, a.cid)
        BY <2>12, <2>13
      <4> QED BY <1>1, <1>2, <2>13, <4>1, <4>2, CutKeeps
    <3>4. SubSeq(c, start + 1, start + Len(a.cid)) = a.cid
      BY <1>1, <1>5, <2>13, <3>3, BytesAt
    <3>5. cid = a.cid
      BY <2>13, <3>2, <3>4 DEF h
    <3> HIDE DEF cid
    <3>6. fine <=> utf8
      BY <2>14, <3>1, <3>2, <3>5 DEF utf8
    <3>7. good => read = answer
      BY <2>8, <2>9, <3>5 DEF answer
    <3> HIDE DEF fine, read
    <3> QED BY <2>11, <2>15, <3>6, <3>7 DEF c, size, answer, utf8
  <2>16. CASE ~(a.cut >= size)
    <3>1. ~(size <= Len(c))
      BY <1>1, <1>5, <1>6, <2>13, <2>16
    <3>2. ~fine
      BY <2>14, <3>1
    <3> HIDE DEF fine, read
    <3>3. DecodeGetModel(c) = AbiError
      BY <2>11, <3>2
    <3> QED BY <2>16, <3>3 DEF c, size
  <2> QED BY <2>15, <2>16
<1>9. a.cut < 8 * WordLen \/ a.cut >= 8 * WordLen
  BY <1>1, <1>3
<1> QED BY <1>7, <1>8, <1>9

-----------------------------------------------------------------------------
(* Theorems. *)

\* What a probe is, and that its outcome is what is done with it.
Handled ==
  /\ \/ \E a \in Answers : probe = [kind |-> "answer", of |-> a]
     \/ \E a \in JobAnswers : probe = [kind |-> "job", of |-> a]
     \/ \E a \in ModelAnswers : probe = [kind |-> "model", of |-> a]
     \/ \E c \in Calls : probe = [kind |-> "call", of |-> c]
     \/ \E w \in Proofs : probe = [kind |-> "proof", of |-> w]
     \/ \E c \in Cids : probe = [kind |-> "cid", of |-> c]
  /\ outcome = Pending \/ outcome = Handle(probe)

\* DataStep does with a probe what Handle says, once.
LEMMA ProbesAreHandled == DataSpec => []Handled
<1>1. DataInit => Handled
  BY DEF DataInit, Handled
<1>2. Handled /\ [DataStep]_dataVars => Handled'
  <2> SUFFICES ASSUME Handled, [DataStep]_dataVars PROVE Handled'
    OBVIOUS
  <2>1. probe' = probe
    BY DEF DataStep, dataVars
  <2>2. outcome' = outcome \/ outcome' = Handle(probe)
    BY DEF DataStep, dataVars
  <2>3. Handle(probe') = Handle(probe)
    BY <2>1
  <2> QED BY <2>1, <2>2, <2>3 DEF Handled
<1> QED BY <1>1, <1>2, PTL DEF DataSpec

\* getProvider, getRecord, getPin, getSlot, the oracle and the balances; getJob, with the
\* inputHash the executor binds its input to; getModel, with the CID of the weights.  For
\* every width and every answer, however much of it arrives, what a decoder gives is what
\* the contract returned, and what cannot be represented or did not arrive is refused.
THEOREM AnswersAreFaithful == DataSpec => []AnswersFaithful
<1>1. Handled => StaticFaithful
  <2> SUFFICES ASSUME Handled, Done("answer") PROVE StaticFaithful
    BY DEF StaticFaithful
  <2>1. PICK a \in Answers : probe = [kind |-> "answer", of |-> a]
    BY DEF Handled, Done
  <2>2. outcome = EthCall(a.types, AnswerDigits(a))
    BY <2>1 DEF Handled, Done, Handle
  <2>3. probe.of = a
    BY <2>1
  <2> QED BY <2>2, <2>3, AnswerIsFaithful DEF StaticFaithful
<1>2. Handled => JobFaithful
  <2> SUFFICES ASSUME Handled, Done("job") PROVE JobFaithful
    BY DEF JobFaithful
  <2>1. PICK a \in JobAnswers : probe = [kind |-> "job", of |-> a]
    BY DEF Handled, Done
  <2>2. outcome = DecodeJob(JobAnswer(a))
    BY <2>1 DEF Handled, Done, Handle
  <2>3. probe.of = a
    BY <2>1
  <2> QED BY <2>2, <2>3, JobIsFaithful DEF JobFaithful, JobNumbers
<1>3. Handled => ModelFaithful
  <2> SUFFICES ASSUME Handled, Done("model") PROVE ModelFaithful
    BY DEF ModelFaithful
  <2>1. PICK a \in ModelAnswers : probe = [kind |-> "model", of |-> a]
    BY DEF Handled, Done
  <2>2. outcome = DecodeGetModel(ModelAnswer(a))
    BY <2>1 DEF Handled, Done, Handle
  <2>3. probe.of = a
    BY <2>1
  <2> QED BY <2>2, <2>3, ModelIsFaithful DEF ModelFaithful
<1>4. Handled => AnswersFaithful
  BY <1>1, <1>2, <1>3 DEF AnswersFaithful
<1> QED BY <1>4, ProbesAreHandled, PTL

\* Every builder of selectors.rs's calls, for every width and all arguments: the contract
\* reads what the agent meant, and a reveal opens the commitment to its own output and
\* nonce and no other.
THEOREM CallsAreReadBack == DataSpec => []CallsReadBack
<1>1. Handled => ArgumentsReadBack
  <2> SUFFICES ASSUME Handled, Done("call") PROVE outcome = probe.of.args
    BY DEF ArgumentsReadBack
  <2>1. PICK c \in Calls : probe = [kind |-> "call", of |-> c]
    BY DEF Handled, Done
  <2>2. probe.of = c /\ probe.kind = "call"
    BY <2>1
  <2>3. outcome = ReadCall(Transmitted(Build(c.selector, c.args)))
    BY <2>2 DEF Handled, Done, Handle
  <2> QED BY <2>2, <2>3, CallIsRead
<1>2. Handled => ProofsOpen
  <2> SUFFICES ASSUME Handled, Done("proof")
               PROVE  outcome <=> probe.of.of = [output |-> probe.of.output,
                                                 nonce |-> probe.of.nonce]
    BY DEF ProofsOpen
  <2>1. PICK w \in Proofs : probe = [kind |-> "proof", of |-> w]
    BY DEF Handled, Done
  <2>2. probe.of = w /\ probe.kind = "proof"
    BY <2>1
  <2>3. outcome = VerifyCommitment(Commitment(w.of.output, w.of.nonce),
                                   ProofData(w.output, w.nonce))
    BY <2>2 DEF Handled, Done, Handle
  <2> QED BY <2>2, <2>3, ProofOpensItsOwn
<1>3. Handled => CallsReadBack
  BY <1>1, <1>2 DEF CallsReadBack
<1> QED BY <1>3, ProbesAreHandled, PTL

\* validate_cid and cid_embedded_sha256, for every string and every width of a letter and
\* a byte: an accepted ipfsCID is alphanumeric, a base32 one is the only spelling of its
\* bytes, and the digest that provisioning checks the download against is the one the CID
\* encodes.
THEOREM CidsAreCanonical == DataSpec => []CidsCanonical
<1>1. Handled => CidsCanonical
  <2> SUFFICES ASSUME Handled, Done("cid") PROVE CidsCanonical
    BY DEF CidsCanonical
  <2>1. PICK c \in Cids : probe = [kind |-> "cid", of |-> c]
    BY DEF Handled, Done
  <2>2. outcome = [allowed |-> CidAllowed(c), sha256 |-> EmbeddedSha256(c)]
    BY <2>1 DEF Handled, Done, Handle
  <2>3. outcome.allowed = CidAllowed(c) /\ outcome.sha256 = EmbeddedSha256(c) /\ probe.of = c
    BY <2>1, <2>2
  <2>4. CidAllowed(c) => \A i \in 1 .. Len(c) : c[i] \in Alphanumeric
    BY DEF CidAllowed
  <2>5. CidAllowed(c) /\ c[1] = CharB => c = CidOf(Payload(c))
    <3>1. CidAllowed(c) /\ c[1] = CharB => Payload(c) # NotDecoded
      BY CidAssumption DEF CidAllowed, ValidCid
    <3> QED BY <3>1, CidIsCanonical
  <2>6. EmbeddedSha256(c) # NotDecoded =>
          c = CidOf(<<1, Raw, Sha256, DigestLen>> \o EmbeddedSha256(c))
    BY DigestIsEncoded
  <2> QED BY <2>3, <2>4, <2>5, <2>6 DEF CidsCanonical
<1> QED BY <1>1, ProbesAreHandled, PTL
=============================================================================
