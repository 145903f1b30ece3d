-------------------------- MODULE Earnings_proofs --------------------------
(***************************************************************************)
(* What TLAPS proves of module Earnings, for every threshold, cap and      *)
(* sequence of accruals.                                                   *)
(***************************************************************************)
EXTENDS Earnings, FiniteSetTheorems, TLAPS

\* All sweeps have the same calldata, so the queue holds one claim from the first
\* sweep on: the cap never bites.
Claim(status, tx) ==
  [id |-> 0, intent |-> "claimRewards", calldata |-> ClaimCall, key |-> NoKey,
   status |-> status, tx |-> tx]
Queued(e) == [entries |-> {e}, nextId |-> 1]
OneClaim ==
  /\ q \in {EmptyQueue, Queued(Claim("pending", NoTx)), Queued(Claim("submitted", 0))}
  /\ receipts \subseteq {0}
  /\ receipts # {} => q # EmptyQueue

\* No claim has ever been signed.
NeverSigned == q # Queued(Claim("submitted", 0)) /\ receipts = {}

\* So nothing was swept: a balance that was read has not fallen since.
NothingSwept ==
  NeverSigned =>
    /\ net = 0
    /\ reading # NoReading => reading <= claimable
    /\ q # EmptyQueue => claimable >= Threshold

EInv == TypeOK /\ OneClaim /\ NothingSwept

-----------------------------------------------------------------------------
(* The queue of one claim. *)

\* A first claim is queued and never evicted.
LEMMA FirstClaim == Enqueue(EmptyQueue, "claimRewards", ClaimCall) = Queued(Claim("pending", NoTx))
<1> DEFINE c == Claim("pending", NoTx)
<1>1. NewEntry(0, "claimRewards", ClaimCall, NoKey) = c
  BY DEF NewEntry, Claim
<1>2. Evict({c}) = {c}
  BY DEF Evict, Claim
<1> HIDE DEF c
<1>3. Push(EmptyQueue, "claimRewards", ClaimCall, NoKey) = [entries |-> {c}, nextId |-> 1]
  BY <1>1, <1>2 DEF Push, EmptyQueue
<1> QED BY <1>3 DEF Enqueue, SameCalldata, EmptyQueue, Queued, c

\* Every later one finds it.
LEMMA LaterClaims ==
  ASSUME NEW status, NEW tx
  PROVE  Enqueue(Queued(Claim(status, tx)), "claimRewards", ClaimCall)
           = Queued(Claim(status, tx))
<1> DEFINE c == Claim(status, tx)
<1>1. c \in SameCalldata(Queued(c), ClaimCall)
  BY DEF SameCalldata, Queued, Claim
<1> QED BY <1>1 DEF Enqueue

\* A report of the claim marks it.
LEMMA Reported ==
  ASSUME NEW status, NEW tx
  PROVE  Observe(Queued(Claim(status, tx)), 0, 0) = Queued(Claim("submitted", 0))
<1> DEFINE c == Claim(status, tx)
           Q == Queued(c)
<1>1. Known(Q, 0)
  BY DEF Known, Queued, Claim
<1>2. EntryOf(Q, 0) = c
  <2>1. {e \in Q.entries : e.id = 0} = {c}
    BY DEF Queued, Claim
  <2>2. c.id <= c.id
    BY DEF Claim
  <2> HIDE DEF c
  <2>3. First({c}) \in {c}
    BY <2>2 DEF First
  <2> QED BY <2>1, <2>3 DEF EntryOf
<1>3. [c EXCEPT !.status = "submitted", !.tx = 0] = Claim("submitted", 0)
  <2> DEFINE d == [c EXCEPT !.status = "submitted", !.tx = 0]
             F == {"id", "intent", "calldata", "key", "status", "tx"}
  <2>1. d = [f \in F |-> IF f = "tx" THEN 0 ELSE IF f = "status" THEN "submitted" ELSE c[f]]
    BY DEF Claim
  <2>2. Claim("submitted", 0)
          = [f \in F |-> IF f = "tx" THEN 0 ELSE IF f = "status" THEN "submitted" ELSE c[f]]
    BY DEF Claim
  <2> QED BY <2>1, <2>2
<1>4. Replace(Q, c, Claim("submitted", 0)) = Queued(Claim("submitted", 0))
  BY DEF Replace, Queued
<1> QED BY <1>1, <1>2, <1>3, <1>4 DEF Observe

\* The three queues a sweep can leave behind differ.
LEMMA Distinct ==
  /\ EmptyQueue # Queued(Claim("pending", NoTx))
  /\ EmptyQueue # Queued(Claim("submitted", 0))
  /\ Queued(Claim("pending", NoTx)) # Queued(Claim("submitted", 0))
<1>1. EmptyQueue.entries = {} /\ \A e : Queued(e).entries = {e}
  BY DEF EmptyQueue, Queued
<1>2. Claim("pending", NoTx).status = "pending" /\ Claim("submitted", 0).status = "submitted"
  BY DEF Claim
<1> QED BY <1>1, <1>2

-----------------------------------------------------------------------------
(* The invariant. *)

\* A queue of at most one claim has the type that TypeOK asks for.
LEMMA OneClaimType ==
  ASSUME NEW Q \in {EmptyQueue, Queued(Claim("pending", NoTx)), Queued(Claim("submitted", 0))}
  PROVE  Q.nextId \in 0 .. 1 /\ Cardinality(Q.entries) = Q.nextId
<1>1. EmptyQueue.nextId = 0 /\ Cardinality(EmptyQueue.entries) = 0
  BY FS_EmptySet DEF EmptyQueue
<1>2. \A e : Queued(e).nextId = 1 /\ Cardinality(Queued(e).entries) = 1
  BY FS_Singleton DEF Queued
<1> QED BY <1>1, <1>2

\* A tick of the poller queues a claim only for a balance that is still there.
LEMMA PollerStep == EInv /\ Poller => EInv'
<1> SUFFICES ASSUME EInv, Poller PROVE EInv'
  OBVIOUS
<1>1. UNCHANGED <<claimable, earned, net, receipts>>
  BY DEF Poller, ReadBalance, Decide
<1>2. reading' \in Nat \cup {NoReading} /\ inFlight' \in BOOLEAN
  BY DEF Poller, ReadBalance, Decide, EInv, TypeOK
<1>3. CASE q' = q
  <2>1. reading' \in {NoReading, claimable}
    BY DEF Poller, ReadBalance, Decide
  <2>2. TypeOK' /\ OneClaim'
    BY <1>1, <1>2, <1>3 DEF EInv, TypeOK, OneClaim
  <2>3. NothingSwept'
    BY <1>1, <1>3, <2>1 DEF EInv, TypeOK, NothingSwept, NeverSigned
  <2> QED BY <2>2, <2>3 DEF EInv
<1>4. CASE PlansClaim /\ reading # NoReading /\ reading' = NoReading
           /\ q' = Enqueue(q, "claimRewards", ClaimCall)
  <2>1. q' = IF q = EmptyQueue THEN Queued(Claim("pending", NoTx)) ELSE q
    BY <1>4, FirstClaim, LaterClaims DEF EInv, OneClaim
  <2>2. OneClaim'
    BY <1>1, <2>1 DEF EInv, OneClaim
  <2>3. NothingSwept'
    <3>1. NeverSigned' => NeverSigned
      BY <1>1, <2>1, Distinct DEF NeverSigned
    <3>2. NeverSigned => reading <= claimable /\ claimable >= Threshold
      BY <1>4, EarningsAssumption DEF EInv, TypeOK, NothingSwept, PlansClaim
    <3> QED BY <1>1, <1>4, <3>1, <3>2 DEF EInv, NothingSwept
  <2> QED BY <1>1, <1>2, <2>2, <2>3, OneClaimType DEF EInv, TypeOK, OneClaim
<1> QED BY <1>3, <1>4 DEF Poller, ReadBalance, Decide

\* A signature ends what is known of the balance.
LEMMA SurfaceStep == EInv /\ Surface => EInv'
<1> SUFFICES ASSUME EInv, Surface PROVE EInv'
  OBVIOUS
<1>1. ASSUME NEW e \in q.entries, Sign(e) PROVE EInv'
  <2>1. q \in {Queued(Claim("pending", NoTx)), Queued(Claim("submitted", 0))} /\ e.id = 0
    BY <1>1 DEF EInv, OneClaim, EmptyQueue, Queued, Claim
  <2>2. receipts' = {0} /\ UNCHANGED <<claimable, earned, q, inFlight, reading>>
        /\ net' = net + 1
    BY <1>1, <2>1 DEF Sign, EInv, OneClaim
  <2>3. OneClaim'
    BY <2>1, <2>2, Distinct DEF OneClaim
  <2>4. TypeOK'
    BY <2>2 DEF EInv, TypeOK
  <2>5. NothingSwept'
    BY <2>2 DEF NothingSwept, NeverSigned
  <2> QED BY <2>3, <2>4, <2>5 DEF EInv
<1>2. ASSUME NEW id \in receipts, Report(id) PROVE EInv'
  <2>1. id = 0 /\ q \in {Queued(Claim("pending", NoTx)), Queued(Claim("submitted", 0))}
    BY <1>2 DEF EInv, OneClaim
  <2>2. q' = Queued(Claim("submitted", 0))
    BY <1>2, <2>1, Reported DEF Report
  <2>3. receipts' \subseteq {0} /\ UNCHANGED <<claimable, earned, net, inFlight, reading>>
    BY <1>2 DEF Report, EInv, OneClaim
  <2>4. OneClaim'
    BY <2>2, <2>3, Distinct DEF OneClaim
  <2> QED BY <2>2, <2>3, <2>4, OneClaimType DEF EInv, TypeOK, OneClaim, NothingSwept, NeverSigned
<1> QED BY <1>1, <1>2 DEF Surface

\* The contract sweeps only what was signed for.
LEMMA ContractStep == EInv /\ (Sweep \/ Accrue) => EInv'
<1> SUFFICES ASSUME EInv, Sweep \/ Accrue PROVE EInv'
  OBVIOUS
<1>1. UNCHANGED <<receipts, q, inFlight, reading>>
  BY DEF Sweep, Accrue
<1>2. CASE Sweep
  <2>1. net > 0 /\ net' = net - 1 /\ claimable' = 0 /\ earned' = earned /\ ~NeverSigned
    BY <1>2 DEF Sweep, EInv, NothingSwept, TypeOK
  <2> QED BY <1>1, <2>1 DEF EInv, TypeOK, OneClaim, NothingSwept, NeverSigned
<1>3. CASE Accrue
  <2>1. PICK wei \in 1 .. MaxEarned - earned :
          claimable' = claimable + wei /\ earned' = earned + wei /\ net' = net
    BY <1>3 DEF Accrue
  <2>2. wei \in Nat
    BY EarningsAssumption DEF EInv, TypeOK
  <2>3. TypeOK' /\ OneClaim'
    BY <1>1, <2>1, <2>2 DEF EInv, TypeOK, OneClaim
  <2>4. claimable' \in Nat /\ claimable' >= claimable
    BY <2>1, <2>2 DEF EInv, TypeOK
  <2>5. NothingSwept'
    BY <1>1, <2>1, <2>4, EarningsAssumption DEF EInv, TypeOK, NothingSwept, NeverSigned
  <2> QED BY <2>3, <2>5 DEF EInv
<1> QED BY <1>2, <1>3

\* The invariant holds always.
LEMMA Invariance == Spec => []EInv
<1>1. Init => EInv
  <2> SUFFICES ASSUME Init PROVE EInv
    OBVIOUS
  <2>1. OneClaim /\ NothingSwept
    BY DEF Init, OneClaim, NothingSwept
  <2>2. q.nextId \in 0 .. 1 /\ Cardinality(q.entries) = q.nextId
    BY <2>1, OneClaimType DEF OneClaim
  <2>3. /\ claimable \in Nat /\ earned \in Nat /\ claimable <= earned
        /\ net \in Nat /\ receipts \subseteq {0}
        /\ reading \in Nat \cup {NoReading}
    BY DEF Init
  <2>4. inFlight \in BOOLEAN
    BY DEF Init
  <2> QED BY <2>1, <2>2, <2>3, <2>4 DEF EInv, TypeOK
<1>2. EInv /\ [Next]_vars => EInv'
  <2>1. EInv /\ UNCHANGED vars => EInv'
    BY DEF vars, EInv, TypeOK, OneClaim, NothingSwept, NeverSigned
  <2> QED BY <2>1, PollerStep, SurfaceStep, ContractStep DEF Next
<1> QED BY <1>1, <1>2, PTL DEF Spec

\* Every variable keeps its type, and all sweeps share one entry of the queue.
THEOREM TypeCorrect == Spec => []TypeOK
<1>1. EInv => TypeOK
  BY DEF EInv
<1> QED BY <1>1, Invariance, PTL

\* A claim that waits to be signed is worth its gas, however long it waits.
THEOREM DustIsNeverClaimed == Spec => []DustNeverClaimed
<1>1. EInv => DustNeverClaimed
  <2> SUFFICES ASSUME EInv, NEW e \in q.entries, e.status = "pending", e.id \notin receipts
               PROVE  claimable >= Threshold
    BY DEF DustNeverClaimed
  <2>1. q = Queued(Claim("pending", NoTx)) /\ e.id = 0
    BY DEF EInv, OneClaim, EmptyQueue, Queued, Claim
  <2>2. NeverSigned /\ q # EmptyQueue
    BY <2>1, Distinct DEF EInv, OneClaim, NeverSigned
  <2> QED BY <2>2 DEF EInv, NothingSwept
<1> QED BY <1>1, Invariance, PTL
=============================================================================
