--------------------------- MODULE Pinning_proofs ---------------------------
(***************************************************************************)
(* Theorems about Pinning: the types of its state, and that no challenge   *)
(* is missed in normal operation, for any quorum, number of rounds, delays *)
(* and response window that satisfy PinAssumption.                         *)
(*                                                                         *)
(* NeverMissed is a property about time, so the invariant says how much of *)
(* it is left: while an open challenge has no answer under way, the blocks *)
(* to its deadline cover what the running tick may still take (and, when   *)
(* that tick read the pin too early, one tick more), every tick that may   *)
(* still fail, and the mining of the answer.                               *)
(***************************************************************************)
EXTENDS Pinning, TLAPS

-----------------------------------------------------------------------------
(* The inductive invariant. *)

\* How the stages of a tick, its view and the pin belong together.
Stage ==
  /\ pin.status \in {"None", "Active"} => pin.round < Rounds
  /\ pin.open => pin.status = "Active"
  /\ view.open => view.status = "Active"
  /\ view.status # "None" => pin.status # "None"
  /\ pc \in {"pin", "wait"} => view = NoView
  /\ pc = "wait" => spent = 0
  /\ age > 0 => Answer \in net

\* The bytes are there from the seal on.
ReplicaHeld ==
  (\/ pin.status # "None" \/ pc = "sealed"
   \/ \E w \in net : w.intent = "sealCommit") => replica

\* Answers and views are of the open challenge or of one that is over.
NotAhead(nonce) == nonce < Nonce \/ (nonce = Nonce /\ pin.open)
NoncesKnown ==
  /\ \A w \in net : w.intent = "submitPoSt" => NotAhead(w.nonce)
  /\ view.open => NotAhead(view.nonce)

\* The running tick has seen the challenge that is open.
Fresh == view.open /\ view.nonce = Nonce

\* Once a challenge was asked for, the tick knows of the pin, and does not back off.
Challenged == pin.open \/ \E w \in net : w.intent = "challenge"
PinKnown ==
  Challenged =>
    /\ pin.status # "None"
    /\ pc \in {"pin", "wait"} \/ view.status # "None"
    /\ wait <= BaseDelay

Period == TickBlocks + BaseDelay

\* The blocks until a tick that sees the challenge has ended, if none fails.
Need ==
  IF pc = "wait" THEN wait + TickBlocks
  ELSE IF pc = "pin" \/ Fresh THEN TickBlocks - spent
  ELSE TickBlocks - spent + Period

\* The blocks of the ticks that may still fail.
Reserve(failed) == (MaxFails - failed) * Period

TimeLeft ==
  pin.open =>
    IF Answer \in net THEN pin.left >= Latency - age
    ELSE pin.left >= Need + Reserve(fails) + Latency

Calm ==
  /\ ReplicaHeld
  /\ NoncesKnown
  /\ PinKnown
  /\ Fresh => ~view.closed
  /\ TimeLeft

IInv == TypeOK /\ Stage /\ (~outage => Calm)

-----------------------------------------------------------------------------
(* Arithmetic of the response window. *)

LEMMA PeriodType == Period \in Nat
  BY PinAssumption DEF Period

\* Every failure that may still come has its blocks in reserve, and a challenge
\* starts with all of them and two ticks.
LEMMA ReserveFacts ==
  ASSUME NEW failed \in 0 .. MaxFails
  PROVE  /\ Reserve(failed) \in Nat
         /\ failed < MaxFails => Reserve(failed) = Reserve(failed + 1) + Period
         /\ Response >= 2 * Period + Reserve(failed) + Latency
  <1> DEFINE rest == MaxFails - failed
  <1>t. MaxFails \in Nat /\ Latency \in Nat /\ Response \in Nat /\ Period \in Nat
        /\ rest \in Nat /\ failed \in Nat
    BY PinAssumption, PeriodType
  <1>1. \A a, b \in Nat : a * b \in Nat
    BY SMT
  <1>2. \A a, b, c \in Int : (a + b) * c = a * c + b * c
    BY SMT
  <1>3. Reserve(failed) = rest * Period
    BY DEF Reserve
  <1>4. rest * Period \in Nat /\ failed * Period \in Nat /\ MaxFails * Period \in Nat
    BY <1>1, <1>t
  <1>5. MaxFails * Period = rest * Period + failed * Period
    <2>1. rest + failed = MaxFails /\ rest \in Int /\ failed \in Int /\ Period \in Int
      BY <1>t
    <2>2. (rest + failed) * Period = rest * Period + failed * Period
      BY <1>2, <2>1
    <2> QED  BY <2>1, <2>2
  <1>6. (2 + MaxFails) * Period = 2 * Period + MaxFails * Period
    BY <1>2, <1>t
  <1>7. Response >= (2 + MaxFails) * Period + Latency
    BY PinAssumption DEF Period
  <1>8. ASSUME failed < MaxFails
        PROVE  Reserve(failed) = Reserve(failed + 1) + Period
    <2> DEFINE less == MaxFails - (failed + 1)
    <2>1. less \in Int /\ rest = less + 1 /\ Period \in Int
      BY <1>t
    <2>2. (less + 1) * Period = less * Period + 1 * Period
      BY <1>2, <2>1
    <2>3. 1 * Period = Period
      BY <1>t
    <2> QED  BY <2>1, <2>2, <2>3 DEF Reserve
  <1>9. 2 * Period \in Nat
    BY <1>t
  <1>10. Response >= 2 * Period + rest * Period + Latency
    <2> HIDE DEF rest
    <2> QED  BY <1>4, <1>5, <1>6, <1>7, <1>9, <1>t
  <1> QED  BY <1>3, <1>4, <1>8, <1>10

-----------------------------------------------------------------------------
(* What a tick leaves when it ends. *)

\* A write the running tick may ask for.
Asked(w) ==
  /\ w \in [intent : Intents, nonce : 0 .. Rounds + MaxMissed]
  /\ w.intent = "sealCommit" => pc = "sealed"
  /\ w.intent = "submitPoSt" => view.open /\ w.nonce = view.nonce
  /\ w.intent = "challenge" => view.status = "Active"

\* A tick leaves an open challenge unanswered only by failing, or if it has not
\* seen it.
Excused == fails' = fails + 1 \/ (pc \notin {"pin", "wait"} /\ ~Fresh)

\* The time an answer still needs; without a fresh reading, at least a period.
LEMMA NeedType ==
  ASSUME IInv
  PROVE  /\ Need \in Nat
         /\ pc \notin {"pin", "wait"} /\ ~Fresh => Need >= Period
  BY PinAssumption DEF IInv, TypeOK, Need, Period

\* In normal operation an open challenge's deadline is not past.
LEMMA LeftNat ==
  ASSUME IInv, ~outage, pin.open
  PROVE  pin.left >= 0
  <1>1. /\ age \in 0 .. Latency /\ pin.left \in Int /\ Latency \in Nat
        /\ fails \in 0 .. MaxFails
    BY PinAssumption DEF IInv, TypeOK, Pins
  <1>2. Need \in Nat /\ Reserve(fails) \in Nat
    BY <1>1, NeedType, ReserveFacts
  <1>3. IF Answer \in net THEN pin.left >= Latency - age
        ELSE pin.left >= Need + Reserve(fails) + Latency
    BY DEF IInv, Calm, TimeLeft
  <1> QED  BY <1>1, <1>2, <1>3

\* The end of a tick, however it came about, keeps the invariant when the chain and the
\* replica stay and a challenge is only left open with an excuse.
LEMMA TickEnds ==
  ASSUME IInv, NEW unfunded \in BOOLEAN, EndTick(unfunded),
         UNCHANGED <<chain, replica>>,
         net \subseteq net', \A w \in net' : w \in net \/ Asked(w),
         fails' = fails \/ (fails < MaxFails /\ fails' = fails + 1),
         unfunded => view.status = "None" /\ pc # "pin", pc # "wait",
         ~outage /\ pin.open /\ Answer \notin net' => Excused
  PROVE  IInv'
  <1> USE DEF EndTick, Backoff, chain
  <1>1. TypeOK'
    BY PinAssumption DEF IInv, TypeOK, Stages, Views, NoView, Statuses, Asked
  <1>2. Stage'
    BY DEF IInv, TypeOK, Stage, NoView, Answer, Nonce
  <1>3. ASSUME ~outage
        PROVE  Calm'
    <2>1. ReplicaHeld'
      BY <1>3 DEF IInv, Calm, ReplicaHeld, Asked
    <2>2. NoncesKnown'
      BY <1>3 DEF IInv, Calm, NoncesKnown, NotAhead, Nonce, Asked, NoView
    <2>3. PinKnown'
      <3>1. Challenged' => Challenged \/ view.status = "Active"
        BY DEF Challenged, Asked
      <3>2. Challenged => PinKnown
        BY <1>3 DEF IInv, Calm
      <3>3. Challenged' => pin.status # "None" /\ ~unfunded
        BY <3>1, <3>2 DEF IInv, PinKnown, Stage
      <3>4. ~unfunded => wait' = BaseDelay /\ BaseDelay \in Nat
        BY PinAssumption
      <3> QED  BY <3>3, <3>4 DEF PinKnown
    <2>4. ~Fresh'
      BY DEF Fresh, NoView
    <2>5. TimeLeft'
      <3> SUFFICES ASSUME pin.open
                   PROVE  IF Answer \in net' THEN pin.left >= Latency - age
                          ELSE pin.left >= Need' + Reserve(fails') + Latency
        BY DEF TimeLeft, Answer, Nonce, Reserve, Period
      <3>1. /\ age \in Nat /\ pin.left \in Int /\ Need \in Nat
            /\ Latency \in Nat /\ Period \in Nat /\ fails \in 0 .. MaxFails
            /\ fails' \in 0 .. MaxFails /\ MaxFails \in Nat
        BY <1>1, NeedType, PeriodType, PinAssumption DEF IInv, TypeOK, Pins
      <3>2. /\ Reserve(fails) \in Nat /\ Reserve(fails') \in Nat
            /\ fails < MaxFails => Reserve(fails) = Reserve(fails + 1) + Period
        BY <3>1, ReserveFacts
      <3>3. IF Answer \in net THEN pin.left >= Latency - age
            ELSE pin.left >= Need + Reserve(fails) + Latency
        BY <1>3 DEF IInv, Calm, TimeLeft
      <3>4. CASE Answer \in net'
        BY <3>1, <3>2, <3>3, <3>4 DEF IInv, Stage
      <3>5. CASE Answer \notin net'
        <4>1. Excused /\ Answer \notin net
          BY <1>3, <3>5
        <4>2. Challenged /\ wait' = BaseDelay
          <5>1. Challenged /\ PinKnown
            BY <1>3 DEF Challenged, IInv, Calm
          <5>2. ~unfunded
            BY <5>1 DEF PinKnown
          <5> QED  BY <5>1, <5>2
        <4>3. Need' = Period
          BY <4>2, PinAssumption DEF Need, Period
        <4>4. CASE fails' = fails + 1
          <5>1. fails < MaxFails
            BY <3>1, <4>4
          <5>2. Reserve(fails) = Reserve(fails') + Period
            BY <3>2, <4>4, <5>1
          <5> QED  BY <3>1, <3>2, <3>3, <3>5, <4>1, <4>3, <5>2
        <4>5. CASE fails' = fails /\ pc \notin {"pin", "wait"} /\ ~Fresh
          BY <3>1, <3>2, <3>3, <3>5, <4>1, <4>3, <4>5, NeedType
        <4> QED  BY <4>1, <4>4, <4>5 DEF Excused
      <3> QED  BY <3>4, <3>5
    <2> QED  BY <2>1, <2>2, <2>3, <2>4, <2>5 DEF Calm
  <1> QED  BY <1>1, <1>2, <1>3 DEF IInv

-----------------------------------------------------------------------------
(* The steps of a tick that do not end it. *)

LEMMA ReadKeeps ==
  ASSUME IInv, Read, UNCHANGED <<chain, replica>>
  PROVE  IInv'
  <1> USE DEF Read, chain, clock
  <1>1. CASE ReadPin
    <2> USE <1>1 DEF ReadPin, NoView
    <2>1. TypeOK'
      <3>1. Nonce \in 0 .. Rounds + MaxMissed
        BY PinAssumption DEF Nonce, IInv, TypeOK, Pins
      <3>2. view' \in Views
        <4>1. pin \in Pins
          BY DEF IInv, TypeOK
        <4>2. NoView \in Views
          BY PinAssumption DEF NoView, Views, Statuses
        <4> QED  BY <3>1, <4>1, <4>2 DEF Pins, Views
      <3> QED  BY <3>2 DEF IInv, TypeOK, Stages
    <2>2. Stage'
      BY DEF IInv, TypeOK, Stage, Answer, Nonce
    <2>3. ASSUME ~outage PROVE Calm'
      <3>1. ReplicaHeld' /\ NoncesKnown' /\ PinKnown'
        BY <2>3 DEF IInv, Calm, ReplicaHeld, NoncesKnown, NotAhead, PinKnown,
                    Challenged, Nonce
      <3>2. pin.open => Fresh'
        BY DEF Fresh, Nonce, IInv, TypeOK, Pins
      <3>3. TimeLeft'
        BY <2>3, <3>2 DEF IInv, Calm, TimeLeft, Need, Answer, Nonce, Reserve, Period
      <3> QED  BY <3>1, <3>3 DEF Calm, Fresh
    <2> QED  BY <2>1, <2>2, <2>3 DEF IInv
  <1>2. CASE ReadSlot \/ ReadBlock \/ ReadFunding
    <2>1. /\ pc \in {"slot", "block", "funding"}
          /\ pc' \in {"block", "funding", "plan"}
          /\ view' \in Views
          /\ view'.open = view.open /\ view'.nonce = view.nonce
          /\ view'.status = view.status
      BY <1>2 DEF ReadSlot, ReadBlock, ReadFunding, IInv, TypeOK, Views, Unpinned
    <2>2. TypeOK'
      BY <2>1 DEF IInv, TypeOK, Stages
    <2>3. Stage'
      BY <2>1 DEF IInv, Stage, Answer, Nonce
    <2>4. ASSUME ~outage PROVE Calm'
      <3>1. ReplicaHeld' /\ NoncesKnown' /\ PinKnown'
        BY <2>1, <2>4 DEF IInv, Calm, ReplicaHeld, NoncesKnown, NotAhead, PinKnown,
                          Challenged, Nonce
      <3>2. Fresh' = Fresh
        BY <2>1 DEF Fresh, Nonce
      <3>3. TimeLeft'
        BY <2>1, <2>4, <3>2 DEF IInv, Calm, TimeLeft, Need, Answer, Nonce, Reserve, Period
      <3>4. Fresh' => ~view'.closed
        <4>1. CASE ReadBlock
          <5> SUFFICES ASSUME Fresh PROVE view'.closed = FALSE
            BY <3>2
          <5>1. pin.open
            BY <2>4 DEF IInv, Calm, NoncesKnown, NotAhead, Fresh, Nonce, TypeOK, Pins
          <5>2. pin.left >= 0 /\ pin.left \in Int
            BY <2>4, <5>1, LeftNat DEF IInv, TypeOK, Pins
          <5>3. ~(pin.left < 0)
            BY <5>2
          <5>4. PICK closed \in {view.open /\ pin.left < 0} :
                  view' = [view EXCEPT !.closed = closed]
            BY <4>1, Zenon DEF ReadBlock, Fresh
          <5>5. closed = FALSE
            BY <5>3, <5>4, Zenon
          <5> QED  BY <5>4, <5>5 DEF IInv, TypeOK, Views
        <4>2. CASE ReadSlot \/ ReadFunding
          BY <2>4, <3>2, <4>2 DEF ReadSlot, ReadFunding, IInv, TypeOK, Views, Calm
        <4> QED  BY <1>2, <4>1, <4>2
      <3> QED  BY <3>1, <3>3, <3>4 DEF Calm
    <2> QED  BY <2>2, <2>3, <2>4 DEF IInv
  <1> QED  BY <1>1, <1>2

\* tick: the bytes are there and the sealer runs.
LEMMA SealKeeps ==
  ASSUME IInv, pc = "plan", Seal, UNCHANGED <<chain, replica>>
  PROVE  IInv'
  <1> USE DEF Seal, chain, clock
  <1>1. TypeOK' /\ Stage'
    BY DEF IInv, TypeOK, Stages, Stage, Answer, Nonce
  <1>2. ASSUME ~outage PROVE Calm'
    <2>1. ReplicaHeld' /\ NoncesKnown' /\ PinKnown' /\ Fresh' = Fresh
      BY <1>2 DEF IInv, Calm, ReplicaHeld, NoncesKnown, NotAhead, PinKnown,
                  Challenged, Nonce, Fresh
    <2>2. TimeLeft'
      BY <1>2, <2>1 DEF IInv, Calm, TimeLeft, Need, Answer, Nonce, Reserve, Period
    <2> QED  BY <1>2, <2>1, <2>2 DEF Calm, IInv
  <1> QED  BY <1>1, <1>2 DEF IInv

\* The loop wakes up for its next tick.
LEMMA WakeKeeps ==
  ASSUME IInv, Wake, UNCHANGED <<chain, replica>>
  PROVE  IInv'
  <1> USE DEF Wake, chain, clock
  <1>1. TypeOK' /\ Stage'
    BY DEF IInv, TypeOK, Stages, Stage, Answer, Nonce
  <1>2. ASSUME ~outage PROVE Calm'
    <2>1. ReplicaHeld' /\ NoncesKnown' /\ PinKnown' /\ Fresh' = Fresh
      BY <1>2 DEF IInv, Calm, ReplicaHeld, NoncesKnown, NotAhead, PinKnown,
                  Challenged, Nonce, Fresh
    <2>2. Need' = Need
      BY PinAssumption DEF IInv, Stage, Need
    <2>3. TimeLeft'
      BY <1>2, <2>2 DEF IInv, Calm, TimeLeft, Answer, Nonce, Reserve, Period
    <2> QED  BY <1>2, <2>1, <2>3 DEF Calm, IInv
  <1> QED  BY <1>1, <1>2 DEF IInv

-----------------------------------------------------------------------------
(* The steps that end a tick. *)

\* A tick that has seen the open challenge plans nothing but its answer.
LEMMA PlansTheAnswer ==
  ASSUME IInv, ~outage, pin.open, Fresh
  PROVE  /\ PlansProof(view) /\ ~PlansSeal(view)
         /\ \A intent \in Intents : ~PlansSign(view, intent)
  <1>1. view.status = "Active" /\ view.open /\ ~view.closed
    BY DEF IInv, Stage, Calm, Fresh
  <1> QED
    BY <1>1 DEF PlansProof, Answering, PlansSeal, Unpinned, PlansSign, PlansRegister,
                PlansClaim, PlansReturn, PlansChallenge

\* tick: a write is requested.
LEMMA RequestKeeps ==
  ASSUME IInv, NEW w \in [intent : Intents, nonce : 0 .. Rounds + MaxMissed],
         Request(w), Asked(w), UNCHANGED <<chain, replica>>,
         pc \in {"plan", "sealed"},
         w.intent = "sealCommit" => view.status = "None",
         ~outage /\ pin.open /\ Fresh => w = Answer
  PROVE  IInv'
  <1>1. fails' = fails
    BY DEF Request
  <1>2. CASE net' = net \cup {w} /\ EndTick(FALSE)
    <2>1. ~outage /\ pin.open /\ Answer \notin net' => Excused
      BY <1>2 DEF Excused
    <2> QED  BY <1>1, <1>2, <2>1, TickEnds
  <1>3. CASE ~Accepts(w) /\ EndTick(w.intent = "sealCommit" /\ ~CanSeed) /\ UNCHANGED net
    <2> DEFINE unfunded == w.intent = "sealCommit" /\ ~CanSeed
    <2>1. ~outage /\ pin.open /\ Answer \notin net' => Excused
      <3> SUFFICES ASSUME ~outage, pin.open, Fresh
                   PROVE  FALSE
        BY DEF Excused
      <3>1. w = Answer /\ pin.left >= 0 /\ pin.status = "Active"
        BY LeftNat DEF IInv, Stage
      <3>2. w.intent = "submitPoSt"
        BY <3>1 DEF Answer, Write
      <3> QED  BY <1>3, <3>1, <3>2 DEF Accepts
    <2>2. unfunded \in BOOLEAN /\ (unfunded => view.status = "None" /\ pc # "pin")
      OBVIOUS
    <2> HIDE DEF unfunded
    <2> QED  BY <1>1, <1>3, <2>1, <2>2, TickEnds DEF unfunded
  <1> QED  BY <1>2, <1>3 DEF Request

\* tick: what the plan decided.
LEMMA PlanKeeps ==
  ASSUME IInv, Plan, UNCHANGED <<chain, replica>>
  PROVE  IInv'
  <1>1. ASSUME NEW intent \in Intents, PlansSign(view, intent),
               Request(Write(intent, 0))
        PROVE  IInv'
    <2> DEFINE w == Write(intent, 0)
    <2>1. w \in [intent : Intents, nonce : 0 .. Rounds + MaxMissed] /\ w.intent = intent
      BY PinAssumption DEF Write
    <2>2. intent \in {"registerPinner", "claim", "returnBond", "challenge"}
      BY <1>1 DEF PlansSign
    <2>3. intent = "challenge" => view.status = "Active"
      BY <1>1 DEF PlansSign, PlansChallenge
    <2>4. Asked(w)
      BY <2>1, <2>2, <2>3 DEF Asked
    <2>5. ~(~outage /\ pin.open /\ Fresh)
      BY <1>1, PlansTheAnswer
    <2> HIDE DEF w
    <2>6. pc \in {"plan", "sealed"} /\ Request(w)
      BY <1>1 DEF Plan, w
    <2> QED  BY <2>1, <2>2, <2>4, <2>5, <2>6, RequestKeeps
  <1>2. CASE Hold
    <2>1. ~(~outage /\ pin.open /\ Fresh)
      BY <1>2, PlansTheAnswer DEF Hold, PlansNothing
    <2>2. pc = "plan"
      BY DEF Plan
    <2>3. Unfunded(view) \in BOOLEAN /\ (Unfunded(view) => view.status = "None")
      BY DEF Unfunded, Unpinned
    <2>4. EndTick(Unfunded(view)) /\ UNCHANGED <<net, fails>>
      BY <1>2 DEF Hold
    <2>5. ~outage /\ pin.open /\ Answer \notin net' => Excused
      BY <2>1, <2>2 DEF Excused
    <2> QED  BY <2>2, <2>3, <2>4, <2>5, TickEnds
  <1>3. CASE Seal
    BY <1>3, SealKeeps DEF Plan
  <1> QED  BY <1>1, <1>2, <1>3 DEF Plan

\* tick: what was sealed or proved is requested.
LEMMA SealedKeeps ==
  ASSUME IInv, Sealed, UNCHANGED <<chain, replica>>
  PROVE  IInv'
  <1>1. pc = "sealed"
    BY DEF Sealed
  <1>2. CASE PlansSeal(view) /\ Request(Write("sealCommit", 0))
    <2> DEFINE w == Write("sealCommit", 0)
    <2>1. /\ w \in [intent : Intents, nonce : 0 .. Rounds + MaxMissed]
          /\ w.intent = "sealCommit"
      BY PinAssumption DEF Write, Intents
    <2>2. Asked(w) /\ view.status = "None"
      BY <1>1, <1>2, <2>1 DEF Asked, PlansSeal, Unpinned
    <2>3. ~(~outage /\ pin.open /\ Fresh)
      BY <1>2, PlansTheAnswer
    <2> HIDE DEF w
    <2>4. Request(w)
      BY <1>2 DEF w
    <2> QED  BY <1>1, <2>1, <2>2, <2>3, <2>4, RequestKeeps
  <1>3. CASE PlansProof(view) /\ Request(Write("submitPoSt", view.nonce))
    <2> DEFINE w == Write("submitPoSt", view.nonce)
    <2>1. /\ w \in [intent : Intents, nonce : 0 .. Rounds + MaxMissed]
          /\ w.intent = "submitPoSt" /\ w.nonce = view.nonce
      BY DEF Write, Intents, IInv, TypeOK, Views
    <2>2. Asked(w)
      BY <1>3, <2>1 DEF Asked, PlansProof, Answering
    <2>3. Fresh => w = Answer
      BY DEF Fresh, Answer
    <2> HIDE DEF w
    <2>4. Request(w)
      BY <1>3 DEF w
    <2> QED  BY <1>1, <2>1, <2>2, <2>3, <2>4, RequestKeeps
  <1> QED  BY <1>2, <1>3 DEF Sealed

\* tick: no replica, or a call fails.
LEMMA FailKeeps ==
  ASSUME IInv, Fail, UNCHANGED <<chain, replica>>
  PROVE  IInv'
  <1>1. EndTick(FALSE) /\ UNCHANGED net /\ pc # "wait"
    BY DEF Fail
  <1>2. CASE fails < MaxFails /\ fails' = fails + 1
    BY <1>1, <1>2, TickEnds DEF Excused
  <1>3. CASE pc = "plan" /\ ~replica /\ UNCHANGED fails
    <2>1. ~outage => ~pin.open
      BY <1>3 DEF IInv, Calm, ReplicaHeld, Stage
    <2> QED  BY <1>1, <1>3, <2>1, TickEnds
  <1> QED  BY <1>2, <1>3 DEF Fail

-----------------------------------------------------------------------------
(* The contract, the blocks and the surroundings. *)

LEMMA PinValues ==
  Response \in -1 .. Response /\ 0 \in -1 .. Response /\ 0 \in {0, 1}
  BY PinAssumption

\* The one write that ends a challenge is the answer to it.
LEMMA MineKeeps ==
  ASSUME IInv, NEW w \in net, Mine(w)
  PROVE  IInv'
  <1>t. /\ w \in [intent : Intents, nonce : 0 .. Rounds + MaxMissed]
        /\ pin \in Pins /\ slot \in Slots
        /\ Rounds \in Nat \ {0} /\ MaxMissed \in Nat /\ Response \in Nat
    BY PinAssumption DEF IInv, TypeOK
  <1>m. /\ net' = net \ {w}
        /\ age' = IF w = Answer THEN 0 ELSE age
        /\ UNCHANGED <<replica, pc, view, delay, wait, spent, fails, outage>>
    BY DEF Mine
  <1>e. /\ Accepts(w) => pin' = Effect(w)
        /\ Accepts(w) /\ w.intent # "sealCommit" => slot' = slot
        /\ ~Accepts(w) => pin' = pin /\ slot' = slot
        /\ Accepts(w) /\ w.intent = "sealCommit" =>
             \E backed \in {slot.backed, slot.funded /\ slot.backed} :
               slot' = [slot EXCEPT !.funded = TRUE, !.backed = backed]
    BY DEF Mine, chain
  <1>1. ASSUME ~Accepts(w) \/ w.intent # "submitPoSt"
        PROVE  IInv'
    <2> DEFINE opens == Accepts(w) /\ w.intent = "challenge"
    <2>1. /\ pin' \in Pins /\ slot' \in Slots
          /\ pin'.missed = pin.missed /\ pin'.round = pin.round
          /\ ~opens => pin'.open = pin.open /\ pin'.left = pin.left
          /\ opens => pin'.open = TRUE /\ pin'.left = Response
          /\ \/ pin'.status = pin.status
             \/ w.intent = "sealCommit" /\ pin.status = "None" /\ pin'.status = "Active"
      <3>1. CASE ~Accepts(w)
        BY <1>t, <1>e, <3>1
      <3>2. CASE Accepts(w) /\ w.intent = "registerPinner"
        BY <1>t, <1>e, <3>2 DEF Effect, Pins
      <3>3. CASE Accepts(w) /\ w.intent = "sealCommit"
        <4>1. pin.status = "None" /\ pin' = [pin EXCEPT !.status = "Active", !.bond = 1]
          BY <1>e, <3>3 DEF Accepts, Effect
        <4>2. slot' \in Slots
          <5>1. PICK backed \in {slot.backed, slot.funded /\ slot.backed} :
                  slot' = [slot EXCEPT !.funded = TRUE, !.backed = backed]
            BY <1>e, <3>3
          <5>2. slot.funded \in BOOLEAN /\ slot.backed \in BOOLEAN
            BY <1>t DEF Slots
          <5>3. backed \in BOOLEAN
            BY <5>1, <5>2, Zenon
          <5> QED  BY <1>t, <5>1, <5>3 DEF Slots
        <4> QED  BY <1>t, <1>m, <3>3, <4>1, <4>2 DEF Pins, Statuses
      <3>4. CASE Accepts(w) /\ w.intent = "challenge"
        <4>1. pin' = [pin EXCEPT !.open = TRUE, !.left = Response] /\ slot' = slot
          BY <1>e, <3>4 DEF Effect
        <4> QED  BY <1>t, <3>4, <4>1, PinValues DEF Pins
      <3>5. CASE Accepts(w) /\ w.intent = "claim"
        BY <1>t, <1>e, <3>5 DEF Effect, Pins
      <3>6. CASE Accepts(w) /\ w.intent = "returnBond"
        BY <1>t, <1>e, <3>6 DEF Effect, Pins
      <3> QED  BY <1>1, <1>t, <1>m, <3>1, <3>2, <3>3, <3>4, <3>5, <3>6 DEF Intents
    <2>2. opens => ~pin.open /\ pin.status = "Active"
      BY DEF Accepts
    <2>3. Nonce' = Nonce /\ Answer' = Answer /\ Reserve(fails)' = Reserve(fails)
      BY <1>m, <2>1 DEF Nonce, Answer, Reserve, Period
    <2> HIDE DEF opens
    <2>4. TypeOK'
      <3>1. age' \in 0 .. Latency
        BY <1>m, PinAssumption DEF IInv, TypeOK
      <3> QED  BY <1>t, <1>m, <2>1, <3>1 DEF IInv, TypeOK
    <2>5. Stage'
      BY <1>t, <1>m, <2>1, <2>2, <2>3 DEF IInv, TypeOK, Stage, NoView
    <2>6. ASSUME ~outage PROVE Calm'
      <3>1. ReplicaHeld'
        BY <1>m, <2>1, <2>6 DEF IInv, Calm, ReplicaHeld
      <3>2. NoncesKnown' /\ Fresh' = Fresh
        BY <1>m, <2>1, <2>2, <2>3, <2>6 DEF IInv, Calm, NoncesKnown, NotAhead, Fresh
      <3>3. Challenged' => Challenged
        BY <1>m, <2>1 DEF Challenged, opens
      <3>4. PinKnown'
        BY <1>m, <2>1, <2>6, <3>3 DEF IInv, Calm, PinKnown, Stage
      <3>5. TimeLeft'
        <4>1. CASE opens
          <5>1. Answer \notin net
            BY <2>2, <2>6, <4>1, <1>t, <1>m
               DEF IInv, Calm, NoncesKnown, NotAhead, Answer, Write, Nonce, Pins
          <5>2. wait <= BaseDelay
            BY <2>6, <4>1 DEF opens, Challenged, IInv, Calm, PinKnown
          <5>3. Need \in Nat /\ Need <= 2 * Period
            BY <5>2, NeedType, PinAssumption DEF Need, Period, IInv, TypeOK
          <5>4. /\ Response >= 2 * Period + Reserve(fails) + Latency
                /\ Reserve(fails) \in Nat /\ Period \in Nat
            BY ReserveFacts, PeriodType DEF IInv, TypeOK
          <5>5. Need' = Need
            BY <1>m, <3>2 DEF Need, Period
          <5>6. Answer' \notin net'
            BY <1>t, <1>m, <2>3, <5>1
          <5>7. pin'.left >= Need + Reserve(fails) + Latency
            BY <1>t, <1>m, <2>1, <4>1, <5>3, <5>4, PinAssumption
          <5> QED  BY <1>m, <2>3, <5>5, <5>6, <5>7 DEF TimeLeft
        <4>2. CASE ~opens
          <5> SUFFICES ASSUME pin.open
                       PROVE  TimeLeft'
            BY <1>m, <2>1, <4>2 DEF TimeLeft
          <5>1. w # Answer
            <6>1. pin.left >= 0 /\ pin.status = "Active"
              BY <2>6, LeftNat DEF IInv, Stage
            <6>2. w = Answer => w.intent = "submitPoSt"
              BY DEF Answer, Write
            <6> QED  BY <1>1, <6>1, <6>2 DEF Accepts
          <5>2. age' = age /\ (Answer' \in net' <=> Answer \in net) /\ Need' = Need
            BY <1>t, <1>m, <2>3, <3>2, <5>1 DEF Need, Period
          <5> QED  BY <1>m, <2>1, <2>3, <2>6, <4>2, <5>2 DEF IInv, Calm, TimeLeft
        <4> QED  BY <4>1, <4>2
      <3> QED  BY <1>m, <2>6, <3>1, <3>2, <3>4, <3>5 DEF Calm, IInv
    <2> QED  BY <1>m, <2>4, <2>5, <2>6 DEF IInv
  <1>2. ASSUME Accepts(w), w.intent = "submitPoSt"
        PROVE  IInv'
    <2>1. /\ w = Answer /\ pin.status = "Active" /\ pin.open
          /\ pin' = [pin EXCEPT !.open = FALSE, !.left = 0, !.round = @ + 1,
                                !.status = IF pin.round + 1 = Rounds THEN "Done" ELSE @]
          /\ slot' = slot
      BY <1>2, <1>e DEF Accepts, Effect
    <2>2. pin.round + 1 \in 0 .. Rounds
      BY <1>t, <1>m, <2>1 DEF IInv, Stage, Pins
    <2>3. /\ pin' \in Pins /\ pin'.open = FALSE /\ pin'.round = pin.round + 1
          /\ pin'.missed = pin.missed /\ pin'.status # "None"
          /\ pin'.status = "Active" => pin'.round < Rounds
      <3> DEFINE status == IF pin.round + 1 = Rounds THEN "Done" ELSE pin.status
                 round == pin.round + 1
      <3>1. /\ status \in Statuses /\ status # "None"
            /\ status = "Active" => round < Rounds
            /\ round \in 0 .. Rounds
        BY <1>t, <2>1, <2>2 DEF Statuses
      <3>2. pin' = [pin EXCEPT !.open = FALSE, !.left = 0, !.round = round,
                               !.status = status]
        BY <2>1
      <3> HIDE DEF status, round
      <3>3. pin' \in Pins /\ pin'.open = FALSE /\ pin'.round = round
            /\ pin'.missed = pin.missed /\ pin'.status = status
        BY <1>t, <3>1, <3>2, PinValues DEF Pins
      <3> QED  BY <3>1, <3>3 DEF round
    <2>4. Nonce' = Nonce + 1 /\ Nonce \in Nat
      BY <1>t, <1>m, <2>3 DEF Nonce, Pins
    <2>5. TypeOK'
      BY <1>t, <1>m, <2>1, <2>3, PinAssumption DEF IInv, TypeOK
    <2>6. age' = 0
      BY <1>m, <2>1
    <2>7. Stage'
      BY <1>m, <2>1, <2>3, <2>6 DEF IInv, Stage
    <2>8. ASSUME ~outage PROVE Calm'
      <3>1. \A nonce \in Nat : NotAhead(nonce) => nonce < Nonce'
        BY <2>4 DEF NotAhead
      <3>2. view.nonce \in Nat /\ \A u \in net : u.nonce \in Nat
        BY <1>t, <1>m DEF IInv, TypeOK, Views
      <3>3. /\ view.open => view.nonce < Nonce'
            /\ \A u \in net : u.intent = "submitPoSt" => u.nonce < Nonce'
        BY <1>m, <2>8, <3>1, <3>2 DEF IInv, Calm, NoncesKnown
      <3>4. NoncesKnown' /\ ~Fresh'
        BY <1>t, <1>m, <2>4, <3>2, <3>3 DEF NoncesKnown, NotAhead, Fresh
      <3>5. ReplicaHeld' /\ PinKnown' /\ TimeLeft'
        BY <1>t, <1>m, <2>1, <2>3, <2>8
           DEF IInv, Calm, ReplicaHeld, PinKnown, Challenged, TimeLeft
      <3> QED  BY <1>m, <3>4, <3>5 DEF Calm
    <2> QED  BY <1>m, <2>5, <2>7, <2>8 DEF IInv
  <1> QED  BY <1>1, <1>2

\* The contract slashes an overdue pin.
LEMMA SlashKeeps ==
  ASSUME IInv, Slash
  PROVE  IInv'
  <1>1. outage /\ pin \in Pins
    BY LeftNat DEF Slash, IInv, TypeOK, Pins
  <1>m. pin.missed # MaxMissed => pin.missed + 1 \in 0 .. MaxMissed
    <2>1. MaxMissed \in Nat /\ pin.missed \in 0 .. MaxMissed
      BY <1>1, PinAssumption DEF Pins
    <2> QED  BY <2>1
  <1>2. \/ pin' = [pin EXCEPT !.open = FALSE, !.left = 0, !.bond = 0,
                               !.status = "Slashed"]
        \/ /\ pin' = [pin EXCEPT !.open = FALSE, !.left = 0, !.missed = @ + 1]
           /\ pin.missed # MaxMissed
    BY Zenon DEF Slash
  <1>3. /\ pin' \in Pins /\ pin'.open = FALSE /\ pin'.round = pin.round
        /\ pin'.status = pin.status \/ pin'.status = "Slashed"
    <2>1. CASE pin' = [pin EXCEPT !.open = FALSE, !.left = 0, !.bond = 0,
                                  !.status = "Slashed"]
      BY <1>1, <2>1, PinValues DEF Pins, Statuses
    <2>2. CASE /\ pin' = [pin EXCEPT !.open = FALSE, !.left = 0, !.missed = @ + 1]
               /\ pin.missed # MaxMissed
      BY <1>1, <1>m, <2>2, PinValues DEF Pins
    <2> QED  BY <1>2, <2>1, <2>2
  <1>4. TypeOK'
    BY <1>3, PinAssumption DEF Slash, IInv, TypeOK
  <1>5. Stage'
    BY <1>3 DEF Slash, IInv, Stage
  <1> QED  BY <1>1, <1>4, <1>5 DEF Slash, IInv

\* Other pinners come and go, and the bytes are fetched.
LEMMA OthersKeep ==
  ASSUME IInv, OtherPinners \/ Fetch
  PROVE  IInv'
  <1> USE DEF chain, clock
  <1>1. slot' \in Slots /\ replica' \in {replica, TRUE}
    <2>1. CASE Fetch
      BY <2>1 DEF Fetch, IInv, TypeOK
    <2>2. ASSUME NEW backed \in BOOLEAN, slot' = [slot EXCEPT !.backed = backed]
          PROVE  slot' \in Slots
      BY <2>2 DEF IInv, TypeOK, Slots
    <2>3. ASSUME NEW backed \in BOOLEAN, Live < Quorum,
                 slot' = [funded |-> TRUE, others |-> slot.others + 1,
                          backed |-> backed /\ slot.backed]
          PROVE  slot' \in Slots
      <3>1. slot.others + 1 \in 0 .. Quorum
        BY <2>3, PinAssumption DEF Live, IInv, TypeOK, Slots
      <3> QED  BY <2>3, <3>1 DEF IInv, TypeOK, Slots
    <2>4. ASSUME slot.others > 0, slot' = [slot EXCEPT !.others = @ - 1]
          PROVE  slot' \in Slots
      <3>1. slot.others - 1 \in 0 .. Quorum /\ slot \in Slots
        BY <2>4, PinAssumption DEF IInv, TypeOK, Slots
      <3> QED  BY <2>4, <3>1 DEF Slots
    <2>5. CASE OtherPinners
      <3>1. slot' \in Slots
        BY <2>2, <2>3, <2>4, <2>5 DEF OtherPinners
      <3> QED  BY <2>5, <3>1 DEF OtherPinners
    <2> QED  BY <2>1, <2>5
  <1>2. /\ UNCHANGED <<pin, net, pc, view, delay, wait, clock>>
        /\ replica => replica'
    BY DEF OtherPinners, Fetch, IInv, TypeOK
  <1>3. TypeOK' /\ Stage'
    BY <1>1, <1>2 DEF IInv, TypeOK, Stage, Answer, Nonce
  <1>4. Calm => Calm'
    <2>1. ReplicaHeld => ReplicaHeld'
      BY <1>2 DEF ReplicaHeld
    <2>2. /\ NoncesKnown' = NoncesKnown /\ PinKnown' = PinKnown /\ Fresh' = Fresh
          /\ Need' = Need /\ Answer' = Answer
      BY <1>2 DEF NoncesKnown, NotAhead, Nonce, PinKnown, Challenged, Fresh, Need,
                  Answer, Period
    <2>3. TimeLeft' = TimeLeft
      BY <1>2, <2>2 DEF TimeLeft, Reserve, Period
    <2> QED  BY <1>2, <2>1, <2>2, <2>3 DEF Calm
  <1> QED  BY <1>2, <1>3, <1>4 DEF IInv

\* A block passes.
LEMMA NewBlockKeeps ==
  ASSUME IInv, NewBlock
  PROVE  IInv'
  <1> USE DEF NewBlock
  <1>1. /\ pin' \in Pins /\ pin'.round = pin.round /\ pin'.missed = pin.missed
        /\ pin'.status = pin.status /\ pin'.open = pin.open
        /\ pin.open /\ pin.left >= 0 => pin'.left = pin.left - 1
    BY PinAssumption DEF IInv, TypeOK, Pins
  <1>2. Nonce' = Nonce /\ Answer' = Answer
    BY <1>1 DEF Nonce, Answer
  <1>3. TypeOK'
    BY <1>1, PinAssumption DEF IInv, TypeOK, InTime
  <1>4. Stage'
    BY <1>1, <1>2 DEF IInv, TypeOK, Stage
  <1>5. ASSUME ~outage PROVE Calm'
    <2>1. ReplicaHeld' /\ NoncesKnown' /\ Fresh' = Fresh /\ Challenged' = Challenged
      BY <1>1, <1>2, <1>5 DEF IInv, Calm, ReplicaHeld, NoncesKnown, NotAhead, Fresh,
                              Challenged
    <2>2. PinKnown'
      BY <1>1, <1>5, <2>1, PinAssumption DEF IInv, Calm, PinKnown, TypeOK
    <2>3. TimeLeft'
      <3> SUFFICES ASSUME pin.open
                   PROVE  IF Answer \in net THEN pin'.left >= Latency - age'
                          ELSE pin'.left >= Need' + Reserve(fails) + Latency
        BY <1>1, <1>2 DEF TimeLeft, Reserve, Period
      <3>1. pin'.left = pin.left - 1 /\ pin.left \in Int
        BY <1>1, <1>5, LeftNat DEF IInv, TypeOK, Pins
      <3>2. /\ age \in Nat /\ Need \in Nat /\ Latency \in Nat
            /\ Reserve(fails) \in Nat
        BY NeedType, ReserveFacts, PinAssumption DEF IInv, TypeOK
      <3>3. IF Answer \in net THEN pin.left >= Latency - age
            ELSE pin.left >= Need + Reserve(fails) + Latency
        BY <1>5 DEF IInv, Calm, TimeLeft
      <3>4. Need' = Need - 1
        BY <1>5, <2>1, PinAssumption DEF Need, InTime, IInv, TypeOK, Stage, Period
      <3>5. Answer \in net => age' = age + 1
        BY <1>5
      <3> QED  BY <3>1, <3>2, <3>3, <3>4, <3>5
    <2> QED  BY <1>5, <2>1, <2>2, <2>3 DEF Calm, IInv
  <1> QED  BY <1>3, <1>4, <1>5 DEF IInv

\* An outage begins.
LEMMA OutageKeeps ==
  ASSUME IInv, Outage
  PROVE  IInv'
  <1>1. TypeOK'
    <2>1. outage' \in BOOLEAN /\ replica' \in BOOLEAN
      BY DEF Outage, IInv, TypeOK
    <2>2. spent' \in 0 .. TickBlocks /\ age' \in 0 .. Latency
      BY PinAssumption DEF Outage
    <2> QED  BY <2>1, <2>2 DEF Outage, chain, IInv, TypeOK
  <1>2. Stage'
    BY DEF Outage, chain, IInv, Stage, Answer, Nonce
  <1> QED  BY <1>1, <1>2 DEF Outage, IInv

-----------------------------------------------------------------------------
(* The theorems. *)

LEMMA InitInv == Init => IInv
  <1> SUFFICES ASSUME Init PROVE IInv
    OBVIOUS
  <1> USE PinAssumption DEF Init
  <1>1. pin \in Pins
    BY DEF Pins, Statuses
  <1>2. view \in Views
    BY DEF Views, NoView, Statuses
  <1>3. TypeOK
    <2>1. 0 \in 0 .. TickBlocks /\ 0 \in 0 .. Latency /\ 0 \in 0 .. MaxFails
      OBVIOUS
    <2>2. BaseDelay \in BaseDelay .. MaxDelay /\ 0 \in 0 .. MaxDelay
      OBVIOUS
    <2> QED  BY <1>1, <1>2, <2>1, <2>2 DEF TypeOK, Slots, Stages
  <1>s. Stage
    BY DEF Stage, NoView
  <1>4. Calm
    BY DEF Calm, ReplicaHeld, NoncesKnown, PinKnown, Challenged, Fresh, NoView, TimeLeft
  <1> QED  BY <1>3, <1>s, <1>4 DEF IInv

\* Every step keeps the invariant.
LEMMA NextInv == IInv /\ [Next]_vars => IInv'
  <1> SUFFICES ASSUME IInv, [Next]_vars PROVE IInv'
    OBVIOUS
  <1>1. CASE Tick
    <2> USE DEF Tick
    <2>1. CASE Read /\ Tick
      BY <2>1, ReadKeeps
    <2>2. CASE Plan /\ Tick
      BY <2>2, PlanKeeps
    <2>3. CASE Sealed /\ Tick
      BY <2>3, SealedKeeps
    <2>4. CASE Wake /\ Tick
      BY <2>4, WakeKeeps
    <2>5. CASE Fail /\ Tick
      BY <2>5, FailKeeps
    <2> QED  BY <1>1, <2>1, <2>2, <2>3, <2>4, <2>5 DEF Proceed
  <1>2. CASE \E w \in net : Mine(w)
    BY <1>2, MineKeeps
  <1>3. CASE Slash
    BY <1>3, SlashKeeps
  <1>4. CASE OtherPinners \/ Fetch
    BY <1>4, OthersKeep
  <1>5. CASE NewBlock
    BY <1>5, NewBlockKeeps
  <1>6. CASE Outage
    BY <1>6, OutageKeeps
  <1>7. CASE UNCHANGED vars
    BY <1>7 DEF vars, chain, clock, IInv, TypeOK, Stage, Answer, Nonce, Calm, ReplicaHeld,
                NoncesKnown, NotAhead, PinKnown, Challenged, Fresh, TimeLeft, Need,
                Reserve, Period
  <1> QED  BY <1>1, <1>2, <1>3, <1>4, <1>5, <1>6, <1>7 DEF Next

\* The invariant holds always.
LEMMA Invariant == Spec => []IInv
  BY InitInv, NextInv, PTL DEF Spec

\* Every variable keeps its type, and the backoff of tick_pin stays between its base
\* and its maximum, for any constants and however often the slot is unfunded.
THEOREM TypeCorrect == Spec => []TypeOK
  <1>1. IInv => TypeOK
    BY DEF IInv
  <1> QED  BY <1>1, Invariant, PTL

\* plan_pin answers first, and ticks are short against the window: no challenge is
\* missed in normal operation, whatever stale reads, repeated requests, rejected
\* writes and failed ticks come in between.
THEOREM ChallengesAreAnswered == Spec => []NeverMissed
  <1>1. IInv => NeverMissed
    BY LeftNat DEF IInv, TypeOK, Pins, NeverMissed
  <1> QED  BY <1>1, Invariant, PTL
=============================================================================
