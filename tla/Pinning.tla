------------------------------ MODULE Pinning ------------------------------
(***************************************************************************)
(* One pin, a (cid, sector) this node stores for reward: plan_pin          *)
(* (crates/pinning/src/lib.rs), tick_pin and SlotFundingBackoff            *)
(* (crates/pinning/src/runloop.rs), and, outside the repository, the       *)
(* signer, the IPFSIncentives contract as the planner's comments describe  *)
(* it, and the other pinners of the slot.                                  *)
(*                                                                         *)
(* A tick is cut at its awaits: each read of the chain, the sealer, and    *)
(* the wait before the next tick.  Reward is counted in rounds (PER_ROUND  *)
(* is the unit), the slot's backing by whether it can seed a budget, a     *)
(* challenge's deadline by the blocks left to it.  registered only ever    *)
(* turns true, so it is read together with the pin.  Re-entry of a slashed *)
(* pin (clearSlashed) is the operator's and left out.                      *)
(***************************************************************************)
EXTENDS Integers

CONSTANTS
  Quorum, Rounds,       \* the contract's QUORUM and ROUNDS
  Response,             \* blocks between a challenge and its deadline
  BaseDelay, MaxDelay,  \* SlotFundingBackoff, in blocks
  MaxMissed,            \* bound: misses after which the contract slashes
  TickBlocks,           \* timing: blocks a tick spans in normal operation
  Latency,              \* timing: blocks until an answer is mined
  MaxFails              \* bound: ticks that fail though the replica is there

\* The response window holds the ticks it has to: one that read the pin too
\* early, the failed ones, and the one that answers.
ASSUME PinAssumption ==
  /\ {Quorum, Rounds, BaseDelay} \subseteq Nat \ {0}
  /\ {MaxDelay, MaxMissed, TickBlocks, Latency, MaxFails} \subseteq Nat
  /\ BaseDelay <= MaxDelay
  /\ Response \in Nat
  /\ Response >= (2 + MaxFails) * (TickBlocks + BaseDelay) + Latency

VARIABLES
  pin,      \* what the contract holds of this pinner: registered, getPin
  slot,     \* getSlot (the other pinners) and unallocatedSlotFunding
  net,      \* requested writes that are not mined yet
  replica,  \* are the local bytes there (ReplicaSource)?
  pc, view, \* the running tick, and what it has read
  delay,    \* SlotFundingBackoff.current
  wait,     \* blocks left before the next tick
  spent, age, fails,  \* blocks of this tick, of the unmined answer; failed ticks
  outage              \* history: has normal operation ended?

chain == <<pin, slot>>
clock == <<spent, age, fails, outage>>
vars == <<chain, net, replica, pc, view, delay, wait, clock>>

Intents == {"registerPinner", "sealCommit", "challenge", "submitPoSt", "claim",
            "returnBond"}
Write(intent, nonce) == [intent |-> intent, nonce |-> nonce]

\* Challenges of one pin differ in the rounds and misses before them.
Nonce == pin.round + pin.missed
Answer == Write("submitPoSt", Nonce)

NoView == [registered |-> FALSE, status |-> "None", round |-> 0, claimed |-> 0,
           bond |-> 0, open |-> FALSE, nonce |-> 0,
           closed |-> FALSE, funded |-> FALSE, full |-> FALSE, backed |-> FALSE]

Init ==
  /\ pin = [registered |-> FALSE, status |-> "None", round |-> 0, missed |-> 0,
            claimed |-> 0, bond |-> 0, open |-> FALSE, left |-> 0]
  /\ slot \in [funded : BOOLEAN, others : 0 .. Quorum, backed : BOOLEAN]
  /\ net = {}
  /\ replica \in BOOLEAN
  /\ pc = "pin" /\ view = NoView
  /\ delay = BaseDelay /\ wait = 0
  /\ spent = 0 /\ age = 0 /\ fails = 0 /\ outage = FALSE

-----------------------------------------------------------------------------
(* plan_pin, one predicate per action, in the order of the early returns. *)

\* Mutant of Answering: vested reward is claimed first.
AnsweringOnceClaimed(v) == v.status = "Active" /\ v.open /\ v.round = v.claimed

Answering(v) == v.status = "Active" /\ v.open

PlansProof(v) == Answering(v) /\ ~v.closed

Unpinned(v) == v.status = "None"

PlansRegister(v) == Unpinned(v) /\ ~v.registered

\* Mutant of Unfunded: a budget that exists already is overlooked.
UnfundedUnlessBacked(v) == Unpinned(v) /\ v.registered /\ ~v.backed

\* Sealing would revert for want of a budget.
Unfunded(v) == Unpinned(v) /\ v.registered /\ ~v.funded /\ ~v.backed

PlansSeal(v) == Unpinned(v) /\ v.registered /\ ~Unfunded(v) /\ ~v.full

\* Mutant of PlansClaim: only an active pin claims.
PlansClaimWhileActive(v) ==
  v.status = "Active" /\ ~Answering(v) /\ v.round > v.claimed

PlansClaim(v) ==
  v.status \in {"Active", "Done"} /\ ~Answering(v) /\ v.round > v.claimed

PlansReturn(v) == v.status = "Done" /\ v.claimed = v.round /\ v.bond > 0

PlansChallenge(v) ==
  v.status = "Active" /\ ~v.open /\ ~PlansClaim(v) /\ v.round < Rounds

\* The intents that need no sealer.
PlansSign(v, intent) ==
  \/ intent = "registerPinner" /\ PlansRegister(v)
  \/ intent = "claim" /\ PlansClaim(v)
  \/ intent = "returnBond" /\ PlansReturn(v)
  \/ intent = "challenge" /\ PlansChallenge(v)

\* Idle and the holds: deadline passed, slashed, no budget, no room.
PlansNothing(v) ==
  /\ ~PlansProof(v) /\ ~PlansSeal(v)
  /\ \A intent \in Intents : ~PlansSign(v, intent)

-----------------------------------------------------------------------------
(* tick_pin: the reads. *)

ReadPin ==
  /\ pc = "pin"
  /\ view' = [NoView EXCEPT !.registered = pin.registered, !.status = pin.status,
                            !.round = pin.round, !.claimed = pin.claimed,
                            !.bond = pin.bond, !.open = pin.open, !.nonce = Nonce]
  /\ pc' = "slot"

Live == slot.others + (IF pin.status = "Active" THEN 1 ELSE 0)

\* What plan_pin only looks at while there is no pin is only kept then.
ReadSlot ==
  /\ pc = "slot"
  /\ view' = [view EXCEPT !.funded = Unpinned(view) /\ slot.funded,
                          !.full = Unpinned(view) /\ Live >= Quorum]
  /\ pc' = "block"

\* The head against the deadline that was read with the pin.  That challenge may
\* be over by now, and its deadline on either side of the head.
ReadBlock ==
  /\ pc = "block"
  /\ \E closed \in IF view.open /\ view.nonce # Nonce THEN BOOLEAN
                   ELSE {view.open /\ pin.left < 0} :
       view' = [view EXCEPT !.closed = closed]
  /\ pc' = "funding"

ReadFunding ==
  /\ pc = "funding"
  /\ view' = [view EXCEPT !.backed = Unpinned(view) /\ slot.backed]
  /\ pc' = "plan"

Read ==
  /\ ReadPin \/ ReadSlot \/ ReadBlock \/ ReadFunding
  /\ UNCHANGED <<net, delay, wait, clock>>

-----------------------------------------------------------------------------
(* SlotFundingBackoff::after, and the wait it asks for. *)

Backoff(unfunded) ==
  /\ wait' = IF unfunded THEN delay ELSE BaseDelay
  /\ delay' = IF ~unfunded THEN BaseDelay
              ELSE IF 2 * delay <= MaxDelay THEN 2 * delay ELSE MaxDelay

EndTick(unfunded) ==
  /\ Backoff(unfunded)
  /\ pc' = "wait" /\ view' = NoView
  /\ spent' = 0
  /\ UNCHANGED <<age, outage>>

Wake ==
  /\ pc = "wait" /\ wait = 0
  /\ pc' = "pin"
  /\ UNCHANGED <<net, view, delay, wait, clock>>

-----------------------------------------------------------------------------
(* tick_pin: the plan, the sealer and the signer. *)

\* What the contract accepts (external).
CanSeed == slot.funded \/ slot.backed
Accepts(w) ==
  CASE w.intent = "registerPinner" -> ~pin.registered
    [] w.intent = "sealCommit" ->
         pin.registered /\ pin.status = "None" /\ CanSeed /\ slot.others < Quorum
    [] w.intent = "challenge" ->
         pin.status = "Active" /\ ~pin.open /\ pin.round < Rounds
    [] w.intent = "submitPoSt" ->
         pin.status = "Active" /\ pin.open /\ w = Answer /\ pin.left >= 0
    [] w.intent = "claim" -> pin.round > pin.claimed /\ pin.status # "Slashed"
    [] w.intent = "returnBond" -> pin.status = "Done" /\ pin.bond > 0

\* PinSigner::request, which ends the tick: taken (idempotent by calldata), or
\* reported as a revert.  A seal that lost the race for the slot's funding is a
\* hold, every other revert an error.
Request(w) ==
  /\ \/ net' = net \cup {w} /\ EndTick(FALSE)
     \/ ~Accepts(w) /\ EndTick(w.intent = "sealCommit" /\ ~CanSeed) /\ UNCHANGED net
  /\ UNCHANGED fails

Hold ==
  /\ PlansNothing(view)
  /\ EndTick(Unfunded(view))
  /\ UNCHANGED <<net, fails>>

\* A seal or a proof needs the replica's bytes, then the sealer.
Seal ==
  /\ PlansSeal(view) \/ PlansProof(view)
  /\ replica
  /\ pc' = "sealed"
  /\ UNCHANGED <<net, view, delay, wait, clock>>

Plan ==
  /\ pc = "plan"
  /\ \/ \E intent \in Intents : PlansSign(view, intent) /\ Request(Write(intent, 0))
     \/ Hold
     \/ Seal

Sealed ==
  /\ pc = "sealed"
  /\ \/ PlansSeal(view) /\ Request(Write("sealCommit", 0))
     \/ PlansProof(view) /\ Request(Write("submitPoSt", view.nonce))

\* No replica; a read or the sealer fails; the signer is absent or declines.
Fail ==
  /\ pc # "wait"
  /\ \/ pc = "plan" /\ ~replica /\ (PlansSeal(view) \/ PlansProof(view)) /\ UNCHANGED fails
     \/ fails < MaxFails /\ fails' = fails + 1
  /\ EndTick(FALSE)
  /\ UNCHANGED net

Proceed == Read \/ Plan \/ Sealed \/ Wake
Tick == (Proceed \/ Fail) /\ UNCHANGED <<chain, replica>>

-----------------------------------------------------------------------------
(* The contract and the network (external). *)

Effect(w) ==
  CASE w.intent = "registerPinner" -> [pin EXCEPT !.registered = TRUE]
    [] w.intent = "sealCommit" -> [pin EXCEPT !.status = "Active", !.bond = 1]
    [] w.intent = "challenge" -> [pin EXCEPT !.open = TRUE, !.left = Response]
    [] w.intent = "submitPoSt" ->
         [pin EXCEPT !.open = FALSE, !.left = 0, !.round = @ + 1,
                     !.status = IF pin.round + 1 = Rounds THEN "Done" ELSE @]
    [] w.intent = "claim" -> [pin EXCEPT !.claimed = pin.round]
    [] w.intent = "returnBond" -> [pin EXCEPT !.bond = 0]

\* Mined, or reverted.  A seal that seeds the slot's budget uses the backing.
Mine(w) ==
  /\ net' = net \ {w}
  /\ IF Accepts(w)
     THEN /\ pin' = Effect(w)
          /\ IF w.intent = "sealCommit"
             THEN \E backed \in {slot.backed, slot.funded /\ slot.backed} :
                    slot' = [slot EXCEPT !.funded = TRUE, !.backed = backed]
             ELSE UNCHANGED slot
     ELSE UNCHANGED chain
  /\ age' = IF w = Answer THEN 0 ELSE age
  /\ UNCHANGED <<replica, pc, view, delay, wait, spent, fails, outage>>

\* A challenge whose deadline has passed is anybody's to slash.
Slash ==
  /\ pin.open /\ pin.left < 0
  /\ \E slashed \in {TRUE, pin.missed = MaxMissed} :
       pin' = IF slashed
              THEN [pin EXCEPT !.open = FALSE, !.left = 0, !.bond = 0, !.status = "Slashed"]
              ELSE [pin EXCEPT !.open = FALSE, !.left = 0, !.missed = @ + 1]
  /\ age' = 0
  /\ UNCHANGED <<slot, net, replica, pc, view, delay, wait, spent, fails, outage>>

\* Governance funds the contract; other slots use it up; pinners come and go.
OtherPinners ==
  /\ \/ \E backed \in BOOLEAN : slot' = [slot EXCEPT !.backed = backed]
     \/ /\ Live < Quorum /\ CanSeed
        /\ \E backed \in BOOLEAN :
             slot' = [funded |-> TRUE, others |-> slot.others + 1,
                      backed |-> backed /\ slot.backed]
     \/ slot.others > 0 /\ slot' = [slot EXCEPT !.others = @ - 1]
  /\ UNCHANGED <<pin, net, replica, pc, view, delay, wait, clock>>

\* In normal operation a tick, and the mining of an answer, take their time.
InTime ==
  /\ IF pc = "wait" THEN wait > 0 ELSE spent < TickBlocks
  /\ Answer \in net => age < Latency

NewBlock ==
  /\ outage \/ InTime
  /\ pin' = IF pin.open /\ pin.left >= 0 THEN [pin EXCEPT !.left = @ - 1] ELSE pin
  /\ wait' = IF wait > 0 THEN wait - 1 ELSE 0
  /\ spent' = IF pc # "wait" /\ ~outage THEN spent + 1 ELSE 0
  /\ age' = IF Answer \in net /\ ~outage THEN age + 1 ELSE 0
  /\ UNCHANGED <<slot, net, replica, pc, view, delay, fails, outage>>

-----------------------------------------------------------------------------
(* The node's surroundings. *)

Fetch ==
  /\ ~replica /\ replica' = TRUE
  /\ UNCHANGED <<chain, net, pc, view, delay, wait, clock>>

\* From here on a tick and a transaction may take any time; the bytes may be lost.
Outage ==
  /\ outage' = TRUE
  /\ replica' \in {replica, FALSE}
  /\ spent' = 0 /\ age' = 0
  /\ UNCHANGED <<chain, net, pc, view, delay, wait, fails>>

Next ==
  \/ Tick \/ (\E w \in net : Mine(w)) \/ Slash \/ OtherPinners \/ NewBlock
  \/ Fetch \/ Outage

\* The loop goes on ticking (and no read, sealer or signer fails for ever, by
\* MaxFails); requested writes are mined, blocks are made, and a missed deadline is
\* slashed.
Fairness ==
  /\ WF_vars(Tick) /\ WF_vars(NewBlock) /\ WF_vars(Slash)
  /\ \A intent \in Intents : WF_vars(\E w \in net : w.intent = intent /\ Mine(w))

Spec == Init /\ [][Next]_vars /\ Fairness

-----------------------------------------------------------------------------
(* Properties. *)

Stages == {"pin", "slot", "block", "funding", "plan", "sealed", "wait"}
Statuses == {"None", "Active", "Done", "Slashed"}
Pins == [registered : BOOLEAN, status : Statuses, round : 0 .. Rounds,
         missed : 0 .. MaxMissed, claimed : 0 .. Rounds, bond : {0, 1},
         open : BOOLEAN, left : -1 .. Response]
Slots == [funded : BOOLEAN, others : 0 .. Quorum, backed : BOOLEAN]
Views == [registered : BOOLEAN, status : Statuses, round : 0 .. Rounds,
          claimed : 0 .. Rounds, bond : {0, 1}, open : BOOLEAN,
          nonce : 0 .. Rounds + MaxMissed, closed : BOOLEAN, funded : BOOLEAN,
          full : BOOLEAN, backed : BOOLEAN]

\* Every variable has its type; the backoff stays between its base and its
\* maximum however often the slot is found unfunded.
TypeOK ==
  /\ pin \in Pins /\ slot \in Slots /\ view \in Views
  /\ net \subseteq [intent : Intents, nonce : 0 .. Rounds + MaxMissed]
  /\ replica \in BOOLEAN /\ outage \in BOOLEAN
  /\ pc \in Stages
  /\ delay \in BaseDelay .. MaxDelay /\ wait \in 0 .. MaxDelay
  /\ spent \in 0 .. TickBlocks /\ age \in 0 .. Latency /\ fails \in 0 .. MaxFails

\* In normal operation no challenge is missed: whatever stale reads, repeated
\* requests and failed ticks come in between, answering comes first ("a missed
\* window is slashable") and the answer is mined before the deadline.
NeverMissed == ~outage => ~(pin.open /\ pin.left < 0)

\* A slot that keeps room and a budget (its own, or backing to seed one) gets a
\* replica from a node that has the bytes: no hold and no backoff is for ever.
SealsWhenItCan ==
  <>[](replica /\ CanSeed /\ slot.others < Quorum) => <>(pin.status # "None")

\* A bond comes back, with every round's reward claimed, unless the pin is
\* slashed.
PinPaysOff ==
  pin.bond > 0 ~>
    pin.status = "Slashed" \/ (pin.bond = 0 /\ pin.claimed = Rounds)
=============================================================================
