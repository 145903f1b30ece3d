------------------------- MODULE RelayQueue_proofs -------------------------
(***************************************************************************)
(* What TLAPS proves of module RelayQueue, for every cap, every set of     *)
(* writes, jobs and prices, and any number of restarts and of repeated     *)
(* reports.                                                                *)
(*                                                                         *)
(* Every operator of the queue leaves it alone, pushes one fresh entry, or *)
(* swaps one entry for another of the same id.  The invariant is proved    *)
(* once for each of these, and the operators are cases of them.            *)
(***************************************************************************)
EXTENDS RelayQueue, FiniteSetTheorems, WellFoundedInduction, TLAPS

Entry == Entries(Nat)

-----------------------------------------------------------------------------
(* What the operators of module SigningQueue do. *)

\* R keeps of Q's entries and the fresh one what the cap leaves.
Trimmed(Q, R, new) == R.entries = Evict(Q.entries \cup {new})

\* R is Q with the fresh entry new, less what the cap evicts.
Pushed(Q, R, new) ==
  /\ R = [entries |-> R.entries, nextId |-> R.nextId]
  /\ R.nextId = Q.nextId + 1
  /\ Trimmed(Q, R, new)
  /\ R.entries \subseteq Q.entries \cup {new}
  /\ new \in R.entries
  /\ \A e \in Q.entries : e.status = "pending" => e \in R.entries

\* R is Q with f in the place of e.
Swapped(Q, R, e, f) ==
  /\ R = [entries |-> R.entries, nextId |-> R.nextId]
  /\ R.nextId = Q.nextId
  /\ e \in Q.entries
  /\ R.entries = (Q.entries \ {e}) \cup {f}

\* A push evicts no pending entry, the fresh one included.
LEMMA PushIsPushed ==
  ASSUME NEW Q, NEW intent, NEW c, NEW key
  PROVE  Pushed(Q, Push(Q, intent, c, key), NewEntry(Q.nextId, intent, c, key))
<1> DEFINE new == NewEntry(Q.nextId, intent, c, key)
           all == Q.entries \cup {new}
<1>1. new.status = "pending"
  BY DEF NewEntry
<1>2. Push(Q, intent, c, key) = [entries |-> Evict(all), nextId |-> Q.nextId + 1]
  BY DEF Push
<1>3. Evict(all) \subseteq all /\ \A e \in all : e.status = "pending" => e \in Evict(all)
  BY DEF Evict
<1> HIDE DEF new
<1>4. \A e \in Q.entries : e.status = "pending" => e \in Evict(all)
  BY <1>3
<1>5. new \in Evict(all)
  BY <1>1, <1>3
<1>6. /\ Push(Q, intent, c, key).entries = Evict(all)
      /\ Push(Q, intent, c, key).nextId = Q.nextId + 1
      /\ Push(Q, intent, c, key) = [entries |-> Evict(all), nextId |-> Q.nextId + 1]
  BY <1>2
<1> HIDE DEF all
<1>7. Evict(all) \subseteq Q.entries \cup {new}
  BY <1>3 DEF all
<1>8. Trimmed(Q, Push(Q, intent, c, key), new)
  BY <1>6 DEF Trimmed, all
<1> QED BY <1>4, <1>5, <1>6, <1>7, <1>8 DEF Pushed, new

\* Where only one entry is looked for, it is the one that is found.
LEMMA FirstOfOne ==
  ASSUME NEW S, NEW e \in S, e.id \in Nat, \A o \in S : o = e
  PROVE  First(S) = e
<1>1. \A o \in S : e.id <= o.id
  OBVIOUS
<1>2. First(S) \in S
  BY <1>1 DEF First
<1> QED BY <1>2

-----------------------------------------------------------------------------
(* What every queue satisfies. *)

\* An entry and its key, intent, status and hash fit together.
FitsTogether(e) ==
  /\ e \in Entry
  /\ (e.status = "submitted") <=> (e.tx # NoTx)
  /\ (e.intent = "bidOnJob") <=> (e.key # NoKey)
  /\ (e.intent = "heartbeat") <=> (e.calldata = Beat)
  /\ e.key = NoKey => e.calldata \notin Bids
  /\ e.key # NoKey => e.calldata \in Bids /\ e.calldata[1] = e.key

\* Two entries of the queue are two writes.
Differ(e, f) ==
  /\ e.id # f.id
  /\ e.key = NoKey /\ f.key = NoKey => e.calldata # f.calldata
  /\ e.key # NoKey => e.key # f.key

WellKept(Q) ==
  /\ Q \in [entries : SUBSET Entry, nextId : Nat]
  /\ \A e \in Q.entries : FitsTogether(e) /\ e.id < Q.nextId
  /\ \A e, f \in Q.entries : e # f => Differ(e, f)

\* R is Q with a fresh pending entry for a write that has none.
Adds(Q, R, new) ==
  /\ Pushed(Q, R, new)
  /\ FitsTogether(new) /\ new.id = Q.nextId /\ new.status = "pending"
  /\ \A e \in Q.entries :
       /\ e.key = NoKey /\ new.key = NoKey => e.calldata # new.calldata
       /\ new.key # NoKey => e.key # new.key

\* R is Q with one entry in another state of the same write.
Changes(Q, R, e, f) ==
  /\ Swapped(Q, R, e, f)
  /\ FitsTogether(f) /\ f.id = e.id /\ f.intent = e.intent /\ f.key = e.key
  /\ e.key = NoKey => f.calldata = e.calldata

\* A fresh entry that differs from all others keeps the queue well kept.
LEMMA AddingKeeps ==
  ASSUME NEW Q, NEW R, NEW new, WellKept(Q), Adds(Q, R, new)
  PROVE  WellKept(R)
<1>1. R.nextId = Q.nextId + 1 /\ \A e \in R.entries : e \in Q.entries \/ e = new
  BY DEF Adds, Pushed
<1>2. /\ Q.nextId \in Nat
      /\ \A e \in Q.entries : e.id \in Nat /\ FitsTogether(e) /\ e.id < Q.nextId
  BY DEF WellKept, FitsTogether, Entry, Entries
<1>3. R.nextId \in Nat /\ \A e \in R.entries : FitsTogether(e) /\ e.id < R.nextId
  BY <1>1, <1>2 DEF Adds
<1>4. R \in [entries : SUBSET Entry, nextId : Nat]
  <2>1. R.entries \in SUBSET Entry
    BY <1>3 DEF FitsTogether
  <2> QED BY <2>1, <1>3 DEF Adds, Pushed
<1>5. \A e \in Q.entries : Differ(e, new) /\ Differ(new, e)
  BY <1>2 DEF Adds, Differ
<1>6. \A e, f \in R.entries : e # f => Differ(e, f)
  BY <1>1, <1>5 DEF WellKept
<1> QED BY <1>3, <1>4, <1>6 DEF WellKept

\* So does an entry that is swapped for another state of the same write.
LEMMA ChangingKeeps ==
  ASSUME NEW Q, NEW R, NEW e, NEW f, WellKept(Q), Changes(Q, R, e, f)
  PROVE  WellKept(R)
<1>1. R.nextId = Q.nextId /\ e \in Q.entries
      /\ \A o \in R.entries : o = f \/ (o \in Q.entries /\ o # e)
  BY DEF Changes, Swapped
<1>2. R.nextId \in Nat /\ \A o \in R.entries : FitsTogether(o) /\ o.id < R.nextId
  BY <1>1 DEF WellKept, Changes
<1>3. R \in [entries : SUBSET Entry, nextId : Nat]
  <2>1. R.entries \in SUBSET Entry
    BY <1>2 DEF FitsTogether
  <2> QED BY <2>1, <1>2 DEF Changes, Swapped
<1>4. \A o \in Q.entries : o # e => Differ(o, f) /\ Differ(f, o)
  BY <1>1 DEF WellKept, Changes, Differ
<1>5. \A a, b \in R.entries : a # b => Differ(a, b)
  BY <1>1, <1>4 DEF WellKept
<1> QED BY <1>2, <1>3, <1>5 DEF WellKept

\* Replace swaps.
LEMMA ReplaceSwaps ==
  ASSUME NEW Q \in [entries : SUBSET Entry, nextId : Nat], NEW e \in Q.entries, NEW f
  PROVE  Swapped(Q, Replace(Q, e, f), e, f)
<1>1. Replace(Q, e, f) = [entries |-> (Q.entries \ {e}) \cup {f}, nextId |-> Q.nextId]
  BY DEF Replace
<1> QED BY <1>1 DEF Swapped

-----------------------------------------------------------------------------
(* Each operator adds one entry, changes one, or leaves the queue alone. *)

\* A write of the lifecycle, or the first heartbeat.
LEMMA EnqueueAdds ==
  ASSUME NEW Q, WellKept(Q), NEW intent \in {"write", "heartbeat"},
         NEW c \in OneShots \cup {Beat}, (intent = "heartbeat") <=> (c = Beat)
  PROVE  LET R == Enqueue(Q, intent, c) IN R = Q \/ \E new \in Entry : Adds(Q, R, new)
<1>1. CASE SameCalldata(Q, c) # {}
  BY <1>1 DEF Enqueue
<1>2. CASE SameCalldata(Q, c) = {}
  <2> DEFINE new == NewEntry(Q.nextId, intent, c, NoKey)
             R == Push(Q, intent, c, NoKey)
  <2>1. Pushed(Q, R, new) /\ Enqueue(Q, intent, c) = R
    BY <1>2, PushIsPushed DEF Enqueue
  <2>2. new \in Entry
    BY DEF WellKept, NewEntry, Entry, Entries, Calldatas
  <2>3. FitsTogether(new) /\ new.id = Q.nextId /\ new.status = "pending" /\ new.key = NoKey
        /\ new.calldata = c
    BY <2>2, RelayAssumption DEF FitsTogether, NewEntry, Bids
  <2>4. \A e \in Q.entries : e.calldata # c
    BY <1>2 DEF SameCalldata
  <2> HIDE DEF new, R
  <2>5. Adds(Q, R, new)
    BY <2>1, <2>3, <2>4 DEF Adds
  <2> QED BY <2>1, <2>2, <2>5
<1> QED BY <1>1, <1>2

\* A heartbeat is asked for, or armed again.
LEMMA RecurringAddsOrArms ==
  ASSUME NEW Q, WellKept(Q)
  PROVE  LET R == EnqueueRecurring(Q, "heartbeat", Beat)
         IN \/ R = Q
            \/ \E new \in Entry : Adds(Q, R, new)
            \/ \E e \in Q.entries :
                 /\ e.intent = "heartbeat" /\ e.status = "submitted"
                 /\ Changes(Q, R, e, [e EXCEPT !.status = "pending", !.tx = NoTx])
<1> DEFINE same == SameCalldata(Q, Beat)
<1>1. CASE same = {}
  BY <1>1, EnqueueAdds DEF EnqueueRecurring
<1>2. CASE same # {}
  <2>1. PICK e \in same : TRUE
    BY <1>2
  <2>2. e \in Q.entries /\ e.calldata = Beat /\ FitsTogether(e) /\ e \in Entry
    BY <2>1 DEF SameCalldata, WellKept, FitsTogether
  <2>3. Beat \notin Bids
    BY RelayAssumption DEF Bids
  <2>4. \A o \in same : o = e
    BY <2>1, <2>2, <2>3 DEF SameCalldata, WellKept, FitsTogether, Differ
  <2>5. First(same) = e
    BY <2>1, <2>2, <2>4, FirstOfOne DEF Entry, Entries
  <2>6. CASE e.status = "pending"
    BY <1>2, <2>5, <2>6 DEF EnqueueRecurring
  <2>7. CASE e.status = "submitted"
    <3> DEFINE f == [e EXCEPT !.status = "pending", !.tx = NoTx]
    <3>1. EnqueueRecurring(Q, "heartbeat", Beat) = Replace(Q, e, f)
      BY <1>2, <2>5, <2>7 DEF EnqueueRecurring
    <3>2. f \in Entry /\ f.status = "pending" /\ f.tx = NoTx /\ f.id = e.id
          /\ f.intent = e.intent /\ f.key = e.key /\ f.calldata = e.calldata
      BY <2>2 DEF Entry, Entries
    <3>3. Swapped(Q, Replace(Q, e, f), e, f)
      BY <2>2, ReplaceSwaps DEF WellKept
    <3> HIDE DEF f
    <3>4. Changes(Q, Replace(Q, e, f), e, f)
      BY <2>2, <3>2, <3>3 DEF Changes, FitsTogether
    <3> QED BY <2>2, <2>7, <3>1, <3>4 DEF FitsTogether, f
  <2> QED BY <2>2, <2>6, <2>7 DEF Entry, Entries
<1> QED BY <1>1, <1>2

\* A bid is asked for, or takes a new price while it is pending.
LEMMA SupersedingAddsOrReprices ==
  ASSUME NEW Q, WellKept(Q), NEW j \in Jobs, NEW p \in Prices
  PROVE  LET R == EnqueueSuperseding(Q, "bidOnJob", j, <<j, p>>)
         IN \/ R = Q
            \/ \E new \in Entry : Adds(Q, R, new)
            \/ \E e \in Q.entries :
                 /\ e.key # NoKey /\ e.status = "pending"
                 /\ Changes(Q, R, e, [e EXCEPT !.calldata = <<j, p>>])
<1> DEFINE same == SameKey(Q, "bidOnJob", j)
           R == EnqueueSuperseding(Q, "bidOnJob", j, <<j, p>>)
<1>1. j # NoKey /\ <<j, p>> \in Bids /\ <<j, p>> \notin OneShots \cup {Beat}
      /\ <<j, p>>[1] = j
  BY RelayAssumption DEF Bids
<1>2. CASE same = {}
  <2> DEFINE new == NewEntry(Q.nextId, "bidOnJob", <<j, p>>, j)
  <2>1. R = Push(Q, "bidOnJob", <<j, p>>, j) /\ Pushed(Q, R, new)
    BY <1>2, PushIsPushed DEF EnqueueSuperseding
  <2>2. new \in Entry
    BY <1>1 DEF WellKept, NewEntry, Entry, Entries, Calldatas
  <2>3. FitsTogether(new) /\ new.id = Q.nextId /\ new.status = "pending" /\ new.key = j
    BY <1>1, <2>2 DEF FitsTogether, NewEntry
  <2>4. \A e \in Q.entries : e.key # j
    BY <1>1, <1>2 DEF SameKey, WellKept, FitsTogether
  <2> HIDE DEF new, R
  <2>5. Adds(Q, R, new)
    BY <1>1, <2>1, <2>3, <2>4 DEF Adds
  <2> QED BY <2>2, <2>5 DEF R
<1>3. CASE same # {}
  <2>1. PICK e \in same : TRUE
    BY <1>3
  <2>2. e \in Q.entries /\ e.key = j /\ e.intent = "bidOnJob" /\ FitsTogether(e) /\ e \in Entry
    BY <2>1 DEF SameKey, WellKept, FitsTogether
  <2>3. \A o \in same : o = e
    BY <1>1, <2>1, <2>2 DEF SameKey, WellKept, Differ
  <2>4. First(same) = e
    BY <2>1, <2>2, <2>3, FirstOfOne DEF Entry, Entries
  <2>5. CASE e.status = "submitted"
    BY <1>3, <2>4, <2>5 DEF EnqueueSuperseding
  <2>6. CASE e.status = "pending"
    <3> DEFINE f == [e EXCEPT !.calldata = <<j, p>>]
    <3>1. R = Replace(Q, e, f)
      BY <1>3, <2>4, <2>6 DEF EnqueueSuperseding
    <3>2. f \in Entry /\ f.status = e.status /\ f.tx = e.tx /\ f.id = e.id
          /\ f.intent = e.intent /\ f.key = e.key /\ f.calldata = <<j, p>>
      BY <1>1, <2>2 DEF Entry, Entries, Calldatas
    <3>3. Swapped(Q, Replace(Q, e, f), e, f)
      BY <2>2, ReplaceSwaps DEF WellKept
    <3>4. FitsTogether(f)
      <4> HIDE DEF f
      <4> QED BY <1>1, <2>2, <3>2 DEF FitsTogether
    <3>5. Changes(Q, R, e, f)
      <4> HIDE DEF f, R
      <4>1. Swapped(Q, R, e, f)
        BY <3>1, <3>3
      <4> QED BY <1>1, <2>2, <3>2, <3>4, <4>1 DEF Changes
    <3> QED BY <1>1, <2>2, <2>6, <3>5
  <2> QED BY <2>2, <2>5, <2>6 DEF Entry, Entries
<1> QED BY <1>2, <1>3

\* A report marks the entry it names, and no other.
LEMMA ObserveSubmits ==
  ASSUME NEW Q, WellKept(Q), NEW id \in Nat, NEW tx \in Nat
  PROVE  LET R == Observe(Q, id, tx)
         IN \/ R = Q /\ ~Known(Q, id)
            \/ \E e \in Q.entries :
                 /\ e.id = id /\ Known(Q, id)
                 /\ Changes(Q, R, e, [e EXCEPT !.status = "submitted", !.tx = tx])
<1>1. CASE ~Known(Q, id)
  BY <1>1 DEF Observe
<1>2. CASE Known(Q, id)
  <2>1. PICK e \in Q.entries : e.id = id
    BY <1>2 DEF Known
  <2>2. FitsTogether(e) /\ e \in Entry
    BY DEF WellKept, FitsTogether
  <2>3. EntryOf(Q, id) = e
    <3>1. \A o \in {o \in Q.entries : o.id = id} : o = e
      BY <2>1 DEF WellKept, Differ
    <3> QED BY <2>1, <3>1, FirstOfOne DEF EntryOf
  <2> DEFINE f == [e EXCEPT !.status = "submitted", !.tx = tx]
  <2>4. Observe(Q, id, tx) = Replace(Q, e, f)
    BY <1>2, <2>3 DEF Observe
  <2>5. f \in Entry /\ f.status = "submitted" /\ f.tx = tx /\ f.id = e.id
        /\ f.intent = e.intent /\ f.key = e.key /\ f.calldata = e.calldata
    BY <2>2 DEF Entry, Entries
  <2>6. Swapped(Q, Replace(Q, e, f), e, f)
    BY ReplaceSwaps DEF WellKept
  <2>7. Changes(Q, Replace(Q, e, f), e, f)
    <3> HIDE DEF f
    <3>1. tx # NoTx
      BY RelayAssumption
    <3> QED BY <2>2, <2>5, <2>6, <3>1 DEF Changes, FitsTogether
  <2> QED BY <1>2, <2>1, <2>4, <2>7
<1> QED BY <1>1, <1>2

-----------------------------------------------------------------------------
(* The queue along a step, and the properties that only need it. *)

\* A change of an entry that a step may make: a heartbeat is armed again, a pending
\* entry takes a new price, or an entry is reported.
Allowed(e, f) ==
  /\ e.status = "submitted" /\ f.status = "pending" => e.intent = "heartbeat"
  /\ f.status = "submitted" /\ (e.status = "pending" \/ e.key = NoKey)
       => \E r \in receipts : r.id = e.id /\ f.tx = r.tx

\* What a step that is not a restart does to the queue.
Kept ==
  \/ q' = q
  \/ \E new \in Entry : Adds(q, q', new)
  \/ \E e \in q.entries, f \in Entry : Changes(q, q', e, f) /\ Allowed(e, f)

Surfaces == receipts \in SUBSET [id : Nat, tx : Nat]

\* A step adds an entry, changes one as its status allows, or starts over.
LEMMA StepKeepsQueue ==
  WellKept(q) /\ Surfaces /\ [Next]_vars => Kept \/ Restart
<1> SUFFICES ASSUME WellKept(q), Surfaces, [Next]_vars PROVE Kept \/ Restart
  OBVIOUS
<1>1. ASSUME NEW c \in OneShots, RequestWrite(c) PROVE Kept
  BY <1>1, EnqueueAdds, RelayAssumption DEF RequestWrite, Kept
<1>2. ASSUME RequestHeartbeat PROVE Kept
  <2>1. ASSUME NEW e \in q.entries, e.intent = "heartbeat", e.status = "submitted",
               Changes(q, q', e, [e EXCEPT !.status = "pending", !.tx = NoTx])
        PROVE  Kept
    <3> DEFINE f == [e EXCEPT !.status = "pending", !.tx = NoTx]
    <3>1. e \in Entry
      BY DEF WellKept, FitsTogether
    <3>2. f.status = "pending"
      BY <3>1 DEF Entry, Entries
    <3>3. f \in Entry
      BY <2>1 DEF Changes, FitsTogether
    <3> HIDE DEF f
    <3> QED BY <2>1, <3>2, <3>3 DEF Kept, Allowed, f
  <2> QED BY <1>2, <2>1, RecurringAddsOrArms DEF RequestHeartbeat, Kept
<1>3. ASSUME NEW j \in Jobs, NEW p \in Prices, RequestBid(j, p) PROVE Kept
  <2>1. ASSUME NEW e \in q.entries, e.key # NoKey, e.status = "pending",
               Changes(q, q', e, [e EXCEPT !.calldata = <<j, p>>])
        PROVE  Kept
    <3> DEFINE f == [e EXCEPT !.calldata = <<j, p>>]
    <3>1. e \in Entry
      BY DEF WellKept, FitsTogether
    <3>2. f.status = "pending"
      BY <2>1, <3>1 DEF Entry, Entries
    <3>3. f \in Entry
      BY <2>1 DEF Changes, FitsTogether
    <3> HIDE DEF f
    <3> QED BY <2>1, <3>2, <3>3 DEF Kept, Allowed, f
  <2> QED BY <1>3, <2>1, SupersedingAddsOrReprices DEF RequestBid, Kept
<1>4. ASSUME NEW r \in receipts, NEW again \in {FALSE, RepeatReports}, Report(r, again)
      PROVE  Kept
  <2>1. r.id \in Nat /\ r.tx \in Nat
    BY DEF Surfaces
  <2>2. q' = Observe(q, r.id, r.tx)
    BY <1>4 DEF Report, MarkRequestObserved
  <2>3. ASSUME NEW e \in q.entries, e.id = r.id,
               Changes(q, q', e, [e EXCEPT !.status = "submitted", !.tx = r.tx])
        PROVE  Kept
    <3> DEFINE f == [e EXCEPT !.status = "submitted", !.tx = r.tx]
    <3>1. e \in Entry
      BY DEF WellKept, FitsTogether
    <3>2. f.status = "submitted" /\ f.tx = r.tx
      BY <3>1 DEF Entry, Entries
    <3>3. f \in Entry
      BY <2>3 DEF Changes, FitsTogether
    <3> HIDE DEF f
    <3> QED BY <2>3, <3>2, <3>3 DEF Kept, Allowed, f
  <2> QED BY <2>1, <2>2, <2>3, ObserveSubmits DEF Kept
<1>5. CASE (\E e \in q.entries : Sign(e)) \/ UNCHANGED vars
  BY <1>5 DEF Sign, vars, Kept
<1> QED BY <1>1, <1>2, <1>3, <1>4, <1>5 DEF Next

\* A queue that is kept stays well kept.
LEMMA KeptIsWellKept == WellKept(q) /\ Kept => WellKept(q)'
<1> SUFFICES ASSUME WellKept(q), Kept PROVE WellKept(q')
  OBVIOUS
<1>1. ASSUME NEW new \in Entry, Adds(q, q', new) PROVE WellKept(q')
  BY <1>1, AddingKeeps
<1>2. ASSUME NEW e \in q.entries, NEW f \in Entry, Changes(q, q', e, f) PROVE WellKept(q')
  BY <1>2, ChangingKeeps
<1> QED BY <1>1, <1>2 DEF Kept

\* Variables other than the queue.
Others ==
  /\ beats \in Nat /\ restarts \in Nat
  /\ Surfaces
  /\ sent \in Seq(Calldatas)

\* The state outside the queue keeps its type.
LEMMA OthersKept == WellKept(q) /\ Others /\ [Next]_vars => Others'
<1> SUFFICES ASSUME WellKept(q), Others, [Next]_vars PROVE Others'
  OBVIOUS
<1> USE DEF Others, Surfaces
<1>1. ASSUME NEW c \in OneShots, RequestWrite(c) PROVE Others'
  BY <1>1 DEF RequestWrite
<1>2. CASE RequestHeartbeat
  BY <1>2 DEF RequestHeartbeat
<1>3. ASSUME NEW j \in Jobs, NEW p \in Prices, RequestBid(j, p) PROVE Others'
  BY <1>3 DEF RequestBid
<1>4. ASSUME NEW e \in q.entries, Sign(e) PROVE Others'
  <2>1. e.id \in Nat /\ e.calldata \in Calldatas
    BY DEF WellKept, FitsTogether, Entry, Entries
  <2>2. [id |-> e.id, tx |-> Len(sent) + 1] \in [id : Nat, tx : Nat]
    BY <2>1
  <2> QED BY <1>4, <2>1, <2>2 DEF Sign
<1>5. ASSUME NEW r \in receipts, NEW again \in {FALSE, RepeatReports}, Report(r, again)
      PROVE  Others'
  BY <1>5 DEF Report, MarkRequestObserved
<1>6. CASE Restart
  BY <1>6 DEF Restart
<1>7. CASE UNCHANGED vars
  BY <1>7 DEF vars
<1> QED BY <1>1, <1>2, <1>3, <1>4, <1>5, <1>6, <1>7 DEF Next

\* The queue is always well kept.
LEMMA AlwaysWellKept == Spec => [](WellKept(q) /\ Others)
<1>1. WellKept(EmptyQueue)
  BY DEF EmptyQueue, WellKept
<1>2. Init => WellKept(q) /\ Others
  BY <1>1 DEF Init, Others, Surfaces
<1>3. WellKept(q) /\ Others /\ [Next]_vars => WellKept(q)'
  BY <1>1, StepKeepsQueue, KeptIsWellKept DEF Restart, Others
<1> QED BY <1>2, <1>3, OthersKept, PTL DEF Spec

\* The queue never shows the surface two requests for one write (NA-B-004).
THEOREM NoDuplicates == Spec => []NoDuplicateWrites
<1>1. WellKept(q) => NoDuplicateWrites
  BY DEF WellKept, NoDuplicateWrites, Differ
<1> QED BY <1>1, AlwaysWellKept, PTL

\* Every variable keeps its type; a re-armed heartbeat shows no stale hash.
THEOREM TypeCorrect == Spec => []TypeOK
<1>1. WellKept(q) /\ Others => TypeOK
  <2> SUFFICES ASSUME WellKept(q), Others PROVE TypeOK
    OBVIOUS
  <2>1. q.nextId \in Nat
    BY DEF WellKept
  <2>2. \A e \in q.entries : e \in Entries(0 .. q.nextId - 1)
    BY <2>1 DEF WellKept, FitsTogether, Entry, Entries
  <2>3. \A e \in q.entries : (e.status = "submitted") <=> (e.tx # NoTx)
    BY DEF WellKept, FitsTogether
  <2> QED BY <2>1, <2>2, <2>3 DEF TypeOK, Others, Surfaces
<1> QED BY <1>1, AlwaysWellKept, PTL

\* Only the heartbeat is armed again after its broadcast: no re-emitted write, late
\* report or new price makes a signed write signable a second time.
THEOREM NothingElseRearms == Spec => OneShotNeverRearmed
<1> DEFINE Action == restarts' = restarts =>
                       \A e \in q.entries, f \in q'.entries :
                         e.id = f.id /\ e.status = "submitted" /\ f.status = "pending"
                           => e.intent = "heartbeat"
<1>1. WellKept(q) /\ Others /\ [Next]_vars => [Action]_vars
  <2> SUFFICES ASSUME WellKept(q), Others, [Next]_vars, restarts' = restarts,
                      NEW e \in q.entries, NEW f \in q'.entries,
                      e.id = f.id, e.status = "submitted", f.status = "pending"
               PROVE  e.intent = "heartbeat"
    OBVIOUS
  <2>1. Kept
    BY StepKeepsQueue DEF Others, Restart
  <2>2. \A o \in q.entries : o.id = e.id => o = e
    BY DEF WellKept, Differ
  <2>3. e.id < q.nextId /\ e.id \in Nat /\ q.nextId \in Nat
    BY DEF WellKept, FitsTogether, Entry, Entries
  <2>4. ASSUME NEW new \in Entry, Adds(q, q', new) PROVE FALSE
    BY <2>2, <2>3, <2>4 DEF Adds, Pushed
  <2>5. ASSUME NEW o \in q.entries, NEW g \in Entry, Changes(q, q', o, g), Allowed(o, g)
        PROVE  e.intent = "heartbeat"
    BY <2>2, <2>5 DEF Changes, Swapped, Allowed
  <2> QED BY <2>1, <2>2, <2>4, <2>5 DEF Kept
<1> QED BY <1>1, AlwaysWellKept, PTL DEF Spec, OneShotNeverRearmed

\* While the daemon runs, what awaits the signer is neither dropped nor marked
\* submitted by another write's report.
THEOREM PendingIsKept == Spec => PendingKept
<1> DEFINE Action == restarts' = restarts =>
                       \A e \in q.entries : e.status = "pending" =>
                         \E f \in q'.entries :
                           f.id = e.id
                             /\ (f.status = "pending" \/ \E r \in receipts : r.id = e.id)
<1>1. WellKept(q) /\ Others /\ [Next]_vars => [Action]_vars
  <2> SUFFICES ASSUME WellKept(q), Others, [Next]_vars, restarts' = restarts,
                      NEW e \in q.entries, e.status = "pending"
               PROVE  \E f \in q'.entries :
                        f.id = e.id
                          /\ (f.status = "pending" \/ \E r \in receipts : r.id = e.id)
    OBVIOUS
  <2>1. Kept
    BY StepKeepsQueue DEF Others, Restart
  <2>2. ASSUME NEW new \in Entry, Adds(q, q', new) PROVE e \in q'.entries
    BY <2>2 DEF Adds, Pushed
  <2>3. ASSUME NEW o \in q.entries, NEW g \in Entry, Changes(q, q', o, g), Allowed(o, g)
        PROVE  \/ e \in q'.entries
               \/ /\ g \in q'.entries /\ g.id = e.id
                  /\ g.status = "pending" \/ \E r \in receipts : r.id = e.id
    BY <2>3 DEF Changes, Swapped, Allowed, Entry, Entries
  <2> QED BY <2>1, <2>2, <2>3 DEF Kept
<1> QED BY <1>1, AlwaysWellKept, PTL DEF Spec, PendingKept

-----------------------------------------------------------------------------
(* The retention cap. *)

\* The ids of a queue number its entries: they are as many as the ids at most.
LEMMA IdsInject ==
  ASSUME NEW Q, WellKept(Q)
  PROVE  /\ [e \in Q.entries |-> e.id] \in Injection(Q.entries, 0 .. Q.nextId - 1)
         /\ IsFiniteSet(0 .. Q.nextId - 1) /\ Cardinality(0 .. Q.nextId - 1) = Q.nextId
<1> DEFINE n == Q.nextId
           f == [e \in Q.entries |-> e.id]
<1>1. n \in Nat /\ \A e \in Q.entries : e.id \in Nat /\ e.id < n
  BY DEF WellKept, FitsTogether, Entry, Entries
<1>2. f \in [Q.entries -> 0 .. n - 1]
  BY <1>1
<1>3. \A d, e \in Q.entries : f[d] = f[e] => d = e
  BY DEF WellKept, Differ
<1>4. f \in Injection(Q.entries, 0 .. n - 1)
  BY <1>2, <1>3 DEF Injection, IsInjective
<1>5. IsFiniteSet(0 .. n - 1) /\ Cardinality(0 .. n - 1) = n
  <2>1. 0 \in Int /\ n - 1 \in Int /\ (IF 0 > n - 1 THEN 0 ELSE (n - 1) - 0 + 1) = n
    BY <1>1
  <2> HIDE DEF n
  <2> QED BY <2>1, FS_Interval
<1> QED BY <1>4, <1>5

\* A set of naturals has a least one.
LEMMA LeastNatural ==
  ASSUME NEW T \in SUBSET Nat, T # {}
  PROVE  \E x \in T : \A y \in T : x <= y
<1> DEFINE R == {ss \in Nat \X Nat : ss[1] < ss[2]}
<1>1. IsWellFoundedOn(R, Nat)
  BY NatLessThanWellFounded DEF OpToRel
<1>2. PICK x \in T : \A y \in T : ~ (<<y, x>> \in R)
  <2> HIDE DEF R
  <2> QED BY <1>1, WFMin
<1>3. \A y \in T : ~(y < x)
  BY <1>2
<1> QED BY <1>3

\* Where a submitted entry survives the cap, the overflow is gone: all that are
\* older than the first survivor went, and they are as many as the overflow.
LEMMA EvictMeetsCap ==
  ASSUME NEW E, IsFiniteSet(E), \A e \in E : e.id \in Nat,
         NEW kept \in Evict(E), kept.status = "submitted"
  PROVE  Cardinality(Evict(E)) <= Cap
<1> DEFINE older(e) == {o \in E : o.status = "submitted" /\ o.id < e.id}
           survivors == {e \in Evict(E) : e.status = "submitted"}
           gone == E \ Evict(E)
<1>1. Evict(E) \subseteq E
  BY DEF Evict
<1>2. PICK e \in survivors : \A o \in survivors : e.id <= o.id
  <2> DEFINE ids == {o.id : o \in survivors}
  <2>1. ids \in SUBSET Nat /\ ids # {}
    BY <1>1
  <2>2. PICK x \in ids : \A y \in ids : x <= y
    <3> HIDE DEF ids
    <3> QED BY <2>1, LeastNatural
  <2> QED BY <2>2
<1>3. Cardinality(older(e)) >= Cardinality(E) - Cap
  BY <1>2 DEF Evict
<1>4. older(e) \subseteq gone
  BY <1>1, <1>2
<1>5. IsFiniteSet(gone) /\ IsFiniteSet(Evict(E)) /\ Cardinality(older(e)) <= Cardinality(gone)
  BY <1>1, <1>4, FS_Subset
<1>6. Cardinality(E) = Cardinality(Evict(E)) + Cardinality(gone)
  <2>1. E = Evict(E) \cup gone /\ Evict(E) \cap gone = {}
    BY <1>1
  <2> HIDE DEF gone
  <2>2. Cardinality(E) = Cardinality(Evict(E)) + Cardinality(gone) - Cardinality({})
    BY <1>5, <2>1, FS_Union
  <2>3. Cardinality({}) = 0 /\ Cardinality(Evict(E)) \in Nat /\ Cardinality(gone) \in Nat
    BY <1>5, FS_EmptySet, FS_CardinalityType
  <2> QED BY <2>2, <2>3
<1>7. /\ Cardinality(E) \in Nat /\ Cardinality(Evict(E)) \in Nat
      /\ Cardinality(gone) \in Nat /\ Cardinality(older(e)) \in Nat
  <2>1. IsFiniteSet(older(e))
    BY <1>4, <1>5, FS_Subset
  <2> HIDE DEF gone, older
  <2> QED BY <1>5, <2>1, FS_CardinalityType
<1> HIDE DEF gone, older
<1> QED BY <1>3, <1>5, <1>6, <1>7, RelayAssumption

\* A new request leaves no more entries than the cap, unless all await the signer:
\* whatever mixture of pending and submitted entries the reports left behind.
THEOREM RetentionIsBounded == Spec => RetentionBounded
<1> DEFINE Action == q'.nextId > q.nextId =>
                       \/ Cardinality(q'.entries) <= Cap
                       \/ \A e \in q'.entries : e.status = "pending"
<1>1. WellKept(q) /\ Others /\ [Next]_vars => [Action]_vars
  <2> SUFFICES ASSUME WellKept(q), Others, [Next]_vars, q'.nextId > q.nextId
               PROVE  \/ Cardinality(q'.entries) <= Cap
                      \/ \A e \in q'.entries : e.status = "pending"
    OBVIOUS
  <2>1. q.nextId \in Nat
    BY DEF WellKept
  <2>2. ~Restart
    BY <2>1 DEF Restart, EmptyQueue
  <2>3. PICK new \in Entry : Adds(q, q', new)
    BY <2>1, <2>2, StepKeepsQueue DEF Others, Kept, Changes, Swapped
  <2> DEFINE all == q.entries \cup {new}
  <2>4. q'.entries = Evict(all)
    BY <2>3 DEF Adds, Pushed, Trimmed
  <2>5. \A e \in all : e.id \in Nat /\ e.status \in {"pending", "submitted"}
    BY <2>3 DEF WellKept, FitsTogether, Entry, Entries
  <2>6. IsFiniteSet(all)
    <3>1. IsFiniteSet(q.entries)
      BY IdsInject, FS_Injection
    <3> QED BY <3>1, FS_AddElement
  <2>7. Evict(all) \subseteq all
    BY DEF Evict
  <2> HIDE DEF all
  <2> QED BY <2>4, <2>5, <2>6, <2>7, EvictMeetsCap
<1> QED BY <1>1, AlwaysWellKept, PTL DEF Spec, RetentionBounded

-----------------------------------------------------------------------------
(* What the queue knows of the broadcasts of this run of the daemon: s is   *)
(* what was broadcast, rs what the surface has still to report.             *)

\* Every id that was handed out still has its entry.
AllThere(Q) == \A i \in 0 .. Q.nextId - 1 : \E e \in Q.entries : e.id = i

\* The reports that are due, and the hashes that were reported, are of broadcasts of
\* the entry's calldata.
Faithful(Q, rs, s) ==
  /\ \A r \in rs : r.id < Q.nextId /\ r.tx \in 1 .. Len(s)
  /\ \A r \in rs, e \in Q.entries : r.id = e.id /\ e.key = NoKey => s[r.tx] = e.calldata
  /\ \A e \in Q.entries :
       e.status = "submitted" /\ e.key = NoKey
         => e.tx \in 1 .. Len(s) /\ s[e.tx] = e.calldata

\* An entry that must not be signed again: it is submitted or its report is due.
Settled(e, rs) == e.status = "submitted" \/ \E r \in rs : r.id = e.id

\* Every broadcast but a heartbeat's has its entry, which is settled.
Remembered(Q, rs, s) ==
  \A n \in 1 .. Len(s) :
    s[n] # Beat => \E e \in Q.entries : SameWrite(e.calldata, s[n]) /\ Settled(e, rs)

Once(s) ==
  \A m, n \in 1 .. Len(s) : m # n /\ s[m] # Beat => ~SameWrite(s[m], s[n])

SInv ==
  restarts = 0 =>
    /\ Faithful(q, receipts, sent)
    /\ AllThere(q) => Remembered(q, receipts, sent) /\ Once(sent)

\* Ids are handed out in turn, so a queue of nextId entries has lost none.
LEMMA NothingEvictedMeansAllThere == WellKept(q) /\ NothingEvicted => AllThere(q)
<1> SUFFICES ASSUME WellKept(q), NothingEvicted PROVE AllThere(q)
  OBVIOUS
<1> DEFINE n == q.nextId
           f == [e \in q.entries |-> e.id]
<1>1. f \in Injection(q.entries, 0 .. n - 1)
  BY IdsInject
<1>2. IsFiniteSet(0 .. n - 1) /\ Cardinality(0 .. n - 1) = n
  BY IdsInject
<1>3. f \in Surjection(q.entries, 0 .. n - 1)
  BY <1>1, <1>2, FS_Injection DEF NothingEvicted
<1>4. \A i \in 0 .. n - 1 : \E e \in q.entries : f[e] = i
  BY <1>3 DEF Surjection
<1> QED BY <1>4 DEF AllThere

\* A fresh entry touches no report and no broadcast.
LEMMA AddingStaysFaithful ==
  ASSUME NEW Q, NEW R, NEW new, WellKept(Q), Adds(Q, R, new),
         NEW rs \in SUBSET [id : Nat, tx : Nat], NEW s, Faithful(Q, rs, s)
  PROVE  Faithful(R, rs, s)
<1>1. Q.nextId \in Nat /\ R.nextId = Q.nextId + 1
      /\ \A e \in R.entries : e \in Q.entries \/ e = new
  BY DEF WellKept, Adds, Pushed
<1>2. \A r \in rs : r.id \in Nat /\ r.id < R.nextId /\ r.id # new.id
  BY <1>1 DEF Faithful, Adds
<1> QED BY <1>1, <1>2 DEF Faithful, Adds

\* If no entry is missing after a push, none was before, and none has gone.
LEMMA AddingRemembers ==
  ASSUME NEW Q, NEW R, NEW new, WellKept(Q), Adds(Q, R, new), AllThere(R)
  PROVE  AllThere(Q) /\ Q.entries \subseteq R.entries
<1>1. Q.nextId \in Nat /\ R.nextId = Q.nextId + 1 /\ new.id = Q.nextId
      /\ \A e \in R.entries : e \in Q.entries \/ e = new
  BY DEF WellKept, Adds, Pushed
<1>2. AllThere(Q)
  BY <1>1 DEF AllThere
<1>3. ASSUME NEW e \in Q.entries PROVE e \in R.entries
  <2>1. e.id \in 0 .. Q.nextId - 1
    BY <1>1 DEF WellKept, FitsTogether, Entry, Entries
  <2>2. PICK d \in R.entries : d.id = e.id
    BY <1>1, <2>1 DEF AllThere
  <2>3. d \in Q.entries
    BY <1>1, <2>1, <2>2
  <2> QED BY <2>2, <2>3 DEF WellKept, Differ
<1> QED BY <1>2, <1>3

\* A change keeps what is there, and who has bid keeps having bid.
LEMMA ChangingRemembers ==
  ASSUME NEW Q, NEW R, NEW e, NEW f, WellKept(Q), Changes(Q, R, e, f), NEW rs, NEW ss,
         NEW s \in Seq(Calldatas),
         e.status = "submitted" /\ f.status = "pending" => e.intent = "heartbeat",
         \A o \in Q.entries : o # e /\ Settled(o, rs) => Settled(o, ss),
         Settled(e, rs) => Settled(f, ss) \/ e.intent = "heartbeat"
  PROVE  /\ AllThere(R) => AllThere(Q)
         /\ Remembered(Q, rs, s) => Remembered(R, ss, s)
<1>1. /\ e \in Q.entries /\ f \in R.entries /\ R.nextId = Q.nextId /\ f.id = e.id
      /\ \A o \in R.entries : o = f \/ o \in Q.entries
      /\ \A o \in Q.entries : o = e \/ o \in R.entries
  BY DEF Changes, Swapped
<1>2. AllThere(R) => AllThere(Q)
  BY <1>1 DEF AllThere
<1>3. ASSUME Remembered(Q, rs, s), NEW n \in 1 .. Len(s), s[n] # Beat
      PROVE  \E o \in R.entries : SameWrite(o.calldata, s[n]) /\ Settled(o, ss)
  <2>1. PICK o \in Q.entries : SameWrite(o.calldata, s[n]) /\ Settled(o, rs)
    BY <1>3 DEF Remembered
  <2>2. CASE o # e
    BY <1>1, <2>1, <2>2
  <2>3. CASE o = e
    <3>1. e.intent # "heartbeat"
      <4>1. FitsTogether(e) /\ Beat \notin Bids
        BY <1>1, RelayAssumption DEF WellKept, Bids
      <4> QED BY <1>3, <2>1, <2>3, <4>1 DEF SameWrite, FitsTogether
    <3>2. SameWrite(f.calldata, s[n])
      BY <1>1, <2>1, <2>3 DEF WellKept, SameWrite, Changes, FitsTogether
    <3> QED BY <1>1, <2>1, <2>3, <3>1, <3>2
  <2> QED BY <2>2, <2>3
<1> QED BY <1>2, <1>3 DEF Remembered

\* A change keeps every report and every hash true.
LEMMA KeptStaysFaithful ==
  WellKept(q) /\ Surfaces /\ Kept /\ Faithful(q, receipts, sent)
    => Faithful(q, receipts, sent) /\ Faithful(q', receipts, sent)
<1> SUFFICES ASSUME WellKept(q), Surfaces, Kept, Faithful(q, receipts, sent)
             PROVE  Faithful(q', receipts, sent)
  OBVIOUS
<1>1. ASSUME NEW new \in Entry, Adds(q, q', new) PROVE Faithful(q', receipts, sent)
  BY <1>1, AddingStaysFaithful DEF Surfaces
<1>2. ASSUME NEW e \in q.entries, NEW f \in Entry, Changes(q, q', e, f), Allowed(e, f)
      PROVE  Faithful(q', receipts, sent)
  <2>1. /\ q'.nextId = q.nextId /\ f.id = e.id /\ f.key = e.key
        /\ e.key = NoKey => f.calldata = e.calldata
        /\ \A o \in q'.entries : o = f \/ o \in q.entries
    BY <1>2 DEF Changes, Swapped
  <2>2. f.status = "submitted" /\ f.key = NoKey
          => f.tx \in 1 .. Len(sent) /\ sent[f.tx] = f.calldata
    BY <1>2, <2>1 DEF Allowed, Faithful
  <2> QED BY <2>1, <2>2 DEF Faithful
<1> QED BY <1>1, <1>2 DEF Kept

\* A writer of the daemon changes neither what is sent nor what is due.
LEMMA WriterKeepsSent ==
  ASSUME WellKept(q), Others, SInv, [Next]_vars, Kept, UNCHANGED <<receipts, sent, restarts>>,
         \A e \in q.entries, f \in Entry :
           Changes(q, q', e, f) /\ e.status = "submitted" /\ f.status = "pending"
             => e.intent = "heartbeat"
  PROVE  SInv'
<1> SUFFICES ASSUME restarts = 0
             PROVE  /\ Faithful(q', receipts, sent)
                    /\ AllThere(q') => Remembered(q', receipts, sent) /\ Once(sent)
  BY DEF SInv
<1>1. Faithful(q', receipts, sent)
  BY KeptStaysFaithful DEF SInv, Others
<1>2. ASSUME NEW new \in Entry, Adds(q, q', new), AllThere(q')
      PROVE  Remembered(q', receipts, sent) /\ Once(sent)
  <2>1. AllThere(q) /\ q.entries \subseteq q'.entries
    BY <1>2, AddingRemembers
  <2> QED BY <2>1 DEF SInv, Remembered
<1>3. ASSUME NEW e \in q.entries, NEW f \in Entry, Changes(q, q', e, f), AllThere(q')
      PROVE  Remembered(q', receipts, sent) /\ Once(sent)
  <2>1. e.status = "submitted" /\ f.status = "pending" => e.intent = "heartbeat"
    BY <1>3
  <2>2. Settled(e, receipts) => Settled(f, receipts) \/ e.intent = "heartbeat"
    BY <1>3, <2>1 DEF Settled, Changes, Entry, Entries
  <2>3. AllThere(q) /\ (Remembered(q, receipts, sent) => Remembered(q', receipts, sent))
    BY <1>3, <2>1, <2>2, ChangingRemembers DEF Others
  <2> QED BY <2>3 DEF SInv
<1> QED BY <1>1, <1>2, <1>3 DEF Kept, SInv

\* A signature is of an entry that is not settled, so of a write never sent.
LEMMA SignKeepsSent ==
  ASSUME WellKept(q), Others, SInv, NEW e \in q.entries, Sign(e)
  PROVE  SInv'
<1> SUFFICES ASSUME restarts = 0
             PROVE  /\ Faithful(q, receipts', sent')
                    /\ AllThere(q) => Remembered(q, receipts', sent') /\ Once(sent')
  BY DEF SInv, Sign
<1> DEFINE n == Len(sent) + 1
           r == [id |-> e.id, tx |-> n]
<1>1. /\ sent \in Seq(Calldatas) /\ Len(sent) \in Nat
      /\ sent' = Append(sent, e.calldata) /\ receipts' = receipts \cup {r}
      /\ e.status = "pending" /\ \A x \in receipts : x.id # e.id
  BY DEF Others, Sign
<1>2. e.calldata \in Calldatas /\ e.id < q.nextId
  BY DEF WellKept, FitsTogether, Entry, Entries
<1>3. /\ Len(sent') = n /\ n \in Nat /\ sent'[n] = e.calldata
      /\ \A i \in 1 .. Len(sent) : sent'[i] = sent[i] /\ i \in 1 .. n /\ i # n
      /\ \A i \in 1 .. n : i = n \/ i \in 1 .. Len(sent)
  BY <1>1, <1>2
<1>4. r.id = e.id /\ r.tx = n /\ r.tx \in 1 .. n
  BY <1>3
<1> HIDE DEF r, n
<1>5. Faithful(q, receipts', sent')
  <2>1. \A x \in receipts : x.id < q.nextId /\ x.tx \in 1 .. Len(sent)
    BY DEF SInv, Faithful
  <2>2. \A x \in receipts' : x.id < q.nextId /\ x.tx \in 1 .. n
    BY <1>1, <1>2, <1>3, <1>4, <2>1
  <2>3. ASSUME NEW x \in receipts', NEW o \in q.entries, x.id = o.id, o.key = NoKey
        PROVE  sent'[x.tx] = o.calldata
    <3>1. CASE x = r
      BY <1>3, <1>4, <2>3, <3>1 DEF WellKept, Differ
    <3>2. CASE x \in receipts
      BY <1>3, <2>1, <2>3, <3>2 DEF SInv, Faithful
    <3> QED BY <1>1, <3>1, <3>2
  <2>4. ASSUME NEW o \in q.entries, o.status = "submitted", o.key = NoKey
        PROVE  o.tx \in 1 .. n /\ sent'[o.tx] = o.calldata
    BY <1>3, <2>4 DEF SInv, Faithful
  <2> QED BY <1>3, <2>2, <2>3, <2>4 DEF Faithful
<1>6. ASSUME AllThere(q) PROVE Remembered(q, receipts', sent') /\ Once(sent')
  <2>1. Remembered(q, receipts, sent) /\ Once(sent)
    BY <1>6 DEF SInv
  <2>2. Settled(e, receipts') /\ SameWrite(e.calldata, e.calldata)
        /\ \A o \in q.entries : Settled(o, receipts) => Settled(o, receipts')
    BY <1>1, <1>4 DEF Settled, SameWrite
  <2>3. Remembered(q, receipts', sent')
    BY <1>3, <2>1, <2>2 DEF Remembered
  <2>4. ASSUME NEW i \in 1 .. Len(sent), sent[i] # Beat PROVE ~SameWrite(sent[i], e.calldata)
    <3>1. PICK o \in q.entries : SameWrite(o.calldata, sent[i]) /\ Settled(o, receipts)
      BY <2>1, <2>4 DEF Remembered
    <3>2. o # e
      BY <1>1, <3>1 DEF Settled
    <3>3. ~SameWrite(o.calldata, e.calldata)
      BY <3>2 DEF WellKept, Differ, FitsTogether, SameWrite
    <3> QED BY <3>1, <3>3 DEF SameWrite
  <2>5. Once(sent')
    <3>1. Beat \notin Bids
      BY RelayAssumption DEF Bids
    <3>2. \A i \in 1 .. Len(sent) :
            e.calldata # Beat => ~SameWrite(e.calldata, sent[i])
      BY <2>4, <3>1 DEF SameWrite
    <3> QED BY <1>3, <2>1, <2>4, <3>2 DEF Once
  <2> QED BY <2>3, <2>5
<1> QED BY <1>5, <1>6

\* A report settles its own entry.
LEMMA ReportKeepsSent ==
  ASSUME WellKept(q), Others, SInv, Kept,
         NEW r \in receipts, NEW again \in {FALSE, RepeatReports}, Report(r, again)
  PROVE  SInv'
<1> SUFFICES ASSUME restarts = 0
             PROVE  /\ Faithful(q', receipts', sent)
                    /\ AllThere(q') => Remembered(q', receipts', sent) /\ Once(sent)
  BY DEF SInv, Report
<1>1. /\ r.id \in Nat /\ r.tx \in Nat /\ q' = Observe(q, r.id, r.tx)
      /\ receipts' \subseteq receipts /\ receipts \ {r} \subseteq receipts'
  BY DEF Others, Surfaces, Report, MarkRequestObserved
<1>2. Faithful(q', receipts', sent)
  <2>1. Faithful(q', receipts, sent)
    BY KeptStaysFaithful DEF SInv, Others
  <2> QED BY <1>1, <2>1 DEF Faithful
<1>3. CASE q' = q /\ ~Known(q, r.id)
  <2>1. ~AllThere(q)
    BY <1>1, <1>3 DEF SInv, Faithful, AllThere, Known, WellKept
  <2> QED BY <1>2, <1>3, <2>1
<1>4. ASSUME NEW e \in q.entries, e.id = r.id,
             Changes(q, q', e, [e EXCEPT !.status = "submitted", !.tx = r.tx]),
             AllThere(q')
      PROVE  Remembered(q', receipts', sent) /\ Once(sent)
  <2> DEFINE f == [e EXCEPT !.status = "submitted", !.tx = r.tx]
  <2>1. f.status = "submitted" /\ Changes(q, q', e, f)
    BY <1>4 DEF WellKept, FitsTogether, Entry, Entries
  <2> HIDE DEF f
  <2>2. \A o \in q.entries : o # e /\ Settled(o, receipts) => Settled(o, receipts')
    BY <1>1, <1>4 DEF WellKept, Differ, Settled
  <2>3. Settled(f, receipts')
    BY <2>1 DEF Settled
  <2>4. AllThere(q) /\ (Remembered(q, receipts, sent) => Remembered(q', receipts', sent))
    BY <1>4, <2>1, <2>2, <2>3, ChangingRemembers DEF Others
  <2> QED BY <2>4 DEF SInv
<1> QED BY <1>1, <1>2, <1>3, <1>4, ObserveSubmits

\* Every step keeps what is known of the reports and the transactions.
LEMMA StepKeepsSent == WellKept(q) /\ Others /\ SInv /\ [Next]_vars => SInv'
<1> SUFFICES ASSUME WellKept(q), Others, SInv, [Next]_vars PROVE SInv'
  OBVIOUS
<1>1. Kept \/ Restart
  BY StepKeepsQueue DEF Others
<1>2. CASE Restart
  BY <1>2 DEF Restart, SInv, Others
<1>3. ASSUME Kept, NEW e \in q.entries, Sign(e) PROVE SInv'
  BY <1>3, SignKeepsSent
<1>4. ASSUME Kept, NEW r \in receipts, NEW again \in {FALSE, RepeatReports}, Report(r, again)
      PROVE  SInv'
  BY <1>4, ReportKeepsSent
<1>5. CASE UNCHANGED vars
  BY <1>5 DEF vars, SInv
<1>6. CASE /\ Kept
           /\ \/ \E c \in OneShots : RequestWrite(c)
              \/ RequestHeartbeat
              \/ \E j \in Jobs, p \in Prices : RequestBid(j, p)
  <2>1. UNCHANGED <<receipts, sent, restarts>>
    BY <1>6 DEF RequestWrite, RequestHeartbeat, RequestBid
  <2>2. \A e \in q.entries, f \in Entry :
          Changes(q, q', e, f) /\ e.status = "submitted" /\ f.status = "pending"
            => e.intent = "heartbeat"
    <3> SUFFICES ASSUME NEW e \in q.entries, NEW f \in Entry, Changes(q, q', e, f),
                        e.status = "submitted", f.status = "pending"
                 PROVE  e.intent = "heartbeat"
      OBVIOUS
    <3>1. f \in q'.entries /\ f.id = e.id
      BY DEF Changes, Swapped
    <3>2. \A o \in q.entries : o.id = e.id => o = e
      BY DEF WellKept, Differ
    <3>3. CASE q' = q
      BY <3>1, <3>2, <3>3
    <3>4. ASSUME NEW new \in Entry, Adds(q, q', new) PROVE FALSE
      BY <3>4 DEF Adds, Pushed, Changes, Swapped, WellKept
    <3>5. ASSUME NEW o \in q.entries, NEW g \in Entry, Changes(q, q', o, g), Allowed(o, g)
          PROVE  e.intent = "heartbeat"
      BY <3>1, <3>2, <3>5 DEF Changes, Swapped, Allowed
    <3> QED BY <1>6, <3>3, <3>4, <3>5 DEF Kept
  <2> QED BY <1>6, <2>1, <2>2, WriterKeepsSent
<1> QED BY <1>1, <1>2, <1>3, <1>4, <1>5, <1>6 DEF Next

\* It is known always.
LEMMA AlwaysSent == Spec => []SInv
<1>1. Init => SInv
  BY DEF Init, EmptyQueue, SInv, Faithful, AllThere, Remembered, Once
<1> QED BY <1>1, StepKeepsSent, AlwaysWellKept, PTL DEF Spec

\* A submitted entry shows the hash of a transaction with its own calldata, in
\* whatever order the reports arrive and however often.
THEOREM HashesAreReal == Spec => []SubmittedWasSent
<1>1. SInv => SubmittedWasSent
  BY DEF SInv, Faithful, SubmittedWasSent
<1> QED BY <1>1, AlwaysSent, PTL

\* As long as the queue has lost nothing, a one-shot write and a job's bid reach
\* the network at most once ("the relay never double-broadcasts").
THEOREM NeverBroadcastsTwice == Spec => []AtMostOneBroadcast
<1>1. WellKept(q) /\ SInv => AtMostOneBroadcast
  BY NothingEvictedMeansAllThere DEF SInv, Once, AtMostOneBroadcast
<1> QED BY <1>1, AlwaysSent, AlwaysWellKept, PTL
=============================================================================
