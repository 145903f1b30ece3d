---------------------------- MODULE SigningQueue ----------------------------
(***************************************************************************)
(* The signing-relay queue of supervision::AgentState                      *)
(* (crates/supervision/src/state.rs) as operators on a value q: the queue  *)
(* itself, q.entries, and the source of request ids, q.nextId.             *)
(*                                                                         *)
(* The code keeps the entries in a Vec.  Entries are pushed in id order    *)
(* and Vec::retain keeps their order, so "first in the Vec" is "smallest   *)
(* id" and the entries are modelled as a set.  Each operator is one        *)
(* critical section of the RwLock around AgentState.                       *)
(*                                                                         *)
(* Left out of an entry: to, value_wei, chain_id, context and              *)
(* expires_block, which no code reads back.                                *)
(***************************************************************************)
EXTENDS Integers, FiniteSets

CONSTANTS
  Cap,     \* MAX_PENDING_REQUESTS, 256 in the code
  NoKey,   \* dedup_key = None
  NoTx     \* tx_hash = None

EmptyQueue == [entries |-> {}, nextId |-> 0]

\* The entry Vec::iter().find(..) returns when exactly the entries S match.
First(S) == CHOOSE e \in S : \A o \in S : e.id <= o.id

\* Fresh entries are pushed "pending", without a transaction hash.
NewEntry(id, intent, calldata, key) ==
  [id |-> id, intent |-> intent, calldata |-> calldata, key |-> key,
   status |-> "pending", tx |-> NoTx]

\* Mutant of Evict: the oldest entries go, pending ones too.
EvictOldest(entries) ==
  {e \in entries : Cardinality({o \in entries : o.id > e.id}) < Cap}

\* Mutant of Evict: one entry more than the cap is kept.
EvictLate(entries) ==
  LET overflow == Cardinality(entries) - Cap - 1
      olderSubmitted(e) ==
        Cardinality({o \in entries : o.status = "submitted" /\ o.id < e.id})
  IN {e \in entries : e.status = "pending" \/ olderSubmitted(e) >= overflow}

\* evict_if_over_cap: the oldest submitted entries go until the overflow is
\* gone; pending entries always stay.
Evict(entries) ==
  LET overflow == Cardinality(entries) - Cap
      olderSubmitted(e) ==
        Cardinality({o \in entries : o.status = "submitted" /\ o.id < e.id})
  IN {e \in entries : e.status = "pending" \/ olderSubmitted(e) >= overflow}

Push(q, intent, calldata, key) ==
  [entries |-> Evict(q.entries \cup {NewEntry(q.nextId, intent, calldata, key)}),
   nextId  |-> q.nextId + 1]

\* The queue with entry e replaced by f (an iter_mut() find, then assignments).
Replace(q, e, f) == [q EXCEPT !.entries = (@ \ {e}) \cup {f}]

SameCalldata(q, calldata) == {e \in q.entries : e.calldata = calldata}
SameKey(q, intent, key) == {e \in q.entries : e.intent = intent /\ e.key = key}

\* Mutant of Enqueue: only pending entries deduplicate a re-emit.
EnqueueUnlessPending(q, intent, calldata) ==
  IF \E e \in SameCalldata(q, calldata) : e.status = "pending"
  THEN q ELSE Push(q, intent, calldata, NoKey)

\* enqueue_signature_request: deduplicated on the calldata of every entry,
\* submitted ones included.
Enqueue(q, intent, calldata) ==
  IF SameCalldata(q, calldata) # {} THEN q ELSE Push(q, intent, calldata, NoKey)

\* enqueue_recurring_signature_request: as Enqueue, and a submitted entry is
\* armed again.
EnqueueRecurring(q, intent, calldata) ==
  LET same == SameCalldata(q, calldata)
      e    == First(same)
  IN IF same = {} THEN Enqueue(q, intent, calldata)
     ELSE IF e.status = "pending" THEN q
     ELSE Replace(q, e, [e EXCEPT !.status = "pending", !.tx = NoTx])

\* Mutant of EnqueueSuperseding: bids deduplicated on their calldata.
EnqueueBidByCalldata(q, intent, key, calldata) ==
  IF SameCalldata(q, calldata) # {} THEN q ELSE Push(q, intent, calldata, key)

\* Mutant of EnqueueSuperseding: a broadcast bid is armed again.
SupersedeAndRearm(q, intent, key, calldata) ==
  LET same == SameKey(q, intent, key)
      e    == First(same)
  IN IF same = {} THEN Push(q, intent, calldata, key)
     ELSE Replace(q, e, [e EXCEPT !.calldata = calldata,
                                  !.status = "pending", !.tx = NoTx])

\* enqueue_superseding_signature_request: deduplicated on (intent, key); a
\* pending entry takes the new calldata, a submitted one is left alone.
EnqueueSuperseding(q, intent, key, calldata) ==
  LET same == SameKey(q, intent, key)
      e    == First(same)
  IN IF same = {} THEN Push(q, intent, calldata, key)
     ELSE IF e.status = "pending"
          THEN Replace(q, e, [e EXCEPT !.calldata = calldata])
     ELSE q

\* mark_request_observed: whatever the entry's status was.  An unknown id
\* changes nothing (404).
Known(q, id) == \E e \in q.entries : e.id = id
EntryOf(q, id) == First({e \in q.entries : e.id = id})
Observe(q, id, tx) ==
  IF Known(q, id)
  THEN LET e == EntryOf(q, id)
       IN Replace(q, e, [e EXCEPT !.status = "submitted", !.tx = tx])
  ELSE q
=============================================================================
