----------------------------- MODULE RelayQueue -----------------------------
(***************************************************************************)
(* The signing relay: the daemon's writers put unsigned writes in          *)
(* AgentState's queue, a signing surface lists it over HTTP, signs and     *)
(* broadcasts pending entries, and reports each broadcast back.            *)
(*                                                                         *)
(* The surface and the network are outside the repository.  They are       *)
(* modelled from the API the code gives them: a surface signs an entry it  *)
(* saw pending, does not sign an id again while a report for it is         *)
(* outstanding, may repeat a report (it lost the HTTP response), and       *)
(* outlives a restart of the daemon, whose queue is in memory.             *)
(***************************************************************************)
EXTENDS SigningQueue, Sequences

CONSTANTS
  OneShots,      \* calldatas of the lifecycle writes and claimRewards
  Beat,          \* the calldata of heartbeat()
  Jobs, Prices,  \* a bid is a <<job, price>>: its calldata drifts with the price
  RepeatReports, \* may a surface report the same broadcast twice?
  MaxId,         \* bound: request ids handed out by one daemon process
  MaxTx,         \* bound: broadcasts
  MaxBeats,      \* bound: recorded heartbeats
  MaxRestarts    \* bound: restarts of the daemon

ASSUME RelayAssumption ==
  /\ Cap \in Nat /\ MaxId \in Nat /\ MaxTx \in Nat /\ MaxBeats \in Nat /\ MaxRestarts \in Nat
  /\ RepeatReports \in BOOLEAN
  /\ Beat \notin OneShots
  /\ NoKey \notin Jobs
  /\ NoTx \notin Nat
  /\ (Jobs \X Prices) \cap (OneShots \cup {Beat}) = {}

Bids == Jobs \X Prices
Calldatas == OneShots \cup {Beat} \cup Bids

VARIABLES
  q,        \* AgentState.pending_requests and next_request_id
  beats,    \* how often record_heartbeat has run since the daemon started
  receipts, \* surface: broadcasts it has still to report, as [id, tx]
  sent,     \* network: the calldata of every broadcast, tx n is sent[n]
  restarts

vars == <<q, beats, receipts, sent, restarts>>

Init ==
  /\ q = EmptyQueue
  /\ beats = 0
  /\ receipts = {}
  /\ sent = <<>>
  /\ restarts = 0

-----------------------------------------------------------------------------
(* The daemon's writers. *)

\* RelaySigner::request
RequestWrite(c) ==
  /\ q' = Enqueue(q, "write", c)
  /\ q'.nextId <= MaxId
  /\ UNCHANGED <<beats, receipts, sent, restarts>>

\* RelayHeartbeatSender::send_heartbeat
RequestHeartbeat ==
  /\ q' = EnqueueRecurring(q, "heartbeat", Beat)
  /\ q'.nextId <= MaxId
  /\ UNCHANGED <<beats, receipts, sent, restarts>>

\* RelayBidPlacer::place
RequestBid(j, p) ==
  /\ q' = EnqueueSuperseding(q, "bidOnJob", j, <<j, p>>)
  /\ q'.nextId <= MaxId
  /\ UNCHANGED <<beats, receipts, sent, restarts>>

-----------------------------------------------------------------------------
(* The signing surface. *)

\* A pending entry, as listed now, is signed and broadcast.
Sign(e) ==
  /\ e.status = "pending"
  /\ \A r \in receipts : r.id # e.id
  /\ Len(sent) < MaxTx
  /\ sent' = Append(sent, e.calldata)
  /\ receipts' = receipts \cup {[id |-> e.id, tx |-> Len(sent) + 1]}
  /\ UNCHANGED <<q, beats, restarts>>

\* Mutant of MarkRequestObserved: the front entry is marked, not the one named.
MarkFront(id, tx) ==
  /\ q' = IF q.entries = {} THEN q ELSE Observe(q, First(q.entries).id, tx)
  /\ beats' = beats

\* POST /signature-requests/{id}/observed, handled by mark_request_observed.
MarkRequestObserved(id, tx) ==
  /\ q' = Observe(q, id, tx)
  /\ beats' = IF Known(q, id) /\ EntryOf(q, id).intent = "heartbeat"
              THEN beats + 1 ELSE beats

Report(r, again) ==
  /\ beats < MaxBeats
  /\ MarkRequestObserved(r.id, r.tx)
  /\ receipts' = IF again THEN receipts ELSE receipts \ {r}
  /\ UNCHANGED <<sent, restarts>>

-----------------------------------------------------------------------------
\* The daemon process stops and starts: AgentState::default().
Restart ==
  /\ restarts < MaxRestarts
  /\ restarts' = restarts + 1
  /\ q' = EmptyQueue
  /\ beats' = 0
  /\ UNCHANGED <<receipts, sent>>

Next ==
  \/ \E c \in OneShots : RequestWrite(c)
  \/ RequestHeartbeat
  \/ \E j \in Jobs, p \in Prices : RequestBid(j, p)
  \/ \E e \in q.entries : Sign(e)
  \/ \E r \in receipts, again \in {FALSE, RepeatReports} : Report(r, again)
  \/ Restart

Spec == Init /\ [][Next]_vars

-----------------------------------------------------------------------------
(* Properties. *)

Entries(Ids) ==
  [id : Ids, intent : {"write", "heartbeat", "bidOnJob"}, calldata : Calldatas,
   key : Jobs \cup {NoKey}, status : {"pending", "submitted"}, tx : Nat \cup {NoTx}]

\* Every variable has its type, and an entry carries a transaction hash exactly
\* when it is submitted: a re-armed heartbeat shows no stale hash
\* (enqueue_recurring_signature_request clears tx_hash).
TypeOK ==
  /\ q.nextId \in Nat
  /\ q.entries \in SUBSET Entries(0 .. q.nextId - 1)
  /\ \A e \in q.entries : (e.status = "submitted") <=> (e.tx # NoTx)
  /\ beats \in Nat
  /\ receipts \in SUBSET [id : Nat, tx : Nat]
  /\ sent \in Seq(Calldatas)
  /\ restarts \in Nat

\* The queue never shows the surface two requests for one write: ids are unique,
\* a write keyed by its calldata has one entry, and a job has one bid however
\* often its price moved (NA-B-004).
NoDuplicateWrites ==
  \A e, f \in q.entries :
    e # f => /\ e.id # f.id
             /\ e.key = NoKey /\ f.key = NoKey => e.calldata # f.calldata
             /\ e.key # NoKey => e.key # f.key

\* All bids on a job are one write.
SameWrite(c, d) == c = d \/ (c \in Bids /\ d \in Bids /\ c[1] = d[1])

\* Nothing was dropped from the queue since this process started.
NothingEvicted == q.nextId = Cardinality(q.entries)

\* A one-shot write and a bid reach the network at most once, however often the
\* daemon re-emits them and whenever and how often the surface reports ("the
\* relay never double-broadcasts"), until the retention cap evicts an entry or
\* the daemon restarts: the queue is all that remembers a broadcast.
AtMostOneBroadcast ==
  restarts = 0 /\ NothingEvicted =>
    \A m, n \in 1 .. Len(sent) :
      m # n /\ sent[m] # Beat => ~SameWrite(sent[m], sent[n])

\* A submitted entry that is not a bid was broadcast: its hash is the hash of
\* a transaction with its calldata.  (A bid may be superseded between its
\* signing and its report, and reports name ids that start over at a restart.)
SubmittedWasSent ==
  restarts = 0 =>
    \A e \in q.entries :
      e.status = "submitted" /\ e.key = NoKey => sent[e.tx] = e.calldata

\* A new request leaves the queue within the cap unless all that is left awaits
\* the signer.  (Reports do not evict: the queue may hold more submitted entries
\* than the cap until the next request.)
RetentionBounded ==
  [][q'.nextId > q.nextId =>
       \/ Cardinality(q'.entries) <= Cap
       \/ \A e \in q'.entries : e.status = "pending"]_vars

\* While the daemon runs, a pending request neither disappears nor turns
\* submitted except by a report of its own id (evict_if_over_cap keeps it).
PendingKept ==
  [][restarts' = restarts =>
       \A e \in q.entries : e.status = "pending" =>
         \E f \in q'.entries :
           f.id = e.id /\ (f.status = "pending" \/ \E r \in receipts : r.id = e.id)]_vars

\* Only the recurring heartbeat is ever armed again after its broadcast.
OneShotNeverRearmed ==
  [][restarts' = restarts =>
       \A e \in q.entries, f \in q'.entries :
         e.id = f.id /\ e.status = "submitted" /\ f.status = "pending"
           => e.intent = "heartbeat"]_vars
=============================================================================
