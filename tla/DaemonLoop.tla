----------------------------- MODULE DaemonLoop -----------------------------
(***************************************************************************)
(* The supervised loop: run_loop, tick and beat                            *)
(* (crates/node-agent/src/daemon.rs) against the supervision API's         *)
(* handlers, which share one AgentState behind an RwLock.                  *)
(*                                                                         *)
(* A tick takes the lock several times and awaits RPC calls in between; an *)
(* action is what happens up to the next release of the lock, and the      *)
(* handlers run between any two of them.                                   *)
(*                                                                         *)
(* The market's answer and the bidder's decision are chosen freely (module *)
(* BidDecision has the bidder); the relay's bid placer cannot fail.  The   *)
(* executors that run between tick and beat are modules JobExecution and   *)
(* Earnings; last_error, which only /health shows, is left out.            *)
(***************************************************************************)
EXTENDS SigningQueue

CONSTANTS
  Job, Prices,     \* the configured job; what the bidder may bid on it
  Beat,            \* the calldata of heartbeat()
  Stakes, Scores,  \* what the chain may say of the provider
  NotYet           \* no observation so far

ASSUME LoopAssumption ==
  /\ Cap \in Nat /\ Stakes \subseteq Nat /\ Scores \subseteq Nat
  /\ NotYet \notin Nat /\ NoTx \notin Nat /\ NoKey # Job

VARIABLES
  paused, bidding, alert, prevStake, prevScore, q,  \* AgentState
  pc, settings, snapshot,    \* the running tick
  config,                    \* compute.json, as the operator left it
  provider,                  \* getProvider: stake and reputation
  late,                      \* history: bids since the operator's last word
  unseen,                    \* history: alerts raised since the last poll
  firstStake                 \* history: the first stake observed

shared == <<paused, bidding, alert, prevStake, prevScore, q>>
tick == <<pc, settings, snapshot>>
world == <<config, provider>>
history == <<late, unseen, firstStake>>
vars == <<shared, tick, world, history>>

\* Between its uses, what a tick has read is reset.
NoSnapshot == [stake |-> 0, score |-> 0, open |-> FALSE]

Init ==
  /\ paused = FALSE /\ bidding = FALSE /\ alert = {}
  /\ prevStake = NotYet /\ prevScore = NotYet
  /\ q = EmptyQueue
  /\ config \in {"on", "off"}
  /\ provider \in [stake : Stakes, score : Scores]
  /\ pc = "settings" /\ settings = "off" /\ snapshot = NoSnapshot
  /\ late = 0 /\ unseen = {} /\ firstStake = NotYet

Allowed == ~paused /\ config = "on"

-----------------------------------------------------------------------------
(* One tick of run_loop. *)

\* settings_for_tick: a compute.json that cannot be read or parsed counts as off.
SettingsForTick ==
  /\ pc = "settings"
  /\ settings' \in {config, "off"}
  /\ pc' = "refresh"
  /\ UNCHANGED <<shared, snapshot>>

\* MarketView::refresh; open is bid_expires_block.
Refresh ==
  /\ pc = "refresh"
  /\ \E open \in BOOLEAN :
       snapshot' = [stake |-> provider.stake, score |-> provider.score, open |-> open]
  /\ pc' = "observe"
  /\ UNCHANGED <<shared, settings>>

RefreshFails ==
  /\ pc = "refresh"
  /\ bidding' = FALSE
  /\ pc' = "beat"
  /\ UNCHANGED <<paused, alert, prevStake, prevScore, q, settings, snapshot>>

\* What record_provider_observation alerts of: a score more than 5% down, a stake
\* that decreased.
Alerts ==
  {a \in {"slash", "reputation"} :
     \/ a = "slash" /\ prevStake # NotYet /\ snapshot.stake < prevStake
     \/ a = "reputation" /\ prevScore # NotYet /\ snapshot.score * 100 < prevScore * 95}

\* Mutant of RecordAlerts: an observation without alerts clears the alert.
RecordOnlyNow == alert' = Alerts

\* New alerts replace the latched ones.
RecordAlerts == alert' = IF Alerts # {} THEN Alerts ELSE alert

RecordObservation ==
  /\ pc = "observe"
  /\ RecordAlerts
  /\ prevStake' = snapshot.stake /\ prevScore' = snapshot.score
  /\ pc' = "pause?"
  /\ snapshot' = [NoSnapshot EXCEPT !.open = snapshot.open]
  /\ UNCHANGED <<paused, bidding, q, settings>>

\* Mutant of CheckPause: paused is not looked at.
IgnorePause ==
  /\ pc = "pause?"
  /\ pc' = "decide"
  /\ UNCHANGED <<shared, settings, snapshot>>

\* accepts_new_bids, under a read lock that is released again.
CheckPause ==
  /\ pc = "pause?"
  /\ pc' = IF paused THEN "beat" ELSE "decide"
  /\ UNCHANGED <<shared, settings, snapshot>>

\* The job is open for bids and the bidder, which refuses when participation is
\* off, may bid.
CanBid == snapshot.open /\ settings = "on"

\* The bidder decides to bid and RelayBidPlacer::place queues the write.
Place ==
  /\ pc = "decide" /\ CanBid
  /\ \E p \in Prices : q' = EnqueueSuperseding(q, "bidOnJob", Job, p)
  /\ pc' = "placed"
  /\ UNCHANGED <<paused, bidding, alert, prevStake, prevScore, settings, snapshot>>

\* Closed for bids, or any of the bidder's gates says skip: set_idle.
Skip ==
  /\ pc = "decide"
  /\ bidding' = FALSE
  /\ pc' = "beat"
  /\ UNCHANGED <<paused, alert, prevStake, prevScore, q, settings, snapshot>>

\* Mutant of SetBidding: the pause that came meanwhile is overlooked.
SetBiddingAnyway ==
  /\ pc = "placed"
  /\ bidding' = TRUE
  /\ pc' = "beat"
  /\ UNCHANGED <<paused, alert, prevStake, prevScore, q, settings, snapshot>>

\* set_bidding(true), forced to false while paused.
SetBidding ==
  /\ pc = "placed"
  /\ bidding' = ~paused
  /\ pc' = "beat"
  /\ UNCHANGED <<paused, alert, prevStake, prevScore, q, settings, snapshot>>

\* beat over RelayHeartbeatSender, which queues and never fails; then sleep.
SendBeat ==
  /\ pc = "beat"
  /\ q' = EnqueueRecurring(q, "heartbeat", Beat)
  /\ pc' = "settings"
  /\ settings' = "off" /\ snapshot' = NoSnapshot
  /\ UNCHANGED <<paused, bidding, alert, prevStake, prevScore>>

Loop ==
  /\ \/ SettingsForTick \/ Refresh \/ RefreshFails \/ RecordObservation \/ CheckPause
     \/ Place \/ Skip \/ SetBidding \/ SendBeat
  /\ late' = IF pc' = "placed" /\ ~Allowed THEN late + 1 ELSE late
  /\ unseen' = IF pc = "observe" THEN unseen \cup Alerts ELSE unseen
  /\ firstStake' = IF firstStake = NotYet THEN prevStake' ELSE firstStake
  /\ UNCHANGED world

-----------------------------------------------------------------------------
(* The supervision API. *)

Pause ==
  /\ paused' = TRUE /\ bidding' = FALSE
  /\ late' = 0
  /\ UNCHANGED <<alert, prevStake, prevScore, q, tick, world, unseen, firstStake>>

Resume ==
  /\ paused' = FALSE
  /\ late' = 0
  /\ UNCHANGED <<bidding, alert, prevStake, prevScore, q, tick, world, unseen,
                 firstStake>>

\* GET /health.  (No route calls clear_alert.)
Poll ==
  /\ unseen' = {}
  /\ UNCHANGED <<shared, tick, world, late, firstStake>>

\* The signing surface reports a broadcast.
ReportObserved ==
  /\ \E e \in q.entries : q' = Observe(q, e.id, 0)
  /\ UNCHANGED <<paused, bidding, alert, prevStake, prevScore, tick, world, history>>

-----------------------------------------------------------------------------
(* The operator edits compute.json; the chain moves the provider's numbers. *)

EditConfig ==
  /\ config' \in {"on", "off"}
  /\ late' = 0
  /\ UNCHANGED <<shared, tick, provider, unseen, firstStake>>

ProviderMoves ==
  /\ provider' \in [stake : Stakes, score : Scores]
  /\ UNCHANGED <<shared, tick, config, history>>

Next == Loop \/ Pause \/ Resume \/ Poll \/ ReportObserved \/ EditConfig \/ ProviderMoves

Spec == Init /\ [][Next]_vars

-----------------------------------------------------------------------------
(* Properties. *)

\* Every variable of the loop has its type; a tick that observes has read a stake
\* and a score.  (The queue's type is a theorem of module RelayQueue.)
TypeOK ==
  /\ paused \in BOOLEAN /\ bidding \in BOOLEAN
  /\ alert \subseteq {"slash", "reputation"} /\ unseen \subseteq {"slash", "reputation"}
  /\ {prevStake, firstStake} \subseteq Stakes \cup {NotYet}
  /\ prevScore \in Scores \cup {NotYet}
  /\ pc \in {"settings", "refresh", "observe", "pause?", "decide", "placed", "beat"}
  /\ settings \in {"on", "off"} /\ config \in {"on", "off"}
  /\ provider \in [stake : Stakes, score : Scores]
  /\ snapshot \in [stake : Stakes \cup {0}, score : Scores \cup {0}, open : BOOLEAN]
  /\ pc = "observe" => snapshot.stake \in Stakes /\ snapshot.score \in Scores
  /\ late \in Nat

\* A paused agent never reports that it is bidding, wherever in a tick the pause
\* arrived ("paused never reports bidding").
PausedNeverBidding == paused => ~bidding

\* Once the operator has paused or switched compute.json off, at most the tick
\* that is already running places a bid (PBA-L6b-008).
StopsWithinATick == late <= 1

\* A net loss of stake since the daemon started has left an alert, whatever was
\* paused, failed or recovered since.
LossIsAlerted ==
  prevStake # NotYet /\ prevStake < firstStake => alert # {}

\* "Alerts latch so a GUI polling between daemon ticks can never miss one": an
\* alert nobody has polled yet is still there to be polled.
UnseenIsLatched == unseen \subseteq alert
=============================================================================
