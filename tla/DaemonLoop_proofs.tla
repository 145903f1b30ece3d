------------------------- MODULE DaemonLoop_proofs -------------------------
(***************************************************************************)
(* What TLAPS proves of module DaemonLoop, for all stakes, scores and      *)
(* prices, and for every interleaving of a tick with the API's handlers,   *)
(* the operator and the chain.                                             *)
(***************************************************************************)
EXTENDS DaemonLoop, TLAPS

\* Everything but the loop's own steps, in which a tick does not move.
Outside == Pause \/ Resume \/ Poll \/ ReportObserved \/ EditConfig \/ ProviderMoves

-----------------------------------------------------------------------------
(* Types. *)

LEMMA LoopType == TypeOK /\ Loop => TypeOK'
<1> SUFFICES ASSUME TypeOK, Loop PROVE TypeOK'
  OBVIOUS
<1> USE DEF TypeOK
<1>1. UNCHANGED <<config, provider>>
  BY DEF Loop, world
<1>2. late' \in Nat /\ (unseen' = unseen \/ unseen' = unseen \cup Alerts)
  BY DEF Loop
<1>3. Alerts \subseteq {"slash", "reputation"}
  BY DEF Alerts
<1>4. NoSnapshot \in [stake : Stakes \cup {0}, score : Scores \cup {0}, open : BOOLEAN]
  BY DEF NoSnapshot
<1>5. /\ paused' \in BOOLEAN /\ bidding' \in BOOLEAN
      /\ alert' \subseteq {"slash", "reputation"}
      /\ prevStake' \in Stakes \cup {NotYet} /\ prevScore' \in Scores \cup {NotYet}
      /\ pc' \in {"settings", "refresh", "observe", "pause?", "decide", "placed", "beat"}
      /\ settings' \in {"on", "off"}
      /\ snapshot' \in [stake : Stakes \cup {0}, score : Scores \cup {0}, open : BOOLEAN]
      /\ pc' = "observe" => snapshot'.stake \in Stakes /\ snapshot'.score \in Scores
  <2>1. CASE SettingsForTick \/ CheckPause
    BY <2>1 DEF SettingsForTick, CheckPause, shared
  <2>2. CASE Refresh
    BY <2>2 DEF Refresh, shared
  <2>3. CASE RecordObservation
    <3>1. snapshot' \in [stake : Stakes \cup {0}, score : Scores \cup {0}, open : BOOLEAN]
      BY <1>4, <2>3 DEF RecordObservation
    <3> QED BY <1>3, <2>3, <3>1 DEF RecordObservation, RecordAlerts
  <2>4. CASE RefreshFails \/ Place \/ Skip \/ SetBidding
    BY <2>4 DEF RefreshFails, Place, Skip, SetBidding
  <2>5. CASE SendBeat
    BY <1>4, <2>5 DEF SendBeat
  <2> QED BY <2>1, <2>2, <2>3, <2>4, <2>5 DEF Loop
<1>6. firstStake' \in Stakes \cup {NotYet}
  BY <1>5 DEF Loop
<1> QED BY <1>1, <1>2, <1>3, <1>5, <1>6

\* What happens outside the loop keeps every variable's type.
LEMMA OutsideType == TypeOK /\ (Outside \/ UNCHANGED vars) => TypeOK'
<1> SUFFICES ASSUME TypeOK, Outside \/ UNCHANGED vars PROVE TypeOK'
  OBVIOUS
<1> USE DEF TypeOK, shared, tick, world, history
<1>1. CASE Pause
  BY <1>1 DEF Pause
<1>2. CASE Resume
  BY <1>2 DEF Resume
<1>3. CASE Poll
  BY <1>3 DEF Poll
<1>4. CASE ReportObserved
  BY <1>4 DEF ReportObserved
<1>5. CASE EditConfig
  BY <1>5 DEF EditConfig
<1>6. CASE ProviderMoves
  BY <1>6 DEF ProviderMoves
<1>7. CASE UNCHANGED vars
  BY <1>7 DEF vars
<1> QED BY <1>1, <1>2, <1>3, <1>4, <1>5, <1>6, <1>7 DEF Outside

\* Every variable of the loop keeps its type, whoever comes between two steps.
THEOREM TypeCorrect == Spec => []TypeOK
<1>1. Init => TypeOK
  <2>1. NoSnapshot \in [stake : Stakes \cup {0}, score : Scores \cup {0}, open : BOOLEAN]
    BY DEF NoSnapshot
  <2>2. Init => {prevStake, firstStake} \subseteq Stakes \cup {NotYet}
    BY DEF Init
  <2>3. Init => pc # "observe" /\ late \in Nat /\ snapshot = NoSnapshot
    BY DEF Init
  <2> QED BY <2>1, <2>2, <2>3 DEF Init, TypeOK
<1>2. TypeOK /\ [Next]_vars => TypeOK'
  BY LoopType, OutsideType DEF Next, Outside
<1> QED BY <1>1, <1>2, PTL DEF Spec

-----------------------------------------------------------------------------
(* The pause. *)

\* A paused agent never reports that it is bidding, wherever in a tick the pause
\* arrived.
THEOREM PauseStopsBidding == Spec => []PausedNeverBidding
<1>1. Init => PausedNeverBidding
  BY DEF Init, PausedNeverBidding
<1>2. PausedNeverBidding /\ [Next]_vars => PausedNeverBidding'
  <2> SUFFICES ASSUME PausedNeverBidding, [Next]_vars PROVE PausedNeverBidding'
    OBVIOUS
  <2> USE DEF PausedNeverBidding
  <2>1. CASE Loop
    BY <2>1
       DEF Loop, SettingsForTick, Refresh, RefreshFails, RecordObservation, CheckPause, Place,
           Skip, SetBidding, SendBeat, shared
  <2>2. CASE Outside \/ UNCHANGED vars
    BY <2>2 DEF Outside, Pause, Resume, Poll, ReportObserved, EditConfig, ProviderMoves, vars,
                shared, history
  <2> QED BY <2>1, <2>2 DEF Next, Outside
<1> QED BY <1>1, <1>2, PTL DEF Spec

\* After a late bid the operator's word has not changed, and what the next tick
\* reads of it keeps that tick from bidding.
HeardAfterwards ==
  /\ late \in {0, 1}
  /\ late = 1 =>
       /\ ~Allowed
       /\ pc = "decide" => ~paused
       /\ config = "off" /\ pc \in {"refresh", "observe", "pause?", "decide"}
            => settings = "off"

\* Once the operator has paused or switched compute.json off, at most the tick
\* that is already running places a bid (PBA-L6b-008).
THEOREM StopsInTime == Spec => []StopsWithinATick
<1>1. Init => HeardAfterwards
  BY DEF Init, HeardAfterwards
<1>2. TypeOK /\ HeardAfterwards /\ [Next]_vars => HeardAfterwards'
  <2> SUFFICES ASSUME TypeOK, HeardAfterwards, [Next]_vars PROVE HeardAfterwards'
    OBVIOUS
  <2> USE DEF HeardAfterwards
  <2>1. CASE Loop
    <3>1. UNCHANGED <<paused, config>>
      BY <2>1 DEF Loop, SettingsForTick, Refresh, RefreshFails, RecordObservation, CheckPause,
                  Place, Skip, SetBidding, SendBeat, shared, world
    <3>2. CASE Place
      <4>1. pc = "decide" /\ settings = "on" /\ pc' = "placed"
        BY <3>2 DEF Place, CanBid
      <4>2. late = 0
        BY <4>1 DEF Allowed, TypeOK
      <4> QED BY <2>1, <3>1, <4>1, <4>2 DEF Loop, Allowed
    <3>3. CASE ~Place
      <4>1. pc' # "placed"
        BY <2>1, <3>3
           DEF Loop, SettingsForTick, Refresh, RefreshFails, RecordObservation, CheckPause,
               Skip, SetBidding, SendBeat
      <4>2. late' = late
        BY <2>1, <4>1 DEF Loop
      <4>3. late = 1 /\ pc' = "decide" => ~paused
        BY <2>1, <3>3
           DEF Loop, SettingsForTick, Refresh, RefreshFails, RecordObservation, CheckPause,
               Skip, SetBidding, SendBeat
      <4>4. late = 1 /\ config = "off" /\ pc' \in {"refresh", "observe", "pause?", "decide"}
              => settings' = "off"
        BY <2>1, <3>3
           DEF Loop, SettingsForTick, Refresh, RefreshFails, RecordObservation, CheckPause,
               Skip, SetBidding, SendBeat
      <4> QED BY <3>1, <4>2, <4>3, <4>4 DEF Allowed
    <3> QED BY <3>2, <3>3
  <2>2. CASE Pause \/ Resume \/ EditConfig
    BY <2>2 DEF Pause, Resume, EditConfig
  <2>3. CASE Poll \/ ReportObserved \/ ProviderMoves \/ UNCHANGED vars
    BY <2>3
       DEF Poll, ReportObserved, ProviderMoves, vars, shared, tick, world, history, Allowed
  <2> QED BY <2>1, <2>2, <2>3 DEF Next
<1>3. HeardAfterwards => StopsWithinATick
  BY DEF HeardAfterwards, StopsWithinATick
<1> QED BY <1>1, <1>2, <1>3, TypeCorrect, PTL DEF Spec

-----------------------------------------------------------------------------
(* The alerts. *)

\* The first observation is remembered as the first one.
FirstIsFirst == prevStake = NotYet <=> firstStake = NotYet

\* A net loss of stake since the daemon started has left an alert, whatever was
\* paused, failed or recovered since.
THEOREM LossesAreAlerted == Spec => []LossIsAlerted
<1>1. Init => FirstIsFirst /\ LossIsAlerted
  BY DEF Init, FirstIsFirst, LossIsAlerted
<1>2. TypeOK /\ FirstIsFirst /\ LossIsAlerted /\ [Next]_vars
        => FirstIsFirst' /\ LossIsAlerted'
  <2> SUFFICES ASSUME TypeOK, FirstIsFirst, LossIsAlerted, [Next]_vars
               PROVE  FirstIsFirst' /\ LossIsAlerted'
    OBVIOUS
  <2> USE DEF FirstIsFirst, LossIsAlerted
  <2>1. CASE Loop /\ RecordObservation
    <3>1. /\ prevStake' = snapshot.stake /\ snapshot.stake \in Stakes
          /\ firstStake' = IF firstStake = NotYet THEN prevStake' ELSE firstStake
          /\ alert' = IF Alerts # {} THEN Alerts ELSE alert
      BY <2>1 DEF Loop, RecordObservation, RecordAlerts, TypeOK
    <3>2. prevStake' \in Nat /\ prevStake' # NotYet
      BY <3>1, LoopAssumption
    <3>3. CASE firstStake = NotYet
      BY <3>1, <3>2, <3>3
    <3>4. CASE firstStake # NotYet
      <4>1. {prevStake, firstStake} \subseteq Nat /\ firstStake' = firstStake
        BY <3>1, <3>2, <3>4, LoopAssumption DEF TypeOK
      <4>2. snapshot.stake < prevStake => Alerts # {}
        BY <3>4 DEF Alerts
      <4>3. prevStake' < firstStake => Alerts # {} \/ alert # {}
        BY <3>1, <3>2, <3>4, <4>1, <4>2
      <4> QED BY <3>1, <3>2, <3>4, <4>1, <4>3
    <3> QED BY <3>3, <3>4
  <2>2. CASE Loop /\ ~RecordObservation
    <3>1. UNCHANGED <<prevStake, alert>>
      BY <2>2 DEF Loop, SettingsForTick, Refresh, RefreshFails, CheckPause, Place, Skip,
                  SetBidding, SendBeat, shared
    <3>2. firstStake' = IF firstStake = NotYet THEN prevStake' ELSE firstStake
      BY <2>2 DEF Loop
    <3>3. firstStake' = firstStake
      BY <3>1, <3>2
    <3> QED BY <3>1, <3>3
  <2>3. CASE Outside \/ UNCHANGED vars
    BY <2>3 DEF Outside, Pause, Resume, Poll, ReportObserved, EditConfig, ProviderMoves, vars,
                shared, history
  <2> QED BY <2>1, <2>2, <2>3 DEF Next, Outside
<1> QED BY <1>1, <1>2, TypeCorrect, PTL DEF Spec
=============================================================================
