---------------------------- MODULE CommitReveal ----------------------------
(***************************************************************************)
(* What a provider promises under the Commitment tier, without the chain's *)
(* blocks, the disk, the queue and the crashes of module JobExecution: it  *)
(* commits to one result, and what it asks to reveal is the result whose   *)
(* commitment the contract holds.  A request may vanish (the queue is in   *)
(* memory) and may be made again.                                          *)
(***************************************************************************)

CONSTANTS Results, None

VARIABLES
  promised,  \* results whose commitment was ever asked for
  landed,    \* the result whose commitment is on the chain, or None
  opening    \* the results that requests and broadcasts ask to reveal

vars == <<promised, landed, opening>>

Init == promised = {} /\ landed = None /\ opening = {}

Promise ==
  /\ promised = {}
  /\ \E r \in Results : promised' = {r}
  /\ UNCHANGED <<landed, opening>>

Land ==
  /\ landed = None
  /\ landed' \in promised
  /\ UNCHANGED <<promised, opening>>

Open ==
  /\ landed # None
  /\ opening' = {landed}
  /\ UNCHANGED <<promised, landed>>

Withdraw ==
  /\ opening' = {}
  /\ UNCHANGED <<promised, landed>>

Next == Promise \/ Land \/ Open \/ Withdraw

Spec == Init /\ [][Next]_vars
=============================================================================
