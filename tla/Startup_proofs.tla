--------------------------- MODULE Startup_proofs ---------------------------
(***************************************************************************)
(* What TLAPS proves of module Startup, for any number of starts, any      *)
(* configurations, any token file to begin with and any kills in between:  *)
(* the types, and that a server that is up takes the signing surface's     *)
(* token.                                                                  *)
(***************************************************************************)
EXTENDS Startup, FiniteSetTheorems, TLAPS

-----------------------------------------------------------------------------
(* Types. *)

\* A derived block time is at least a second, whatever the endpoint answers.
LEMMA BlockTimesAreTimes == BlockTimes \subseteq Nat \ {0}
<1> SUFFICES ASSUME NEW head \in {Quantity(r) : r \in Replies(Quantities)},
                    NEW last \in {BlockTimestamp(r) : r \in Replies(Quantities)},
                    NEW first \in {BlockTimestamp(r) : r \in Replies(Quantities)}
             PROVE  DeriveSecsPerBlock(Default, Sample, head, last, first) \in Nat \ {0}
  BY DEF BlockTimes
<1>1. \A r \in Replies(Quantities) : r.value \subseteq Quantities
  BY DEF Replies
<1>2. last \subseteq Nat /\ first \subseteq Nat
  BY <1>1, StartupAssumption DEF BlockTimestamp
<1>3. SecsPerBlock(Sample, head, last, first) \subseteq Nat \ {0}
  <2> SUFFICES ASSUME NEW s \in SecsPerBlock(Sample, head, last, first)
               PROVE  s \in Nat \ {0}
    OBVIOUS
  <2>1. PICK a \in first, b \in last :
          s = IF (b - a) \div Sample > 1 THEN (b - a) \div Sample ELSE 1
    <3> DEFINE Time(a, b) == IF (b - a) \div Sample > 1 THEN (b - a) \div Sample ELSE 1
               Firsts == {t \in first : \E h \in head : h >= Sample}
               Lasts == {t \in last : \A u \in first : t > u}
    <3>1. s \in {Time(a, b) : a \in Firsts, b \in Lasts}
      BY DEF SecsPerBlock
    <3>2. \E a \in first, b \in last : s = Time(a, b)
      <4> HIDE DEF Time
      <4> QED BY <3>1
    <3> QED BY <3>2
  <2>2. a \in Nat /\ b \in Nat /\ Sample \in Nat \ {0}
    BY <1>2, StartupAssumption
  <2>3. (b - a) \div Sample \in Int
    BY <2>2
  <2> QED BY <2>1, <2>3
<1>4. Default \in Nat \ {0}
  BY StartupAssumption
<1> QED BY <1>3, <1>4 DEF DeriveSecsPerBlock

\* A start that ends has everything of its own taken back.
LEMMA EndsType ==
  ASSUME TypeOK, NEW p \in Starts, NEW how \in {"off", "ok", "error"}, Ends(p, how),
         UNCHANGED <<file, known, started>>
  PROVE  TypeOK'
BY StartupAssumption DEF TypeOK, Ends, NoChain, Running

\* A start's own steps keep the types.
LEMMA StepType == ASSUME TypeOK, NEW p \in Starts, Step(p) PROVE TypeOK'
<1> USE StartupAssumption
<1>1. CASE Configured(p)
  BY <1>1, EndsType DEF Configured, Refused, TypeOK, Running
<1>2. CASE OneShot(p)
  BY <1>2, EndsType DEF OneShot
<1>3. CASE ReadExistingToken(p)
  BY <1>3, EndsType DEF ReadExistingToken, Refused, Holds, TypeOK, Running
<1>4. CASE CreateTokenFile(p)
  <2>1. CASE file.kind = "absent"
    <3>1. NewFile \in Files /\ NewFile.token = {}
      BY DEF NewFile, Files
    <3>2. {born[p]} \in SUBSET (0 .. MaxStarts)
      BY DEF TypeOK
    <3> QED BY <1>4, <2>1, <3>1, <3>2 DEF CreateTokenFile, Holds, TypeOK, Running
  <2>2. CASE file.kind # "absent"
    BY <1>4, <2>2, EndsType DEF CreateTokenFile, Refused
  <2> QED BY <2>1, <2>2
<1>5. CASE WriteToken(p)
  <2>1. file' \in Files /\ file'.token \subseteq 0 .. MaxStarts
    BY <1>5 DEF WriteToken, TypeOK, Files
  <2> QED BY <1>5, <2>1 DEF WriteToken, TypeOK, Running
<1>6. CASE Harden(p)
  <2>1. file' \in Files /\ file'.token = file.token
    BY <1>6 DEF Harden, TypeOK, Files
  <2> QED BY <1>6, <2>1 DEF Harden, TypeOK, Running
<1>7. CASE SelfCheck(p)
  BY <1>7 DEF SelfCheck, TypeOK, Running
<1>8. CASE SelfCheckEnds(p)
  BY <1>8, EndsType DEF SelfCheckEnds
<1>9. CASE Connect(p)
  BY <1>9, EndsType DEF Connect, Refused, TypeOK, Running
<1>10. CASE EnterLoop(p)
  <2>1. CASE HasBackends(config[p]) => SoundBackends(config[p])
    <3>1. PICK secs \in BlockTimes :
            chain' = [chain EXCEPT ![p] = [secs |-> secs, executor |-> HasBackends(config[p])]]
      BY <1>10, <2>1 DEF EnterLoop
    <3>2. HasBackends(config[p]) \in BOOLEAN
      BY <1>10 DEF EnterLoop, TypeOK, Running, HasBackends
    <3>3. secs \in Nat /\ secs # 0
      BY BlockTimesAreTimes
    <3> QED BY <1>10, <2>1, <3>1, <3>2, <3>3 DEF EnterLoop, TypeOK, Running
  <2>2. CASE ~(HasBackends(config[p]) => SoundBackends(config[p]))
    BY <1>10, <2>2, EndsType DEF EnterLoop, Refused
  <2> QED BY <2>1, <2>2
<1> QED BY <1>1, <1>2, <1>3, <1>4, <1>5, <1>6, <1>7, <1>8, <1>9, <1>10 DEF Step

\* Every variable keeps its type.
THEOREM TypeCorrect == Spec => []TypeOK
<1>1. Init => TypeOK
  BY StartupAssumption DEF Init, TypeOK, Files, Unset, NoChain, Running
<1>2. TypeOK /\ [Next]_vars => TypeOK'
  <2> SUFFICES ASSUME TypeOK, [Next]_vars PROVE TypeOK'
    OBVIOUS
  <2>1. CASE SurfaceReads
    BY <2>1 DEF SurfaceReads, TypeOK
  <2>2. ASSUME NEW p \in Starts, Start(p) PROVE TypeOK'
    BY <2>2, StartupAssumption DEF Start, TypeOK, Running
  <2>3. ASSUME NEW p \in Starts, Bind(p) PROVE TypeOK'
    BY <2>3 DEF Bind, TypeOK
  <2>4. ASSUME NEW p \in Starts, Kill(p) PROVE TypeOK'
    BY <2>4, EndsType DEF Kill
  <2>5. CASE UNCHANGED vars
    BY <2>5 DEF vars, TypeOK
  <2> QED BY <2>1, <2>2, <2>3, <2>4, <2>5, StepType DEF Next
<1> QED BY <1>1, <1>2, PTL DEF Spec

-----------------------------------------------------------------------------
(* SurfaceGetsIn.  The token at the path is written once, by the one start     *)
(* that created the file; whoever holds a token holds that one.                *)

Holding == {"harden", "spawn", "connect", "loop", "selfcheck"}

\* There is one token; the surface knows no other, and none without a file.
OneToken ==
  /\ known \subseteq file.token
  /\ \A s, t \in file.token : s = t
  /\ file.kind = "absent" => file.token = {}

\* Of two starts at once at most one has a token to write, and it wrote none yet.
OneWriter ==
  /\ \A p \in Starts :
       pc[p] = "write" =>
         /\ file.kind = "file" /\ file.token = {}
         /\ token[p] # {} /\ \A s, t \in token[p] : s = t
  /\ \A p, q \in Starts : pc[p] = "write" /\ pc[q] = "write" => p = q

\* From then on a start holds the token of the file, and its server comes after.
HoldsTheFiles ==
  \A p \in Starts :
    /\ pc[p] \in Holding =>
         file.kind = "file" /\ file.token # {} /\ token[p] = file.token
    /\ server[p] # "none" => pc[p] \in Holding \ {"harden"} /\ file.private

IInv == TypeOK /\ OneToken /\ OneWriter /\ HoldsTheFiles

\* A start that ends leaves the file to the others.
LEMMA EndsKeeps ==
  ASSUME IInv, NEW p \in Starts, NEW how \in {"off", "ok", "error"}, Ends(p, how),
         UNCHANGED <<file, known>>
  PROVE  OneToken' /\ OneWriter' /\ HoldsTheFiles'
BY DEF IInv, TypeOK, Ends, OneToken, OneWriter, HoldsTheFiles, Holding

\* So does one that goes on without touching file, token or server.
LEMMA GoesOn ==
  ASSUME IInv, NEW p \in Starts, NEW to, pc' = [pc EXCEPT ![p] = to],
         UNCHANGED <<file, known, token, server>>,
         \/ to \notin Holding \cup {"write"} /\ pc[p] \notin Holding
         \/ {pc[p], to} \subseteq Holding \ {"harden"}
  PROVE  OneToken' /\ OneWriter' /\ HoldsTheFiles'
BY DEF IInv, TypeOK, OneToken, OneWriter, HoldsTheFiles, Holding

\* No step of a start takes what another start holds.
LEMMA StepKeeps ==
  ASSUME IInv, NEW p \in Starts, Step(p)
  PROVE  OneToken' /\ OneWriter' /\ HoldsTheFiles'
<1> USE DEF Holding
<1>1. CASE Configured(p)
  BY <1>1, EndsKeeps, GoesOn DEF Configured, Refused
<1>2. CASE OneShot(p)
  BY <1>2, EndsKeeps DEF OneShot
<1>3. CASE ReadExistingToken(p)
  <2>1. CASE file.kind = "absent"
    BY <1>3, <2>1, GoesOn DEF ReadExistingToken
  <2>2. CASE file.kind = "file" /\ file.token # {}
    BY <1>3, <2>2 DEF ReadExistingToken, Holds, IInv, TypeOK, OneToken, OneWriter, HoldsTheFiles
  <2>3. CASE file.kind # "absent" /\ ~(file.kind = "file" /\ file.token # {})
    BY <1>3, <2>3, EndsKeeps DEF ReadExistingToken, Refused
  <2> QED BY <2>1, <2>2, <2>3
<1>4. CASE CreateTokenFile(p)
  <2>1. CASE file.kind = "absent"
    <3>1. \A q \in Starts : pc[q] # "write" /\ pc[q] \notin Holding /\ server[q] = "none"
      BY <2>1 DEF IInv, OneWriter, HoldsTheFiles
    <3>2. known = {} /\ file'.kind = "file" /\ file'.token = {}
      BY <1>4, <2>1 DEF CreateTokenFile, NewFile, IInv, OneToken
    <3>3. /\ pc' = [pc EXCEPT ![p] = "write"] /\ UNCHANGED <<known, server>>
          /\ token' = [token EXCEPT ![p] = {born[p]}]
      BY <1>4, <2>1 DEF CreateTokenFile, Holds
    <3> QED BY <3>1, <3>2, <3>3 DEF IInv, TypeOK, OneToken, OneWriter, HoldsTheFiles
  <2>2. CASE file.kind # "absent"
    BY <1>4, <2>2, EndsKeeps DEF CreateTokenFile, Refused
  <2> QED BY <2>1, <2>2
<1>5. CASE WriteToken(p)
  <2>1. /\ pc[p] = "write" /\ file.kind = "file" /\ file.token = {} /\ known = {}
        /\ \A q \in Starts : pc[q] \notin Holding /\ (pc[q] = "write" => q = p)
    BY <1>5 DEF WriteToken, IInv, OneToken, OneWriter, HoldsTheFiles
  <2>2. file'.kind = "file" /\ file'.token = token[p]
    BY <1>5, <2>1 DEF WriteToken, IInv, TypeOK, Files
  <2>3. token[p] # {} /\ \A s, t \in token[p] : s = t
    BY <2>1 DEF IInv, OneWriter
  <2> QED BY <1>5, <2>1, <2>2, <2>3
          DEF WriteToken, IInv, TypeOK, OneToken, OneWriter, HoldsTheFiles
<1>6. CASE Harden(p)
  <2>1. file'.kind = file.kind /\ file'.token = file.token /\ file'.private
    BY <1>6 DEF Harden, IInv, TypeOK, Files
  <2> QED BY <1>6, <2>1 DEF Harden, IInv, TypeOK, OneToken, OneWriter, HoldsTheFiles
<1>7. CASE SelfCheck(p)
  BY <1>7, GoesOn DEF SelfCheck
<1>8. CASE SelfCheckEnds(p)
  BY <1>8, EndsKeeps DEF SelfCheckEnds
<1>9. CASE Connect(p)
  BY <1>9, EndsKeeps, GoesOn DEF Connect, Refused
<1>10. CASE EnterLoop(p)
  BY <1>10, EndsKeeps, GoesOn DEF EnterLoop, Refused
<1> QED BY <1>1, <1>2, <1>3, <1>4, <1>5, <1>6, <1>7, <1>8, <1>9, <1>10 DEF Step

\* The strengthened invariant holds in every state.
LEMMA Invariance == Spec => []IInv
<1>1. Init => OneToken /\ OneWriter /\ HoldsTheFiles
  BY StartupAssumption DEF Init, OneToken, OneWriter, HoldsTheFiles, Holding
<1>2. IInv /\ [Next]_vars => OneToken' /\ OneWriter' /\ HoldsTheFiles'
  <2> SUFFICES ASSUME IInv, [Next]_vars PROVE OneToken' /\ OneWriter' /\ HoldsTheFiles'
    OBVIOUS
  <2>1. CASE SurfaceReads
    BY <2>1 DEF SurfaceReads, IInv, OneToken, OneWriter, HoldsTheFiles
  <2>2. ASSUME NEW p \in Starts, Start(p) PROVE OneToken' /\ OneWriter' /\ HoldsTheFiles'
    BY <2>2, GoesOn DEF Start, Holding
  <2>3. ASSUME NEW p \in Starts, Bind(p) PROVE OneToken' /\ OneWriter' /\ HoldsTheFiles'
    BY <2>3 DEF Bind, IInv, TypeOK, OneToken, OneWriter, HoldsTheFiles
  <2>4. ASSUME NEW p \in Starts, Kill(p) PROVE OneToken' /\ OneWriter' /\ HoldsTheFiles'
    BY <2>4, EndsKeeps DEF Kill
  <2>5. CASE UNCHANGED vars
    BY <2>5 DEF vars, IInv, OneToken, OneWriter, HoldsTheFiles
  <2> QED BY <2>1, <2>2, <2>3, <2>4, <2>5, StepKeeps DEF Next
<1> QED BY <1>1, <1>2, TypeCorrect, PTL DEF Spec, IInv

\* Whoever starts, crashes and starts again, and whatever was at the path before: the
\* signing surface is let in by every server that is up (auth.rs's create_new).
THEOREM SurfaceAlwaysGetsIn == Spec => []SurfaceGetsIn
<1>1. IInv => SurfaceGetsIn
  <2> SUFFICES ASSUME IInv, NEW p \in Starts, server[p] = "up"
               PROVE  /\ file.kind = "file" /\ file.private
                      /\ Cardinality(token[p]) = 1
                      /\ \A t \in known : Authorised(p, t)
    BY DEF SurfaceGetsIn
  <2>1. /\ file.kind = "file" /\ file.private
        /\ file.token # {} /\ token[p] = file.token
    BY DEF IInv, HoldsTheFiles
  <2>2. PICK t \in file.token : file.token = {t}
    BY <2>1 DEF IInv, OneToken
  <2>3. Cardinality({t}) = 1
    BY FS_Singleton
  <2> QED BY <2>1, <2>2, <2>3 DEF Authorised, IInv, OneToken
<1> QED BY <1>1, Invariance, PTL
=============================================================================
