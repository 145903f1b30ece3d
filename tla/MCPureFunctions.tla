-------------------------- MODULE MCPureFunctions ---------------------------
(* Model values for the modules that only compute: the bidder's decision      *)
(* (module BidDecision, inputs in MCBidDecision), the conversion of chain      *)
(* data (module ChainData) and the writes that carry a seal (module            *)
(* SealRequests).  A behaviour is one computation of one of them.             *)
EXTENDS MCBidDecision, ChainData, SealRequests

Numbers == {0, 1, 2, 3, 4, 9, 10, 11, 4095, 4096, 65535, 65536, 1048575}
Ones(n) == [i \in 1 .. n |-> 1]
Whole == 200

\* All ones, with one other number, or with an early end.
Around(n, lastByte) ==
  {[numbers |-> [Ones(n) EXCEPT ![i] = v], cut |-> Whole] : i \in 1 .. n, v \in Numbers}
    \cup {[numbers |-> Ones(n), cut |-> c] : c \in 0 .. lastByte}

\* As hex: also cut inside a byte, and with a character that is no digit.
MCAnswers ==
  UNION {{[types |-> t, numbers |-> a.numbers, cut |-> a.cut, bad |-> 0] :
            a \in Around(Len(t), 2 * Len(t) * WordLen)}
         \cup {[types |-> t, numbers |-> Ones(Len(t)), cut |-> Whole, bad |-> i] :
                 i \in 1 .. 2 * Len(t) * WordLen} :
          t \in {ProfileTypes, CommittedTypes, RecordTierTypes, PinTypes, SlotTypes,
                 ChallengedTypes, <<"u128">>, <<"bool">>}}

Hashes == {<<>>, <<7, 0, 7, 0>>, <<7, 1, 7, 1, 7>>, <<7, 1, 7, 1, 7, 1>>,
           <<0, 0, 0, 0, 5, 0, 0, 0, 0, 5>>}

MCJobAnswers ==
  {[numbers |-> a.numbers, cut |-> a.cut, hash |-> h, gap |-> gap] :
     a \in Around(13, 100), h \in Hashes, gap \in {0, 2}}

MCModelAnswers ==
  {[owner |-> owner, cid |-> cid, name |-> name, active |-> active, cut |-> Whole] :
     owner \in {1, 65535, 65536}, cid \in {<<>>, <<1, 2, 3>>, <<1, 2, 3, 4, 5>>, <<1, 15, 3>>},
     name \in {<<>>, <<1>>, <<1, 2, 3, 4, 5>>, <<1, 2, 3, 4, 5, 6>>}, active \in {0, 1, 2}}
    \cup {[owner |-> 1, cid |-> <<1, 2, 3, 4, 5, 6>>, name |-> <<1>>, active |-> 1, cut |-> c] :
            c \in 0 .. 85}

Word1 == <<9, 8, 7, 6, 5>>
Word2 == <<0, 0, 0, 0, 10>>
Account == <<0, 1, 2, 3>>
Blobs == {<<>>, <<1>>, <<1, 2, 3, 4>>, <<1, 2, 3, 4, 5>>, <<1, 2, 3, 4, 5, 6>>,
          <<0, 0, 0, 0, 5, 0, 0, 0, 0, 0>>}
Amounts == {0, 5, 4095}

MCCalls ==
  {[selector |-> s, args |-> <<n>>] :
     s \in {"getJob", "assignBestBid", "startExecution", "completeJob", "getRecord",
            "commitmentBlock", "resultVerifiedAt", "disputeResolvedForProvider"},
     n \in Amounts}
  \cup {[selector |-> s, args |-> <<Account>>] :
          s \in {"getProvider", "claimable", "registered"}}
  \cup {[selector |-> s, args |-> <<>>] :
          s \in {"claimRewards", "heartbeat", "saltPerPflopHour", "isPriceStale",
                 "registerPinner", "unallocatedSlotFunding"}}
  \cup {[selector |-> "getModel", args |-> <<Word1>>]}
  \cup {[selector |-> "bidOnJob", args |-> <<a, b, c>>] : a, b, c \in Amounts}
  \cup {[selector |-> "submitCommitment", args |-> <<n, Word1>>] : n \in Amounts}
  \cup {[selector |-> "submitResult", args |-> <<n, a, b>>] : n \in Amounts, a, b \in Blobs}
  \cup {[selector |-> "registerProvider", args |-> <<m>>] : m \in {<<>>, <<Word1>>, <<Word1, Word2>>}}
  \cup {[selector |-> s, args |-> <<Account, Word1, n>>] :
          s \in {"getPin", "owedOf"}, n \in Amounts}
  \cup {[selector |-> s, args |-> <<Word1, n>>] :
          s \in {"getSlot", "challenge", "claim", "returnBond"}, n \in Amounts}
  \cup {[selector |-> "sealCommit", args |-> <<Word1, n, Word2, m, Word1, Word2, Word1, b>>] :
          n, m \in Amounts, b \in Blobs}
  \cup {[selector |-> "submitPoSt", args |-> <<Word1, n, Word2, Word1, 4096, b>>] :
          n \in Amounts, b \in Blobs}

\* Outputs and nonces whose concatenations meet.
MCCommitments ==
  [output : Blobs \cup {<<1, 2, 3, 4, 5, 9>>, <<0, 0, 0, 0, 5>>, Word1, Word1 \o Word1},
   nonce : {Word1, <<0, 0, 0, 0, 0>>, <<2, 3, 4, 5, 6>>, <<0, 0, 5, 0, 0>>}]

MCProofs ==
  {[output |-> c.output, nonce |-> c.nonce, of |-> d] : c, d \in MCCommitments}

\* Letters 0 to 3 ('b' is 1, 'm' is 2), 'Q' is 4, a digit that is in neither
\* alphabet is 5, '/' is 6.
Strings(chars, lengths) == UNION {[1 .. n -> chars] : n \in lengths}

MCCids ==
  {<<CharB>> \o s : s \in Strings(0 .. 3, 0 .. 6)}
    \cup Strings({1, 4, 6}, 1 .. 4)
    \cup {<<CharQ, CharM>> \o s : s \in Strings({0, 2, 5, 6}, 2 .. 5)}
    \cup {CidOf(<<version, codec, Sha256, DigestLen, digest>>) \o s :
            version \in {1, 2}, codec \in {Raw, 4}, digest \in 0 .. 7, s \in {<<>>, <<0>>, <<3>>}}
    \cup {[CidOf(<<1, Raw, Sha256, DigestLen, digest>>) EXCEPT ![i] = c] :
            digest \in {0, 7}, i \in 1 .. 9, c \in 0 .. 6}

Targets(me, cids, sectors) ==
  [me : me, cid : cids, sector : sectors, replica : {{}, {"bytes"}, {"other bytes"}},
   reply : {"whole"}]

MCSeals ==
  Targets({"me"}, {"c1"}, {0})
    \cup {[t EXCEPT !.reply = f] : t \in Targets({"me"}, {"c1"}, {0}), f \in Replies}

MCPosts ==
  {[me |-> t.me, cid |-> t.cid, sector |-> t.sector, replica |-> t.replica,
    reply |-> replies[1], post |-> replies[2], nonce |-> n, deadline |-> 9] :
     t \in Targets({"me", "other"}, {"c1", "c2"}, {0, 1}), n \in {0, 1, 3},
     replies \in ({"whole"} \X Replies) \cup (Replies \X {"whole"})}

-----------------------------------------------------------------------------
NoProbe == [kind |-> "none"]

NoDecision == input = Baseline /\ decision = NoBid
NoData == probe = NoProbe /\ outcome = Pending
NoSeal == seal = NoProbe /\ post = NoProbe /\ requests = Unanswered

MCInit ==
  \/ Init /\ NoData /\ NoSeal
  \/ NoDecision /\ DataInit /\ NoSeal
  \/ NoDecision /\ NoData /\ SealInit

MCNext ==
  \/ probe = NoProbe /\ seal = NoProbe /\ Next /\ UNCHANGED <<dataVars, sealVars>>
  \/ probe # NoProbe /\ DataStep /\ UNCHANGED <<vars, sealVars>>
  \/ seal # NoProbe /\ SealStep /\ UNCHANGED <<vars, dataVars>>

MCSpec == MCInit /\ [][MCNext]_<<vars, dataVars, sealVars>>
=============================================================================
