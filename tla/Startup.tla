------------------------------ MODULE Startup ------------------------------
(***************************************************************************)
(* The start of the agent: node-agent/src/main.rs, the supervision token   *)
(* of supervision/src/auth.rs and the supervision server of                *)
(* supervision/src/server.rs.  Several starts share one token path, one    *)
(* bind address and one signing surface; any of them may be killed between *)
(* two steps and started again, under the same or another configuration.   *)
(*                                                                         *)
(* One step per effect on something another start can see; the checks in   *)
(* between, which only look at the start's own configuration, go with it.  *)
(***************************************************************************)
EXTENDS RpcCall, FiniteSets

CONSTANTS Starts,        \* processes that may run at the same time
          Configs,       \* the configurations an operator may give a start
          InitialFiles,  \* what may be at the token path to begin with
          ChainId,       \* the chain id the agent is built for
          ChainIds,      \* the chain ids an endpoint may report
          Sample,        \* SECS_PER_BLOCK_SAMPLE
          Default,       \* DEFAULT_SECS_PER_BLOCK
          Quantities,    \* block heights and timestamps (bound)
          MaxStarts      \* bound on the starts of a behaviour

\* The path: its inode's owner and mode, and the token in it: {} when empty.
Files == [kind : {"absent", "file", "symlink", "foreign"}, private : BOOLEAN,
          token : SUBSET Nat]

ASSUME StartupAssumption ==
  /\ Sample \in Nat \ {0} /\ Default \in Nat \ {0}
  /\ Quantities \subseteq Nat /\ MaxStarts \in Nat
  /\ InitialFiles \subseteq Files
  /\ \A f \in InitialFiles : f.token \subseteq {0} /\ (f.kind = "absent" => f.token = {})
  /\ \A c \in Configs : c.inputs \in BOOLEAN

VARIABLES file,     \* what is at the token path
          known,    \* the tokens the signing surface has read from it
          pc,       \* where each start is
          config,   \* its configuration
          token,    \* the token it holds: {} before it has one
          server,   \* its supervision server
          chain,    \* what it reads the chain through, once it does
          born,     \* which start of the behaviour it is (its token's name)
          started   \* how many starts there have been

vars == <<file, known, pc, config, token, server, chain, born, started>>

Running == {"config", "stat", "mint", "write", "harden", "spawn", "connect",
            "loop", "selfcheck"}

Unset == [daemon |-> FALSE]
NoChain == [secs |-> 0, executor |-> FALSE]

NoFile == [kind |-> "absent", private |-> FALSE, token |-> {}]
NewFile == [kind |-> "file", private |-> TRUE, token |-> {}]

(* ------------------------------- a start ------------------------------- *)

Init ==
  /\ file \in InitialFiles
  /\ known = {}
  /\ pc = [p \in Starts |-> "off"]
  /\ config = [p \in Starts |-> Unset]
  /\ token = [p \in Starts |-> {}]
  /\ server = [p \in Starts |-> "none"]
  /\ chain = [p \in Starts |-> NoChain]
  /\ born = [p \in Starts |-> 0]
  /\ started = 0

\* The process ends, and with it its server task.
Ends(p, how) ==
  /\ pc' = [pc EXCEPT ![p] = how]
  /\ token' = [token EXCEPT ![p] = {}]
  /\ server' = [server EXCEPT ![p] = "none"]
  /\ chain' = [chain EXCEPT ![p] = NoChain]
  /\ config' = [config EXCEPT ![p] = Unset]
  /\ born' = [born EXCEPT ![p] = 0]

Refused(p) == Ends(p, "error") /\ UNCHANGED <<file, started>>

Start(p) ==
  /\ pc[p] \in {"off", "ok", "error"}
  /\ started < MaxStarts
  /\ \E c \in Configs : config' = [config EXCEPT ![p] = c]
  /\ started' = started + 1
  /\ born' = [born EXCEPT ![p] = started + 1]
  /\ pc' = [pc EXCEPT ![p] = "config"]
  /\ UNCHANGED <<file, known, token, server, chain>>

\* Arguments, compute.json and the bind address, before any effect.
Configured(p) ==
  /\ pc[p] = "config" /\ config[p].daemon
  /\ LET c == config[p]
     IN  IF c.arguments /\ c.settings /\ c.addr = "loopback"
           THEN /\ pc' = [pc EXCEPT ![p] = "stat"]
                /\ UNCHANGED <<file, config, token, server, chain, born, started>>
           ELSE Refused(p)
  /\ UNCHANGED known

\* What eth_chainId may come to, and the block times that may be derived.
ChainIdAnswers == {Quantity(reply) : reply \in Replies(ChainIds)}

BlockTimes ==
  LET Heads == {Quantity(reply) : reply \in Replies(Quantities)}
      Stamps == {BlockTimestamp(reply) : reply \in Replies(Quantities)}
  IN  {DeriveSecsPerBlock(Default, Sample, head, last, first) :
         head \in Heads, last \in Stamps, first \in Stamps}

\* Without --daemon: a report on one decision, and nothing kept.
ChainAnswers(p) ==
  LET c == config[p]
  IN  /\ \A url \in c.rpc : AllowedOutbound(url, c.insecure)
      /\ {ChainId} \in ChainIdAnswers
      /\ c.provider # "garbage"

OneShot(p) ==
  /\ pc[p] = "config" /\ ~config[p].daemon
  /\ LET c == config[p]
         Sane == c.arguments /\ c.settings
     IN  \/ Sane /\ c.rpc = {} /\ Ends(p, "ok")
         \/ Sane /\ c.rpc # {} /\ ChainAnswers(p) /\ Ends(p, "ok")
         \/ ~(Sane /\ c.rpc = {}) /\ Ends(p, "error")
  /\ UNCHANGED <<file, known, started>>

(* ------------------------------ the token ------------------------------ *)

Holds(p, t) == token' = [token EXCEPT ![p] = t]

\* load_or_create: read_existing_token, up to the decision it leads to.
ReadExistingToken(p) ==
  /\ pc[p] = "stat"
  /\ CASE file.kind = "absent" ->
            /\ pc' = [pc EXCEPT ![p] = "mint"]
            /\ UNCHANGED <<file, config, token, server, chain, born, started>>
       [] file.kind = "file" /\ file.token # {} ->
            /\ pc' = [pc EXCEPT ![p] = "harden"] /\ Holds(p, file.token)
            /\ UNCHANGED <<file, config, server, chain, born, started>>
       [] OTHER -> Refused(p)
  /\ UNCHANGED known

\* The file is created and truncated, whoever's it is by now.
TruncateTokenFile(p) ==
  /\ pc[p] = "mint"
  /\ file' = NewFile
  /\ pc' = [pc EXCEPT ![p] = "write"] /\ Holds(p, {born[p]})
  /\ UNCHANGED <<known, config, server, chain, born, started>>

\* generate, then create_new: whatever came to be at the path in the meantime
\* makes the start fail.  The file is 0600 from its creation on, and empty.
CreateTokenFile(p) ==
  /\ pc[p] = "mint"
  /\ IF file.kind = "absent"
       THEN /\ file' = NewFile
            /\ pc' = [pc EXCEPT ![p] = "write"] /\ Holds(p, {born[p]})
            /\ UNCHANGED <<config, server, chain, born, started>>
       ELSE Refused(p)
  /\ UNCHANGED known

WriteToken(p) ==
  /\ pc[p] = "write"
  /\ file' = [file EXCEPT !.token = token[p]]
  /\ pc' = [pc EXCEPT ![p] = "harden"]
  /\ UNCHANGED <<known, config, token, server, chain, born, started>>

\* harden_perms, for a file just created and for one adopted; then the server
\* task is spawned.
Harden(p) ==
  /\ pc[p] = "harden"
  /\ file' = [file EXCEPT !.private = TRUE]
  /\ pc' = [pc EXCEPT ![p] = "spawn"]
  /\ server' = [server EXCEPT ![p] = "spawned"]
  /\ UNCHANGED <<known, config, token, chain, born, started>>

(* ------------------------ the supervision server ----------------------- *)

\* The task binds when it gets to run; when the address is taken it only says
\* so, and the process goes on.
Bind(p) ==
  /\ server[p] = "spawned"
  /\ server' = [server EXCEPT ![p] =
       IF \E q \in Starts : server[q] = "up" THEN "failed" ELSE "up"]
  /\ UNCHANGED <<file, known, pc, config, token, chain, born, started>>

\* The signing surface (outside this repository) reads the token file, once
\* there is a token in it.
SurfaceReads ==
  /\ file.token # {}
  /\ known' = known \cup file.token
  /\ UNCHANGED <<file, pc, config, token, server, chain, born, started>>

\* require_token: everything but /health asks for exactly the token held.
Authorised(p, presented) == token[p] = {presented}

(* ------------------------------ the chain ------------------------------ *)

\* Both an endpoint and a provider, or the self-check posture for good.
SelfCheck(p) ==
  /\ pc[p] = "spawn" /\ (config[p].rpc = {} \/ config[p].provider = "unset")
  /\ pc' = [pc EXCEPT ![p] = "selfcheck"]
  /\ UNCHANGED <<file, known, config, token, server, chain, born, started>>

\* ... which never ends, whatever becomes of the server task.
SelfCheckStays(p) ==
  /\ pc[p] = "selfcheck" /\ server[p] = "failed"
  /\ UNCHANGED vars

\* ... which lasts as long as the server task does.
SelfCheckEnds(p) ==
  /\ pc[p] = "selfcheck" /\ server[p] = "failed"
  /\ Ends(p, "ok")
  /\ UNCHANGED <<file, known, started>>

\* RpcClient::new and eth_chainId; an endpoint that is silent times out.
Connect(p) ==
  /\ pc[p] = "spawn" /\ config[p].rpc # {} /\ config[p].provider # "unset"
  /\ \E answer \in ChainIdAnswers :
       IF /\ \A url \in config[p].rpc : AllowedOutbound(url, config[p].insecure)
          /\ answer = {ChainId}
          /\ config[p].provider = "address"
         THEN /\ pc' = [pc EXCEPT ![p] = "connect"]
              /\ UNCHANGED <<file, config, token, server, chain, born, started>>
         ELSE Refused(p)
  /\ UNCHANGED known

\* build_job_executor: no executor unless weights, inference and inputs are all
\* configured; an executor that cannot be trusted ends the process.
HasBackends(c) == c.gateway # {} /\ c.llama # {} /\ c.inputs
SoundBackends(c) ==
  /\ c.sha # "garbage" /\ c.resident # "garbage"
  /\ \A url \in c.gateway \cup c.llama : AllowedOutbound(url, c.insecure)

\* The block time, the executor, and into run_loop.
EnterLoop(p) ==
  /\ pc[p] = "connect"
  /\ LET c == config[p]
     IN  IF HasBackends(c) => SoundBackends(c)
           THEN /\ pc' = [pc EXCEPT ![p] = "loop"]
                /\ \E secs \in BlockTimes :
                     chain' = [chain EXCEPT ![p] =
                       [secs |-> secs, executor |-> HasBackends(c)]]
                /\ UNCHANGED <<file, config, token, server, born, started>>
           ELSE Refused(p)
  /\ UNCHANGED known

(* ------------------------------ behaviours ----------------------------- *)

\* A crash, or the operator, at any moment.
Kill(p) ==
  /\ pc[p] \in Running
  /\ Ends(p, "off")
  /\ UNCHANGED <<file, known, started>>

Step(p) ==
  \/ Configured(p) \/ OneShot(p) \/ ReadExistingToken(p) \/ CreateTokenFile(p)
  \/ WriteToken(p) \/ Harden(p) \/ SelfCheck(p) \/ SelfCheckEnds(p)
  \/ Connect(p) \/ EnterLoop(p)

Next ==
  \/ SurfaceReads
  \/ \E p \in Starts : Start(p) \/ Step(p) \/ Bind(p) \/ Kill(p)

Spec == Init /\ [][Next]_vars

\* A process that is not killed runs on, and so does its server task.
FairSpec ==
  Spec /\ \A p \in Starts : WF_vars(Step(p)) /\ WF_vars(Bind(p))

(* ------------------------------ properties ----------------------------- *)

\* Every variable has its type, and a start in the loop a block time of at least a
\* second: with none every deadline would look reached.
TypeOK ==
  /\ file \in Files /\ file.token \subseteq 0 .. MaxStarts
  /\ known \subseteq 0 .. MaxStarts
  /\ pc \in [Starts -> Running \cup {"off", "ok", "error"}]
  /\ config \in [Starts -> Configs \cup {Unset}]
  /\ token \in [Starts -> SUBSET (0 .. MaxStarts)]
  /\ server \in [Starts -> {"none", "spawned", "up", "failed"}]
  /\ chain \in [Starts -> [secs : Nat, executor : BOOLEAN]]
  /\ born \in [Starts -> 0 .. MaxStarts] /\ started \in 0 .. MaxStarts
  /\ \A p \in Starts :
       /\ pc[p] \in Running => config[p] \in Configs
       /\ pc[p] = "loop" => chain[p].secs # 0

\* Whatever starts, crashes and restarts there were: a server that is up takes
\* every token the signing surface has ever read from the file, and the file it
\* was read from is private to the owner (auth.rs: load_or_create and
\* create_new against two starts at once; server.rs: require_token).
SurfaceGetsIn ==
  \A p \in Starts : server[p] = "up" =>
    /\ file.kind = "file" /\ file.private
    /\ Cardinality(token[p]) = 1
    /\ \A t \in known : Authorised(p, t)

\* A start that is not killed gets somewhere: into the loop, to its end, or to
\* a self-check whose server is up; no endpoint that stays silent and no bind
\* that fails leaves it half-way (main.rs: run_daemon).
StartDecides ==
  \A p \in Starts :
    pc[p] = "config" ~>
      \/ pc[p] \in {"loop", "ok", "error", "off"}
      \/ pc[p] = "selfcheck" /\ server[p] = "up"
=============================================================================
