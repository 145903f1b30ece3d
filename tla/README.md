# citrate-node-agent: TLA+ models and proofs

These modules model the node agent of `src/`: the daemon that bids on compute
jobs, executes the ones it wins, commits to and reveals their results, sweeps
its earnings and pins model weights, all without holding a key. Every write is an
*unsigned* request that a signing surface polls from the agent, signs,
broadcasts and reports back. What makes the agent hard is not any one function
but what lies between them: a queue that is re-fed every tick, a surface that
answers late, a chain that moves between two reads, and a process that may stop
between an fsync and a request.

## 1. Inventory

| component (crate) | state it keeps | operations | interacts with | what is hard | what makes it correct |
|---|---|---|---|---|---|
| signing relay queue (`supervision/state.rs`, `node-agent/relay.rs`) | `pending_requests`, `next_request_id`, in memory, cap 256 | three kinds of enqueue (plain, recurring, superseding), eviction, `mark_request_observed` | every writer of the daemon; the surface over HTTP | a re-emit between signing, report and mining; repeated and reordered reports; the cap; a restart | nothing signed twice, nothing pending lost, hashes belong to what was sent |
| lifecycle planner (`lifecycle`) | none (pure) | `plan`, `effective_tier` | the executor | early returns whose order matters; blocks at the edge of a window | no write before it is due, none for a tier the agent cannot prove |
| job executor (`node-agent/execution.rs`) | `JobProgress`: nonce, artifacts; the in-flight slot | `step`, `drive_job` | planner, chain views, nonce store, executor, relay | crashes between inference, rename, fsync and request; stale reads | one commitment per job; every reveal opens it; the slot is given back |
| nonce store (`node-agent/nonce.rs`) | `nonce-<job>`, `artifacts-<job>` on disk | `mint`, `load`, `save_artifacts`, `load_artifacts` | the executor | torn files, failed writes and syncs, power loss | what a commitment needs to be opened is durable before it is asked for |
| daemon loop (`node-agent/daemon.rs`) | none of its own | `run_loop`, `tick`, `beat`, `settings_for_tick` | supervision state under one `RwLock`, market view, bidder, relay, executors | the lock is released between check and use; settings sampled before RPC | a pause or an opt-out takes effect within a tick; losses raise an alert |
| supervision state and server (`supervision`) | paused, bidding, alerts, last observation | `pause`, `resume`, `set_bidding`, `record_provider_observation`, HTTP handlers | the loop, the GUI, the surface | handlers between any two steps of a tick | never "bidding" while paused |
| bidder, schedule, profiler, bridge (`bidder`, `config`, `clock.rs`, `profiler.rs`, `bridge.rs`) | the learned EWMA | `evaluate`, `in_window`, `secs_until_window_close`, `estimate`, `map_job` | the loop | saturation, wrapped windows, clock granularity, rounding | a bid is never at a loss, can finish before deadline and window, and can be settled |
| earnings sweep (`earnings`, `execution.rs`) | the in-flight guard | `plan_claim`, `EarningsPoller::tick` | relay, accounting contract | one calldata for every sweep | dust is not claimed; what crosses the threshold is swept |
| pinning (`pinning`) | the backoff | `plan_pin`, `tick_pin`, `SlotFundingBackoff::after` | incentives contract, sealer, signer, replica bytes | five separate reads, a deadline, competing pinners | no challenge missed, no hold for ever, the bond comes back |
| weight cache, provisioning (`executor/models.rs`) | `<cache dir>/<model>.bin` | `provision`, `IpfsGatewaySource::fetch` | registry, gateway, executor | a file named for the model but checked by the CID; a crash inside the write; peers that send anything or nothing | only verified weights are used, good ones are kept, a step always ends |
| inference runtime (`executor/runtime.rs`), input files (`live.rs`) | none | `LlamaServerInference::run`, `read_capped_regular_file` | resident server, the sender of the input | the input is still being written when it is read | an output is of the posted input, for the declared model |
| proof maker (`executor/proof.rs`) | none | `commitment`, `proof_data` | executor, verifier contract | the contract's comment documents another formula | a proof opens its own commitment only |
| seal sidecar (`pinning/sidecar.rs`), seal inputs (`pinning/runloop.rs`) | none | `seal`, `prove_post` | pinning | nothing of a seal is kept; every stage of the subprocess may fail | an answer opens the seal it is for, a bond stands behind real bytes |
| chain I/O (`chainio`) | none | ABI words and tails, selectors, JSON-RPC, the outbound gate, capped bodies | everything | truncated answers, offsets, numbers too wide, silence | a value is what the contract meant or an error; calldata reads back |
| supervision token (`supervision/auth.rs`) | the token file | `load_or_create`, `require_token` | server start, the surface | crash between create and write, two starts at once | a server that is up takes the surface's token |
| wiring (`main.rs`) | none | `run`, `run_daemon`, `build_job_executor` | everything | half-configured starts, a server that fails to bind | a start decides; what it cannot trust it refuses |

## 2. Modules

| module | models | kind |
|---|---|---|
| `SigningQueue` | the queue as operators on a value `q` (entries and `nextId`); one operator per critical section of the lock | operators |
| `RelayQueue` | the queue with its three writers, the surface and restarts | state machine |
| `LifecyclePlan` | `lifecycle::plan`, a predicate per action it can choose | operators |
| `JobExecution` | one won job: executor, disk, queue, surface, network, contracts, crashes, power loss | state machine; EXTENDS `LifecyclePlan` and `SigningQueue` |
| `CommitReveal` | what a provider promises: one result, and the reveal of that one | abstract specification, implemented by `JobExecution` |
| `DaemonLoop` | loop and supervision handlers over the shared state | state machine; EXTENDS `SigningQueue` |
| `Earnings` | poller, queue, surface, accounting contract | state machine; EXTENDS `SigningQueue` |
| `Pinning` | planner, tick and backoff against the incentives contract | state machine |
| `HttpExchange` | one HTTP exchange: redirects, timeouts, the capped reading of a body | operators on a record |
| `Provisioning` | the inference step in detail: input file, registry, weight cache, gateway, resident server | state machine; EXTENDS `HttpExchange` |
| `RpcCall` | the JSON-RPC client, the gate on outbound URLs, the block time derived from two blocks | operators |
| `Startup` | starts of the process: configuration, token file, server task, chain, executor | state machine; EXTENDS `RpcCall` |
| `BidDecision` | the bidder with its arithmetic, schedule and deadline | decision over a set of readings |
| `AbiCodec`, `ContractSide` | chainio's decoders and builders, hex and the layout of a proof; what a contract reads and returns (external) | operators |
| `ContentId` | CIDs: base32, both `validate_cid`, the digest embedded in a CID | operators |
| `ChainData` | one piece of data on its way between contract and agent | one computation; EXTENDS `ContractSide` and `ContentId` |
| `SealRequests` | from a replica's bytes to `sealCommit` and `submitPoSt`, through the sidecar | one computation |
| `MCJobExecution`, `MCProvisioning`, `MCStartup`, `MCBidDecision`, `MCPureFunctions` | model values for TLC; `MCPureFunctions` runs `BidDecision`, `ChainData` and `SealRequests` side by side | |
| `..._proofs` (eight) | theorems about `JobExecution`, `RelayQueue`, `DaemonLoop`, `Earnings`, `Pinning`, `Provisioning` and `Startup`; `PureFunctions_proofs` about `BidDecision`, `SealRequests` and `ChainData` | |

How state and actions correspond to the code:

- **Atomicity.** In the daemon an action is what runs between two awaits or two
  releases of the lock; in the executor also what lies between two disk
  operations. The planners are pure and evaluated inside the action that acts
  on the plan. `pc` names the await the running tick or step is at, `view` (or `ctx`)
  holds what it has read so far, so that every later decision uses values that may be stale.
- **The queue.** The code's `Vec` is in id order, so it is a set of entries with
  an id and "first" is "smallest id". `to`, `value`, `context` and `expires_block`
  are left out: no code reads them back.
- **The surface** is modelled from the HTTP API: it signs what it saw
  pending, does not sign an id whose report it still owes, may repeat a report
  and outlives the daemon. In `Startup` it also reads the token file, once there is a token in it.
- **The disk** of `JobExecution` is two views of the nonce directory: `disk`, what
  the process reads, and `synced`, what a power loss spares. A file that was
  created or renamed is in `disk` at once and in `synced` only after the
  directory was synced. The weight cache is written without a sync, so
  `Provisioning` lets it change between steps (`Corrupt`), and writes it block by block.
- **Faults of `JobExecution`** are a constant, `FaultModels`: each behaviour has one of them
  (how often the process crashes and power is lost, whether a directory sync can fail).
  `MCJobExecution` names the ones the runs use: `NoFaults`, `CrashOrPowerLoss` (one crash and
  failing syncs, or one power loss) and `PowerLossAndSyncFails`.
- **What one module takes for one step is another's state machine.** Inference is one action
  of `JobExecution` that may fail; `Provisioning` is that action, and ends with an
  output or without one. The commitment is an injective value in `JobExecution`; `ChainData`
  checks that its bytes are cut by the contract where the agent joined them. When the two
  pinning writes are requested is `Pinning`; what is in them is `SealRequests`.
- **Bytes** in `Provisioning` are sequences of blocks, and a digest is the content it stands for. In
  `AbiCodec` the widths of byte, word, address, `u128` and `usize` are constants, small enough
  for every boundary to be enumerated.
- **A call that may fail** in `RpcCall` and `SealRequests` is the set of values it returns: empty
  is an error. The ways to fail are elements of the input, so that each is tried.
- **The contracts** are not in the repository. They accept what the comments and
  guards of the agent say they accept, and are mapped as external.
- **Money and time** in `BidDecision` saturate and wrap at `MaxU64` and `MaxU128`,
  which are constants: TLC uses small ones so that saturation happens, the
  theorems hold for every width.

## 3. Runs

| run | question | bounds |
|---|---|---|
| `job_crash` | Does a job survive failing disk writes, failing syncs, a crash, or a power loss at any point? | 2 nonces, 2 outputs (so a second mint or a second inference can differ), 5 blocks, deadline 3, window 2; one crash, or one power loss with a working fsync |
| `job_live` | Is the slot released, is a verified job paid? | 1 nonce, 1 output, 4 blocks, no crash |
| `relay_queue` | Is anything signed twice, lost, or shown with the wrong hash? | cap 2, four distinct writes (two one-shots, a bid at two prices, the heartbeat), 3 ids, 3 broadcasts, one restart, repeated reports |
| `daemon_loop` | Do pause, opt-out and alerts hold between any two steps of a tick? | 2 stakes, scores 94 and 100 (a 6% drop), 2 prices |
| `earnings` | Is the first sweep made, and never dust? | threshold 2, 5 units earned in all |
| `pinning` | Is every challenge answered, every hold temporary, every bond returned? | quorum 1, 2 rounds, response window 7 blocks, one failed tick, an outage |
| `inference` | Are only verified weights and the posted input used, is a good cache kept, does a step end, does a runnable job run? | 2 jobs for 2 models, weights of one and two blocks and a CID without a digest, a cap of 2 blocks for weights and input and 1 for the completion, one fault (crash, damaged or deleted file, new registration) |
| `startup` | Does the surface get in wherever a server is up, and does each start decide? | 2 processes, 3 starts, 8 configurations (a sound one and one deviation at a time), an absent, empty, foreign-owned or existing token file |
| `bid_decision` | Does a bid pay, fit and settle? Does data cross between contracts and agent unchanged? Is a CID canonical? Does an answer open its seal? | 13 900 readings of the bidder; every value at a boundary of its width in every word of every answer, every early end of it, hex that ends in the middle of a byte; payloads around a word's length; 7 000 strings as CIDs; 49 900 pairs of a seal and a challenge, with every way either call of the sidecar may go |
| `earnings_second`, `daemon_alert`, `job_syncfail` | disagreements between code and comment, section 6 | as the run of the same module |

*Why the bounds are enough.* Violations of these properties are about the order of a
few events on few objects: two broadcasts of one write, two commitments of one
job, one alert over another. `relay_queue` allows one event more than
any of them needs; a third entry is what makes a queue of two evict. In `JobExecution`
two nonces and two outputs distinguish "again" from "another"; the
block bounds put the deadline and the window's end strictly inside the run, so
that both sides of each comparison occur. `Scores` straddles the 5% threshold.
`Pinning` needs two rounds, since the second challenge is the one that meets an
unclaimed reward and a stale request. In `Provisioning` two CIDs for one model make a cached file the
wrong one, two blocks make a body that stops half-way, and weights of exactly the cap must pass;
one fault is enough to leave any file behind, since afterwards the step runs from
whatever is there. In `Startup` two processes race for the path and the port and the third start
meets what they left. The conversions have no interplay: there the boundaries are
enumerated. Each property was also run against a plausible defect of the code (a dropped guard, a
missing reset, a swapped order; the operators marked "Mutant of ..."), and the runs find all of them.

`CHECK_DEADLOCK FALSE` is set where a bound ends the run (`RelayQueue`,
`JobExecution`, `Earnings`, `Startup`), where the work is done (`Provisioning`) or where something is
computed once (`MCPureFunctions`). `DaemonLoop` and `Pinning` never stop, and deadlock is checked.

## 4. Fairness

- `JobExecution` (`LiveSpec`): `run_loop` never stops ticking (weak fairness of `Step`), and
  strong fairness of each stage's success: a call or a disk operation may fail
  any number of times but not for ever, which is what re-running the whole step every
  tick is for. The surface signs and reports, broadcasts are mined. Nothing is
  assumed of the job's owner, the verifier, disputes or block production. There is no restart: after
  one, a report that comes late can settle an entry it is not for (section 6), and
  the job stalls.
- `Earnings`: the poller, the surface and the network keep going. No more.
- `Pinning`: as above; a failing tick is bounded by `MaxFails`, so weak fairness
  suffices. Blocks are made and somebody slashes a missed deadline (it is
  permissionless and paid).
- `Provisioning`: the daemon's own steps are taken, and while it waits for a peer the client's
  timeout fires in the end (`outbound.rs` gives every client one): `StepEnds` rests on nothing else. For
  `EventuallyRuns` things have to settle: from then on the peers answer, with what the CID names, no
  timeout fires before they do, the disk has room, and the input arrives. Whatever happened before may have
  left any cache, any input file and any registration.
- `Startup`: a process that is not killed runs on, and so does its server task. No endpoint has to
  answer: silence is one of the replies.
- `RelayQueue`, `DaemonLoop`, `MCPureFunctions`: safety only.

`NeverMissed` of `Pinning` is about time. The code has no timer for it: it holds
because ticks are short against the response window. The model says how
short: in normal operation a tick spans at most `TickBlocks` blocks, its wait
`BaseDelay`, an answer is mined within `Latency` blocks, and
`Response >= (2 + MaxFails) * (TickBlocks + BaseDelay) + Latency`: one tick read the
pin just before the challenge opened, `MaxFails` fail, one answers. TLC
finds a miss when the window is two blocks shorter. After `Outage` none of it is assumed.

## 5. What is proved

By TLAPS, for every value of the constants that satisfies the modules' named
assumptions. `TypeOK` of every state machine is a theorem (`TypeCorrect` of its proof
module), and so is every invariant and every action property that a run checks.

**`JobExecution_proofs`.** `JobAssumption` only types the constants.
`BenignFaults` says that in every fault model either there is no power loss (then any number of crashes,
failing writes and failing syncs), or no crash of the process and no failing sync
(then any number of power losses). Outside it the first three properties are false: section 6.

- Under `BenignFaults`: `CommitsOnce` (`[]OneCommitment`), `RevealsWhatItCommitted`
  (`[]RevealOpensCommitment`) and `KeepsPromise`: the executor with queue, disk, network and chain
  implements `CommitReveal`. They follow from one inductive invariant,
  `IInv`. `OneCommitment` is not inductive: whether
  the next commitment equals the last one depends on what is on disk, in memory, in
  the queue and on the chain. `FilesKept` ties them together: once artifacts
  were offered they are on disk (and on the part a power loss spares), memory
  holds them or nothing, and every commitment queued, broadcast or mined is theirs.
  `RevealsOpen` says that requested reveals carry the artifacts the chain holds.
- Under `BenignFaults` and `LosesPowerOnce` (at most one power loss): `FilesOfOffersStay`
  (`CommittedFilesKept`). `IInv` gives that the files exist; that no step touches them needs more (`KInv`):
  until the power is lost the file of the nonce in use is the durable one.
- For all faults: `RevealsAreDue`, `CompletionsAreDue`, `UnprovableGetsNothing`. A step plans on
  reads that may be old. `ReadsArePast` says what survives of them: the chain they were read from
  only moves forward, so a commitment that was seen is still there, a window that was over still is.

**`RelayQueue_proofs`.** For any cap, writes, prices, repeated reports and restarts: `NoDuplicates`, `NothingElseRearms`,
`PendingIsKept`, `HashesAreReal`, `NeverBroadcastsTwice`. Every operator of the queue leaves it alone,
pushes one fresh entry or swaps one entry for another of the same id; `WellKept` is proved once for
each of these. What was broadcast is related to the queue by `Faithful` (hashes and pending reports are of
broadcasts of the entry's calldata) and `Remembered` (a broadcast write has an entry that
is submitted or whose report is due); the latter needs that nothing was evicted, which is what
`AllThere` and a counting lemma give. `RetentionIsBounded` counts what an eviction removes: it is the set of
the oldest settled entries, one for each entry over the cap, if there are as many.

**`DaemonLoop_proofs`.** `PauseStopsBidding`, `StopsInTime`, `LossesAreAlerted`. `StopsWithinATick` is not
inductive: `HeardAfterwards` adds that after one late bid the next tick reads the
operator's word before it decides.

**`Earnings_proofs`.** `DustIsNeverClaimed`. All sweeps share one calldata, so the queue holds at most one claim
(`OneClaim`) and the cap never bites; until it is signed nothing is swept, so what crossed the threshold
stays across it (`NothingSwept`).

**`Pinning_proofs`.** `ChallengesAreAnswered`, for every quorum, round count, delay and window that satisfy
`PinAssumption`. The invariant says how much time is left (`TimeLeft`): while an open challenge has no answer under
way, the blocks to the deadline cover the rest of the running tick, one tick more if that one read the pin
too early, every tick that may still fail, and the mining of the answer. `Calm` holds until an outage.

**`Provisioning_proofs`.** `WeightsAreVerified`, `BodiesAreBounded`, `RunsAreBound`, `GoodWeightsAreKept`, for any peers, caches,
registrations and number of faults. The invariant carries each comparison forward to where its result is used: what
is being written was verified (`Writing`), the input was compared with the posted hash (`Bound`), what is
downloaded is not in the cache (`Needed`).

**`Startup_proofs`.** `SurfaceAlwaysGetsIn`, for any number of processes, starts and kills and any token file to begin with.
One start at most has a token to write (`OneWriter`), because `create_new` fails for the others, and whoever is
past that point holds the token of the file (`HoldsTheFiles`).

**`PureFunctions_proofs`.** The modules that compute once: their invariants say that the outcome is the one of
the input, and the rest is about operators.

- *Bids.* `BidsNeverLose`, `BidsMeetDeadlines`, `BidsAreProvable`, `BidsFinishInWindow`: for every
  set of readings and every integer width, a bid covers its exact cost, which saturates nowhere, and
  leaves the requester a tenth. `CostIsKnown` is the condition: the capacity `node_pflops * exec_secs` fits a `u128`,
  or it saturates (a configured capacity no machine has) under an oracle that pays at least 106 wei for a
  pflop-hour, since even the saturated cost is then above what may be bid (`DearIsOverCap`). A job that is bid on can run twice before its
  deadline; it is settled under the Commitment tier; and it ends inside the schedule's window even if the
  time left is over-reported by a minute. The argument is arithmetic, one
  lemma per rounding, and for windows a case split on those that wrap around midnight.
- *Seals.* `AnswersOpen`: for every way a call of the sidecar may go, a commitment and an answer to a challenge
  verify together exactly when both are of the same node, slot and bytes and the proof of neither was
  cut; nothing is requested without bytes, and whole replies do lead to their requests. `seal_inputs` is injective in
  node, slot and bytes. A cut proof counts because `field_proof` checks no width (section 6).
- *Bytes.* `AnswersAreFaithful`: for any widths of byte, word, address, `u128` and `usize`, an answer of any
  length, cut anywhere, gives the contract's value or is refused. `CallsAreReadBack`: calldata is read as
  the arguments it was built from, and a proof opens its commitment only. `CidsAreCanonical`:
  an accepted base32 CID is the only spelling of its bytes.

The codec is recursive functions and folds over sequences (`Power`, `Flat`, `Number`, `FromBits`), and the library's
induction theorems cannot be used, since they take an operator as a parameter. The proofs go
around that: `0 .. n` is well-founded under `<`, so the set of numbers for which a statement holds is everything
(`UpTo`, from the set form of well-founded induction), and a recursive function exists and is unique by the same
argument (`Recurses`, `Iterates`). From this follow, in order: sums and places of digits, that a number
written in a word is read back, that words joined are cut where they were joined, that what is
cut short is refused, and for CIDs that regrouping bits back and forth is the identity when what is left over is zero.

**The assumptions** about constants, and why the code has them. `WidthAssumption`: the widths of the EVM and of Rust's
integers; an enum's discriminant is a `u8`. `ErrorAssumption`, `RevertAssumption`: `Err` is no `Ok` value, a revert no
return data. `CidAssumption`: a letter has fewer bits than a byte, `b` is not `Q`. `SealAssumption`: there is at most one
replica of a content id, `challenge_n` is a positive `u64`, and the contract stores a nonce modulo `CHALLENGE_N`, which is why
taking its low eight bytes first loses nothing. `ChainData`'s `Answer-`, `Job-`, `Model-` and `CallAssumption` type the data a
contract returns or is called with, and say that what arrives or is built fits a `Vec`, whose length is a `usize`.
`ProofAssumption`: a nonce is 32 bytes, an output has any length. `BidAssumption` holds for `10^18` and
`2^128 - 1`. `PinAssumption` is section 4's. The others only type the constants. TLC evaluates each of them on the runs.

**Model-checked only.** Liveness, which the prover cannot do (`SlotReleased`, `VerifiedIsPaid`, `FirstSweep`, `SealsWhenItCan`,
`PinPaysOff`, `StepEnds`, `EventuallyRuns`, `StartDecides`), and of course the three violations of section 6.

## 6. Where code and comments disagree

The first three are runs TLC finds violated; `PROJECT.json` quotes the lines.

- `earnings_second`. `claimRewards()` has one calldata, the queue
  deduplicates on the calldata of *submitted* entries too, so the second sweep is
  accepted by the relay and never offered for signing until the entry is evicted or the
  daemon restarts.
- `daemon_alert`. A second alert replaces a latched one nobody has polled.
- `job_syncfail`. When the directory sync after the rename fails, the artifacts are dropped
  from memory, but the next step finds the renamed file, takes it for saved and asks
  for the commitment. A power loss then takes what the reveal needs. (A process crash
  between rename and sync, followed by a power loss, does the same.)
- `secs_until_window_close` (`config/src/lib.rs:77`) subtracts a clock cut to minutes, so it
  over-reports by up to 59 s where its comment says "never optimistic".
  `FinishesInWindow` states what remains true with that minute.
- `load_or_create` (`supervision/src/auth.rs:80`) is documented to generate a token "if absent/empty"; it refuses an
  empty file, as its code comments say. A start that dies between creating and writing the file
  therefore leaves one that every later start refuses, until the operator removes it.
- `run_daemon` (`node-agent/src/main.rs:253`) starts the supervision server first, and the
  self-check ends with it; the loop, however, goes on when the server task
  failed to bind (`main.rs:288` only logs it): an agent nobody can pause.

Known limits met while modelling, which no run pursues: request ids start over
with the process, so a report for a broadcast of the previous process marks
whatever entry has its id now, and a write of the running job that is marked that way is never signed;
a bid superseded between its signing and its report is shown
with the hash of the old calldata; a `completeJob` planned on a job state read before a dispute
reverts, and its submitted entry then blocks the one that is due when the
dispute is won; a pause that arrives between the pause check and the placement does not
stop that one bid (`StopsWithinATick`); a production `PinSigner` over
the relay queue would never sign a second `challenge` or `claim`; a gateway that sends a
byte now and then is only stopped by the byte cap; a completion that needs more than the client's 30 s
fails every time it is tried; `field_proof` (`pinning/src/sidecar.rs:171`) takes a proof of any width, so one that the
sidecar cut short, or left empty, is put into `sealCommit` or `submitPoSt` and it is the contract that refuses
it (`SealRequests` has such replies; `Pinning` takes a proof that was made to be whole); a configured capacity that
saturates a `u128`, together with an oracle below 106 wei per pflop-hour, makes a cost an understated one
(`CostIsKnown`).

## 7. What is not modelled

- The address book: addresses are constants. The text of requests, errors and logs, JSON and environment
  parsing: a parse either gives the value or fails.
- `lifecycle()`, `health()`, `last_error` and `max_concurrent`: derived or informational.
- The profiler's floating-point EWMA is an input of `BidDecision`.
- Hash functions, seals and proofs: injective values. The circuit, the inference itself and the contracts are outside
  the repository.
- `run_heartbeat_loop` of the heartbeat crate, which the binary does not use, and `clearSlashed`, which
  the code leaves to the operator.
- The loop over pinning targets and a production `PinSigner`: the sources have none.

## 8. Plan

Done: all state machines of section 2, the conversions, the theorems of section 5. What would come next:

1. The safety halves of the liveness properties: what a step at each stage of the job, the sweep and the pin can
   not undo (a rank that only falls), so that TLC is left with fairness alone.
2. Composition of loop, executor and sweep over one queue: what a shared queue can do
   to each of them, with an abstract "outbox" the queue implements.
3. Restarts with late reports in `JobExecution`: the stall of section 6 as a run, and the liveness that
   remains when the surface reports only to the process it signed for.
