# TLA+ specification of bulkmail and mempooloracle

This project specifies the two crates of the repository, checks the
specifications with TLC on small instances, and proves their safety properties
with TLAPS for all values of the constants. Paths below are relative
to `crates/bulkmail/src` (B) and `crates/mempooloracle/src` (O).

## The system

`bulkmail` sends messages as Ethereum transactions of one account, many at a
time. Callers hand messages to `Sender::add_message`; `Sender::run` pops them
in order of priority, takes a permit of a semaphore and spawns a task for each;
a task takes a nonce and a fee, sends, watches, and replaces a transaction that
does not confirm. `mempooloracle` follows the mempool of a node and answers, on
any thread, where a transaction stands in it; its example `cli_tool` (O
`../examples/cli_tool.rs`) shows the answers in a terminal.

| Part | State | Operations | What is hard about it |
|---|---|---|---|
| Sender (B `sender.rs`) | queue, permits, notification | `add_message`, `run`, `process_next_message`, `process_message`, `send_and_watch` | a biased `select!` cancels the processing at any await; tasks run concurrently; many error exits |
| NonceManager (B `nonce_manager.rs`) | `current`, `in_flight` | `get_next_available_nonce`, `mark_nonce_available`, `update_current_nonce`, `sync_nonce` | late, out-of-order confirmations and sync answers |
| Ethereum adapter (B `adapter/ethereum.rs`) | none of its own | send and watch, `handle_dropped`, `handle_confirmed`, `bump_fee` | a time-out is taken for a drop; both strategy and Sender release |
| GasPriceManager (B `gas_price.rs`) | window of times, estimate | `get_gas_price`, `update_on_confirmation` | two mutexes, feedback of fees paid into fees offered, rounding |
| Message, PriorityQueue, Clock (B `message.rs`, `priority_queue.rs`, `clock.rs`) | fields, heap, time | `effective_priority`, `is_expired`, `push`, `pop` | thresholds; a priority computed at the push and used at the pop |
| Chain client, adapter traits (B `chain.rs`, `adapter/mod.rs`) | connection | RPC calls, block stream | answers lost or late; bounded channels in a row, a broadcast buffer that overflows |
| Solana adapter (B `adapter/solana.rs`) | blockhash cache | `subscribe_new_blocks`, `next`, `sync` | the cache ages while a sync is between two requests, or fails |
| Mempool tracker (O `lib.rs`) | account queues, two indexes, base fee | `insert`, `apply_block`, `classify_transaction`, `gas_ahead` | offsets that shift, indexes kept by hand, replaced transactions, missed blocks |
| Lock of the tracker (O `lib.rs`) | `RwLock` | event loop, queries | a query that takes the read lock twice |
| RPC transport (O `transport/rpc.rs`) | three tasks | connecting, backfill, two subscriptions | requests that fail, tasks stopped at any await |
| Tracker runtime (O `runtime.rs`) | watch channel, counters | shutdown by drop | a signal, then an abort, and a thread that only sees a closed channel |
| `cli_tool` (O `../examples/cli_tool.rs`) | source, snapshot, scroll position | `main`, simulation, capture, scrolling | many queries for one snapshot; a list that shrinks under its position; joining threads |

## Modules

| Module | Models |
|---|---|
| `NonceManager` | the nonce manager; its operations are operators on `current` and `in_flight` that `Sender` composes |
| `EthNode` | external: the node's view of the account. Accepting (also replacing), mining, reverting and evicting transactions; `Leftover` are those of an earlier process |
| `Sender` | the orchestrator with the Ethereum strategy, over the two modules above |
| `Delivery` | what callers are promised: a message waits, is active in one of a number of slots, ends once, is executed at most once, and success is reported only if it was executed |
| `GasPrice` | fee manager, bumping included |
| `MessageQueue` | messages, their priority over time, and the heap |
| `MempoolTracker` | `MempoolInner` under the events of the transport, and the queries |
| `TrackerLock` | the lock between the event loop and the querying threads |
| `TrackerRuntime` | over `TrackerLock`: the event channel, the thread in `run`, the counters and the shutdown |
| `RpcTransport` | over `TrackerRuntime`: connecting and the three tasks that send events |
| `CliTool` | over `RpcTransport`: the example, which also composes the other three with a thread that queries |
| `BlockFeed` | the forwarders between a node's subscription and `Sender::run`, of both adapters |
| `BlockStream` | what `Sender` assumes of that stream: bounded, and closed at most once |
| `SolReplay` | over `BlockFeed`: the blockhash cache of the Solana adapter, synced by `run` |
| `MC*` | instances for TLC; `CliTool` and `SolReplay` need none |
| `*Proofs` | theorems; `SenderDeliveryProofs` extends `SenderProofs`, `CliToolProofs` extends `TrackerLockProofs` |

### Sender

An action is what one actor does between two awaits at which it can be
overtaken. `loop` is the await `run()` is at, `pc[m]` where a message is: with
its caller, in the queue, at an await of its task, or done. `receive_block`
cancels a half-done `process_next_message`, with whatever permit it has
(`CancelProcessNextMessage`). `sync_nonce` is two steps, the RPC and the update
under the lock. A send can fail before or after the node has the transaction; a
watcher can time out although the transaction is mined later. `OnDropped`
keeps the order of the code: the message's retry budget first, the strategy
second; the strategy's own release of the nonce and the Sender's release are two
steps. `Adapter = "any"` stands for an arbitrary `RetryStrategy` that leaves the
token to the Sender. Priorities are abstract here; `MessageQueue` has them.

### GasPrice and MessageQueue

In `GasPrice` the calls `get_gas_price` and `update_on_confirmation` are split
where the first mutex is released, so calls of different tasks interleave. Fees
are integers with the code's divisions. `percent` is defined by the results of
its f64 computation on whole percentages. `MessageQueue` has the arithmetic of
the deadline boost and the age; a heap entry keeps the priority of its push.

### MempoolTracker and TrackerLock

An event is applied under the write lock and is one step in `MempoolTracker`. A
pending transaction may be announced late and more than once; a block may be
missed (`MissedBlock`: fetching it failed) and the chain may fall back (`Reorg`).
In `TrackerLock` the contents are a version number. `CanRead` is the policy of
the standard library's futex lock: a writer that waits holds back later readers.

### TrackerRuntime, RpcTransport and CliTool

`task[t]` is the point a task is at. A task that has been aborted ends only where
it awaits; at the points of `Running` it goes on, so counting an event and
sending it are two steps that an abort cannot separate, and other tasks can.
`get_block_by_hash` is awaited inside an arm of `select!` and does not see the
shutdown there. `has_changed` answers an error once the watch channel's sender is
gone, which the backfill reads as no change: it then ends by abort, or by
finishing. An event is only its kind; what it does is `MempoolTracker`.

`main` of the tool chooses a live or simulated source, captures snapshots query
by query through the lock of `TrackerLock`, scrolls, and ends by a key, a
deadline or an error of the terminal. A snapshot is the number of its rows and of
its keys, a terminal its height; the height may change between two calls.

### BlockFeed and SolReplay

`adapter` chooses the chain. For Ethereum a header passes the broadcast buffer of
the subscription, the forwarder of the client, a channel, the forwarder of the
adapter and a second channel; for Solana one forwarder and one channel. A
forwarder holds at most one header, waits for room, and finds that its receiver
is gone when it sends. In `SolReplay` heights stand for blockhashes, `sync` reads
the height, compares, fetches and stores in separate steps, and a height read at
the adapter's commitment may be `CommitmentLag` behind.

## Runs that pass

| Run | Bounds | Shows |
|---|---|---|
| `sender_eth` | two messages, two permits, shipped limits 3/3, failing fees, one block, a block stream that may close, one transaction left by an earlier process | `UniqueNonces`, `NoLeakedNonce`, `AtMostOnce`, `BaselineNotAhead`, `StrategyNeverReleases`, `ImplementsDelivery` |
| `sender_live` | two messages, one permit, limits 3/1, failing fees, a resubmission, requeues, a deadline | `EveryMessageSettles`, `PermitsConserved`, `NoLostWakeup` |
| `gas_price` | two transactions, small fees, window of two | `FeeFloor`, `FeeCeiling`, `EstimateIsARatchet` |
| `message_queue` | two messages, a clock through all thresholds | `ExpiryAgrees`, `FrozenPriorityIsLowerBound`, `InversionIsBounded`, `UrgencyNeverFalls` |
| `mempool` | two accounts, three nonces, capacities 2/2, five events | `SlotsAligned`, `TrackedIsIndexed`, `KeysNotBelowConfirmed`, `FreshAfterBlock`, `OvertakenLeave` |
| `lock` | three threads, all of which may estimate, three events | `SameSnapshot`, `EveryoneProgresses` |
| `cli` | one notice per subscription, one transaction to backfill, six events, two keys and rows, heights 0 and 4, three simulated transactions with a block after two | `CountedIsSent`, `FinalCountIsApplied`, `TrackerEnds`, `ScrollInRange`, `TimedRunEnds` |
| `feed` | channels of one slot, a buffer of two, seven headers, validity 4, margin 2, lag 1 | `NothingSkipped`, `EveryHeaderArrives`, `FewReadLate`, `FeedEnds`, `ImplementsStream`, `TokenValid` |

Why the bounds are enough to be of interest: two messages are the least for a
collision on a nonce, and a leftover transaction gives a third party; one block
suffices to cancel at every await, and to sync at any moment. Two priced
transactions are the least for one to confirm between the two reads of another.
Capacity two with three nonces gives refusals, evictions, gaps, prepended slots
and replacements; five events are a limit of depth and not an argument that
nothing happens later. The end of the block stream
is left to `sender_eth`, as it doubles the states of `sender_live`; the theorems
allow it always. `sender_live` sets `MAX_REPLACEMENTS` to 1, because with the
shipped limits the strategy never requeues: a task resubmits once, the next drop
requeues its message, and the one after that exhausts the retries. No run sets `Adapter = "any"`:
`NoLeak`, `NonceUniqueness`, `WakeupNotLost` and `PermitsSafe` are proved for it.
In `cli` one notice per task lets each be at every one of its points while the
others are at any of theirs; a pane of height 0 shows one row and one of height 4
shows two, so the list is shorter, as long and longer than the pane. In `feed` a
channel of one slot is full as soon as anything waits, seven headers overfill all
buffers, and the blockhash is refreshed more than once.

Deadlock is not checked where a bound ends the behaviours (`message_queue`,
`mempool`), and where the system really can stop: the tracker, the tool and the
feed come to an end, and the lock can be wedged (`lock`, `cli`, `feed`).

Fairness. For `Sender`: the executor polls a task that can move, an RPC returns
or fails, a watcher times out (it has a time-out in the code; the send RPC does
not, which is an assumption on the client). Callers, node and clock owe nothing.
For `TrackerLock`: a thread that can go on does; nobody has to start a query. For
`CliTool`: threads and tasks that can go on do, and requests with a time-out end;
the node owes no notice and no end of a stream, and `get_block_by_hash`, which has
no time-out, may never answer. A deadline stays passed, so the loop of `main`
finds it (strong fairness of `deadline_passes`). For `SolReplay`: forwarders and
`run()` are polled, and requests end.

What some of these say and do not say:

- `EveryMessageSettles` is about a `run()` that goes on. One failed sync ends it
  (B `sender.rs:112`), and what is in the queue then stays there.
- `FinalCountIsApplied` relates the counters the user is shown to the mempool once
  no event is on its way: whatever the tasks were doing when they were aborted or
  told to stop, and because `main` of a simulated run joins both threads.
- `TrackedIsIndexed` has every tracked transaction in the index. That no other key
  is in `priority_queue` holds after a block only, and is `FreshAfterBlock`.
- The events of `lock` are finitely many, so a reader kept out for ever by one
  writer after another is not among its behaviours; `EveryoneProgresses` says
  nothing of it.
- `EveryoneProgresses`, `TrackerEnds` and `TimedRunEnds` except the one way to get
  stuck, `Wedged`, which is the subject of `lock_doc_shared`.
- `TrackerEnds` is about dropping a `TrackerRuntime`. `main` of the tool waits for
  nobody after it has dropped a live one, and the process may end earlier.
- `ImplementsStream` shows that the feed is what `Sender` takes as its block
  stream (`NewBlock`, `CloseStream`): any number of blocks that fits, any delay,
  and no block after the end. After an overflow of the broadcast buffer the stream
  ends; nothing is skipped silently.
- `TokenValid` guarantees a token for the margin less the commitment lag. The
  margin of the code is 30 blocks. At the default commitment, finalized, the lag on
  the main network is about as large, and then nothing of the guarantee is left.

## Disagreements found

Each of these is a run that ends in a violation.

| Run | The text | The code |
|---|---|---|
| `sender_doc_revert` | B `sender.rs:242`: a reverted transaction is delegated to retry | it is sent again at the nonce it consumed, so no node can accept it |
| `gas_doc_bump` | ARCHITECTURE.md:247: replacements need 10% more | only the priority fee grows by 20%; the total grows by less than 10% while the priority fee is below the base fee of 2 Gwei |
| `mempool_doc_evict` | `tests/mempool_oracle.rs:195`: a higher fee evicts | at capacity a transaction is compared with, and evicts, the best one; the test has a capacity of one, where best and worst are the same |
| `lock_doc_shared` | O `lib.rs:493`: shared across threads | an estimate takes the read lock twice; with a writer waiting in between, both block |

The last one depends on the lock's policy, which the standard library leaves
open. docs/design.md also speaks of retrying reverted transactions, but the
repository's README marks it as superseded.

Further differences between text and code, which can be read off the definitions
and have no run of their own:

- ARCHITECTURE.md:195 moves the baseline to `nonce + 1` at a confirmation;
  `handle_confirmed` moves it to `nonce`, which stays in `in_flight` until the
  next sync. `NoLeakedNonce` and `UniqueNonces` hold all the same.
- ARCHITECTURE.md:204 requeues after any error; the code ends the message
  (`GiveUp`).
- B `adapter/ethereum.rs:242-244` has `EthRetryStrategy` release the nonce of a
  transaction that fails before it is broadcast. The strategy is asked only about
  transactions that were sent, and with the shipped limits it never releases one
  (`StrategyNeverReleases`); the Sender does.
- ARCHITECTURE.md:198 has three replacements; `OnDropped` tests the retry budget
  first and ends after two.
- B `gas_price.rs:7` calls 100 Gwei the maximum; `bump_fee` goes above it.
  `FeeCeiling` says how far.
- ARCHITECTURE.md:103 has a boost of a third between the thresholds;
  `LinearBoost` interpolates.
- docs/answers.md:24 has the queue follow deadlines; the priority is that of the
  push, as the comment on `push` says. `InversionIsBounded` bounds the effect.
- docs/solana-proposal.md:405 and :414 refresh the blockhash after half of its
  validity; `should_refresh` waits until 30 blocks are left.
- O `lib.rs:406` has `base_fee_eligibility` up to date. `insert` leaves the key of
  a replaced transaction, and the draining in `apply_block` that of an overtaken
  one. The keys count towards `global_capacity`; a stale key of `priority_queue`
  can be the one evicted, which frees no slot; and until the next block
  `gas_ahead` counts a replaced transaction twice.

## Proofs

The constants are arbitrary, within the `ASSUME` of each module. Every invariant,
action property and refinement that a passing run checks is proved.

- `SenderProofs`. `NoLeak` and `BaselineSafe` are inductive together with
  `TypeOK`, `MinedInOrder`, `ConfirmingIsMined` and `FetchedNotAhead`: a baseline
  is moved by what a task or a sync has learnt, so what they carry must not be
  ahead of the chain. `NonceUniqueness` needs `HeldNotAvailable` (a held nonce is
  reserved or below the baseline, so it is not handed out again), `RetryBudget` and
  `ReplacedAtMostRetried`. It assumes `SafeLimits`: with the Ethereum strategy,
  `MAX_RETRIES <= MAX_REPLACEMENTS + 1`. Then `RequeueUnreachable`: the decisions
  whose double release would break uniqueness are never made. The shipped 3 and 3
  satisfy it. `WakeupNotLost` needs no condition on the limits.
- `SenderDeliveryProofs`, on top of it. `PermitsSafe`: a permit is free, with
  `run()`, with a task, or with a task whose requeuing call of `add_message` has
  pushed and not yet notified. Its invariant adds `CallsArePast` (the calls under
  way of one message differ in their attempt, so as elements of a set none stands
  for two) and the finiteness of that set; each action moves a message or a call
  by one. `ExecutedAtMostOnce` adds `NeverRequeued` and `OneNoncePerMessage`, and
  assumes `EthLimits`, the Ethereum strategy with limits as above.
  `SenderImplementsDelivery` puts these together: `run()` spawns with a permit in
  hand, so by `PermitsSafe` fewer tasks than slots are active; `Mine` executes a
  message that was not executed, as all its transactions have one nonce; and a task
  that reports success has seen its message executed (`ReportIsTrue`). All other
  steps leave the mapped state alone (`TaskStutters`) or end a message
  (`TaskEnds`).
- `GasPriceProofs`. `FloorHolds` and `RatchetHolds`, with `ReadAboveFloor` and
  `FeeCoversRead`: a fee is at least the estimate it was computed from, or the cap.
  `CeilingHolds` needs the recursive function `Ceiling` to exist and to rise.
  Both are by a least counterexample (`LeastNatural`, from the well-foundedness of
  the natural numbers, and `UpTo`): `CeilingExists` builds the function up to each
  number, `CeilingRises` rests on `BumpMonotone`.
- `MessageQueueProofs`. Expiry, the frozen lower bound, the bound on inversions
  and the monotony of urgency, from lemmas on the rounded interpolation, with
  `HeapHoldsQueued` and `FrozenPriorityCoversBase`.
- `MempoolTrackerProofs`. Lemmas say what each operator does to one queue
  (`ShiftedQueue`, `FilledQueue`, `EmptiedQueue`, `AdvancedQueue`): its length,
  that it stays aligned, and which transactions are in it afterwards. Alignment is
  what makes the rest work: a slot holds the only transaction of its nonce, so the
  key that a block removes (`TakenKeys`) belongs to no transaction that stays.
  `InnerInv` joins, for every account, capacity, alignment and completeness of the
  index with `KeysNotBelowConfirmed` and the finiteness of both indexes, so that
  there is a first key to evict; `IInv` adds that after a block `priority_queue`
  is the one `Rebuild` gives. `IndexIsFresh` shows that the walk over the slots in
  `Rebuild` and `classify_transaction` agree (`MarketablePrefix`), and that the
  order of keys tells transactions apart (`PrecedesOrder`), so `gas_ahead` counts
  each once. A missed block or a reorganisation may come at any time.
- `TrackerLockProofs`. `SnapshotHolds`: whoever has a guard has seen the current
  version. A second read is admitted only while no writer is in.
- `CliToolProofs`, over the tool, the transport, the runtime and the lock together.
  `ToolUsesLock`: every step of the composition is one of `TrackerLock` or leaves
  it alone, so the theorems about the lock hold of the tool. `TelemetryIsExact`
  follows each task through its points, one at a time (`TaskCounts`): counting
  and sending move a task into or out of `sending` and `count`, and an abort finds
  a task at neither. It needs what `run_backfill` has left to be nothing before
  its request is answered (`RuntimeTyped`). `FinalCountIsExact` needs besides that the
  channel is empty and without senders when its receiver ends
  (`ReceiverOutlivesSenders`), hence that tasks are spawned once and before the
  tracker can see it closed (`SpawnedOnce`), and that only the join of both threads
  leads out of a simulated run (`ExitAfterJoin`).
  `ShownRowsExist` needs `SnapshotTyped`: the rows captured so far and the keys
  still to be looked up are together no more than the count they were announced
  with.
- `SolReplayProofs`. The feed, for any capacities and any number of headers, has
  the invariant `FeedInv`: each place of the pipeline holds the notifications that
  follow those ahead of it (`Ordered`), the second forwarder ends after the first
  (`EndInOrder`), and what is read too late is still behind the forwarder that has
  not noticed (`LateAreKept`). From it `NothingIsSkipped`, `FewAreReadLate` and
  `FeedImplementsStream`. `TokenStaysValid` is for every validity, lag and margin,
  whatever the feed does. The invariant `TokenInv`: a blockhash is known with the
  height at which it ends, an answer about to be stored is not older than the
  height its sync has read, and what is cached had more than the margin left when
  it was last found good (`MarginLeft`). `ReplayAssumption` has the margin smaller
  than the validity, as 30 is than 150.

Only model-checked: liveness (`EveryMessageSettles`, `EveryoneProgresses`,
`TrackerEnds`, `TimedRunEnds`, `EveryHeaderArrives`, `FeedEnds`), since fairness
and ENABLED are out of the prover's reach. `ImplementsDelivery` and
`ImplementsStream` are refinements of safety specifications.

## Not modelled

- `private_flow_ratio` (an f64 average), `last_block_gas_limit` and the division
  in `estimated_blocks_to_confirm`.
- Signing, establishing a connection, logging, and the two telemetry counters of
  the last block.
- The p2p transport: `connect_with_config` returns an error on every path, so its
  tasks cannot be reached.
- Of the Solana adapter, `send_transaction`, which always fails, and the fee
  manager and retry strategy, which are `todo!()`.
- Status queries that nothing calls, error types, re-exports.
- Of `cli_tool`, drawing and the packing of the next block from a snapshot; the
  two examples of `bulkmail`, a script and a placeholder.
- The node of `EthNode` has no reorganisations, and the clock does not step back.

## Open

1. Reorganisations in `EthNode` and a clock that is set back; an RPC that never
   answers; starvation in the queue.
2. `MessageQueue` and `GasPrice` composed with `Sender`.
