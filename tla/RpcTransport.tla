---------------------------- MODULE RpcTransport ----------------------------
(***************************************************************************)
(* transport/rpc.rs: connecting, and the three tasks that turn what a node *)
(* says into events.  Each subscription announces at most MaxNotices       *)
(* headers or transactions, the node's mempool holds at most MaxBackfill   *)
(* transactions at the start, and any request may fail or time out.        *)
(***************************************************************************)
EXTENDS TrackerRuntime

CONSTANTS
  MaxNotices,   \* bound: notifications of each subscription
  MaxBackfill   \* bound: transactions in the node's mempool at the start

ASSUME RpcAssumption == MaxNotices \in Nat /\ MaxBackfill \in Nat

VARIABLES
  connecting,   \* where connect_with_config is: a stage, "ok" or "failed"
  notices       \* notifications each subscription has delivered

rpcVars == <<connecting, notices>>

Stages == <<"websocket connect", "block subscription setup",
            "pending transaction subscription setup">>

RpcInit ==
  /\ connecting = "no"
  /\ notices = [t \in {"block", "pending"} |-> 0]

\* connect_with_config, connect_with_builder: the first request is made.
connect_with_config ==
  /\ connecting = "no"
  /\ connecting' = Stages[1]
  /\ UNCHANGED <<lockVars, runtimeVars, notices>>

\* A stage of connect_with_builder or connect_erased_provider answers; after the
\* last one the tasks and the tracker thread are spawned.
connect_erased_provider ==
  \E i \in DOMAIN Stages :
    /\ connecting = Stages[i]
    /\ IF i < Len(Stages)
       THEN connecting' = Stages[i + 1] /\ UNCHANGED task
       ELSE /\ connecting' = "ok"
            /\ task' = [task EXCEPT !["block"] = "select", !["pending"] = "select",
                                    !["backfill"] = "contents"]
    /\ UNCHANGED <<lockVars, backfill, events, shutdown, aborted, telemetry, notices>>

\* A stage fails or times out.
connect_fails ==
  /\ \E i \in DOMAIN Stages : connecting = Stages[i]
  /\ connecting' = "failed"
  /\ UNCHANGED <<lockVars, runtimeVars, notices>>

-----------------------------------------------------------------------------
(* run_backfill *)

\* backfill_mempool: txpool_contents, and txpool_content if that fails.
backfill_mempool ==
  /\ \/ task["backfill"] = "contents" /\ Goes("backfill", "content")
     \/ task["backfill"] = "content" /\ Goes("backfill", "ended")
  /\ UNCHANGED <<lockVars, rpcVars, backfill, events, shutdown, aborted, telemetry>>

\* One of the two requests answers.
backfill_answer ==
  /\ task["backfill"] \in {"contents", "content"}
  /\ \E txs \in 0 .. MaxBackfill :
       /\ record_backfill_size(txs)
       /\ backfill' = txs
       /\ Goes("backfill", IF txs = 0 THEN "ended" ELSE "check")
  /\ UNCHANGED <<lockVars, rpcVars, events, shutdown, aborted>>

\* The select! of run_backfill sees the shutdown first.
backfill_changed ==
  /\ task["backfill"] \in {"contents", "content"}
  /\ changed
  /\ Goes("backfill", "ended")
  /\ UNCHANGED <<lockVars, rpcVars, backfill, events, shutdown, aborted, telemetry>>

\* The loop over the transactions: the test, then the send.
backfill_check ==
  /\ task["backfill"] = "check"
  /\ Goes("backfill", IF has_changed THEN "ended" ELSE "send")
  /\ UNCHANGED <<lockVars, rpcVars, backfill, events, shutdown, aborted, telemetry>>

backfill_send ==
  /\ task["backfill"] = "send"
  /\ send("PendingTransaction")
  /\ backfill' = backfill - 1
  /\ Goes("backfill", IF backfill = 1 THEN "ended" ELSE "check")
  /\ UNCHANGED <<lockVars, rpcVars, shutdown, aborted, telemetry>>

run_backfill ==
  backfill_mempool \/ backfill_answer \/ backfill_changed \/ backfill_check \/ backfill_send

-----------------------------------------------------------------------------
(* run_block_subscription and run_pending_subscription *)

Event(t) == IF t = "block" THEN "NewBlock" ELSE "PendingTransaction"

\* The stream of a subscription is closed.
subscription_closed(t) ==
  /\ task[t] = "select"
  /\ Goes(t, "ended")
  /\ UNCHANGED <<lockVars, rpcVars, backfill, events, shutdown, aborted, telemetry>>

\* select! takes the shutdown arm; it is not biased, and may first take a
\* notification that is ready, too.
subscription_changed(t) ==
  /\ changed
  /\ subscription_closed(t)

\* Mutant: a block is counted when its header arrives.
BlockHeaderCounted ==
  /\ task["block"] = "select"
  /\ notices["block"] < MaxNotices
  /\ notices' = [notices EXCEPT !["block"] = @ + 1]
  /\ record_block
  /\ Goes("block", "fetching")
  /\ UNCHANGED <<lockVars, connecting, backfill, events, shutdown, aborted>>

\* A header: get_block_by_hash is awaited in the arm, where only abort ends it.
block_header ==
  /\ task["block"] = "select"
  /\ notices["block"] < MaxNotices
  /\ notices' = [notices EXCEPT !["block"] = @ + 1]
  /\ Goes("block", "fetching")
  /\ UNCHANGED <<lockVars, connecting, backfill, events, shutdown, aborted, telemetry>>

\* The block cannot be fetched: it is skipped.
block_missed ==
  /\ task["block"] = "fetching"
  /\ Goes("block", "select")
  /\ UNCHANGED <<lockVars, rpcVars, backfill, events, shutdown, aborted, telemetry>>

block_fetched ==
  /\ task["block"] = "fetching"
  /\ record_block
  /\ Goes("block", "sending")
  /\ UNCHANGED <<lockVars, rpcVars, backfill, events, shutdown, aborted>>

pending_transaction ==
  /\ task["pending"] = "select"
  /\ notices["pending"] < MaxNotices
  /\ notices' = [notices EXCEPT !["pending"] = @ + 1]
  /\ record_pending_seen
  /\ Goes("pending", "sending")
  /\ UNCHANGED <<lockVars, connecting, backfill, events, shutdown, aborted>>

\* The event of either subscription goes into the channel.
subscription_send(t) ==
  /\ task[t] = "sending"
  /\ send(Event(t))
  /\ Goes(t, "select")
  /\ UNCHANGED <<lockVars, rpcVars, backfill, shutdown, aborted, telemetry>>

run_block_subscription ==
  \/ subscription_changed("block") \/ block_header \/ block_missed \/ block_fetched
  \/ subscription_send("block")

run_pending_subscription ==
  subscription_changed("pending") \/ pending_transaction \/ subscription_send("pending")

RpcStep ==
  \/ connect_erased_provider \/ connect_fails
  \/ run_backfill \/ run_block_subscription \/ run_pending_subscription
  \/ \E t \in {"block", "pending"} : subscription_closed(t)
=============================================================================
