--------------------------- MODULE TrackerRuntime ---------------------------
(***************************************************************************)
(* What a mempool tracker runs on: the event channel between the tasks     *)
(* that feed it and the thread in MempoolTracker::run, the counters of     *)
(* RuntimeTelemetry, and the shutdown by dropping a TrackerRuntime.  The   *)
(* tasks are in RpcTransport and CliTool, the lock around the mempool in   *)
(* TrackerLock.                                                            *)
(*                                                                         *)
(* A task can be aborted only where it awaits.  Where it does not, at the  *)
(* points of Running, it goes on to its next await.                        *)
(***************************************************************************)
EXTENDS TrackerLock, Sequences, FiniteSets

Tasks == {"block", "pending", "backfill", "simulation"}

VARIABLES
  task,         \* where each task is; "none" before it is spawned
  backfill,     \* transactions that run_backfill has still to send
  events,       \* the channel
  shutdown,     \* the watch channel: "false", "true", or "closed" with its sender
  aborted,      \* abort was called on every task
  telemetry     \* RuntimeTelemetry, or Telemetry of a simulation

lockVars == <<tracker, version, at, seen>>
runtimeVars == <<task, backfill, events, shutdown, aborted, telemetry>>

\* Points at which a task does not await.
Running == {"sending", "check", "send", "count"}

Spawned == {t \in Tasks : task[t] # "none"}

\* A task drops its end of the channel when it ends.
Senders == {t \in Spawned : task[t] # "ended"}

\* RuntimeTelemetry::new, and the channels of connect_erased_provider.
RuntimeInit ==
  /\ Init
  /\ task = [t \in Tasks |-> "none"]
  /\ backfill = 0
  /\ events = <<>>
  /\ shutdown = "false"
  /\ aborted = FALSE
  /\ telemetry = [pending_seen |-> 0, block_count |-> 0, initial_backfill_txs |-> 0]

-----------------------------------------------------------------------------
(* RuntimeTelemetry *)

record_backfill_size(txs) == telemetry' = [telemetry EXCEPT !.initial_backfill_txs = txs]

record_pending_seen == telemetry' = [telemetry EXCEPT !.pending_seen = @ + 1]

record_block == telemetry' = [telemetry EXCEPT !.block_count = @ + 1]

-----------------------------------------------------------------------------
(* The watch channel *)

\* Receiver::changed returns: there is a new value, or the sender is gone.
changed == shutdown # "false"

\* Receiver::has_changed().unwrap_or(false): once the sender is gone the answer is
\* an error, whether or not the last value was seen.
has_changed == shutdown = "true"

-----------------------------------------------------------------------------
(* MempoolTracker::run and its channel *)

Goes(t, point) == task' = [task EXCEPT ![t] = point]

\* event_tx.send(event).  It fails only when the receiver is gone, which recv in
\* run keeps as long as there is a sender.
send(event) == events' = Append(events, event)

\* What is in the channel is received even when all senders are gone.
run ==
  \/ /\ events # <<>>
     /\ recv
     /\ events' = Tail(events)
     /\ UNCHANGED <<task, backfill, shutdown, aborted, telemetry>>
  \/ (write \/ apply) /\ UNCHANGED runtimeVars
  \/ Spawned # {} /\ Senders = {} /\ events = <<>> /\ disconnected /\ UNCHANGED runtimeVars

-----------------------------------------------------------------------------
(* TrackerRuntime *)

\* Drop for TrackerRuntime, first statement: the tasks are told.
drop_send ==
  /\ shutdown = "false"
  /\ shutdown' = "true"
  /\ UNCHANGED <<lockVars, task, backfill, events, aborted, telemetry>>

\* Mutant: the tasks are told, not aborted.
DropWithoutAbort ==
  /\ shutdown = "true"
  /\ shutdown' = "closed"
  /\ UNCHANGED <<lockVars, task, backfill, events, aborted, telemetry>>

\* The rest of it: they are aborted, and the fields dropped, with them the sender
\* of the watch channel.
drop_abort ==
  /\ shutdown = "true"
  /\ shutdown' = "closed"
  /\ aborted' = TRUE
  /\ UNCHANGED <<lockVars, task, backfill, events, telemetry>>

\* An aborted task ends where it awaits.
Abort(t) ==
  /\ aborted
  /\ t \in Senders
  /\ task[t] \notin Running
  /\ Goes(t, "ended")
  /\ UNCHANGED <<lockVars, backfill, events, shutdown, aborted, telemetry>>

-----------------------------------------------------------------------------
(* Properties *)

\* What the telemetry has counted of the events; backfill is counted in advance.
Counted ==
  telemetry.pending_seen + telemetry.block_count + (telemetry.initial_backfill_txs - backfill)

\* Events that were put into the channel, by where they are now.
Sent == version + Len(events) + IF tracker \in {"wait", "write"} THEN 1 ELSE 0

\* What the telemetry counts is what the tracker is given: every event sent was
\* counted once, and a count and its event are apart only while the task is
\* between the two statements.  The transport counts first, the simulation counts
\* transactions after it has sent them.  A block that cannot be fetched is not
\* counted.
CountedIsSent ==
  Counted
  = Sent + Cardinality({t \in Tasks : task[t] = "sending"})
         - Cardinality({t \in Tasks : task[t] = "count"})

\* Dropping the runtime ends the tracker thread, whatever its tasks are at; and it
\* ends by itself when both subscriptions are closed and the backfill is done.
TrackerEnds ==
  (Spawned # {} /\ (shutdown = "closed" \/ Senders = {})) ~> (tracker = "ended" \/ Wedged)
=============================================================================
