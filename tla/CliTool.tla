------------------------------ MODULE CliTool ------------------------------
(***************************************************************************)
(* examples/cli_tool.rs: main, the source of events it sets up, the        *)
(* simulated chain, and the loop that captures a snapshot of the mempool   *)
(* and shows it.  main is the one thread with a MempoolHandle.             *)
(*                                                                         *)
(* Of a snapshot only the number of its rows and of the keys in the        *)
(* priority queue matter: what they are is in MempoolTracker.  Fees,       *)
(* colours and layout are left out; the height of the list is free.        *)
(***************************************************************************)
EXTENDS RpcTransport, FiniteSetsExt

CONSTANTS
  MaxKeys,      \* bound: keys in priority_queue
  MaxRows,      \* 256 in the code: rows of a snapshot
  Heights,      \* heights the pane of transactions may have
  TxsPerRound,  \* ten in the code: transactions between two simulated blocks
  MaxNonce      \* bound: transactions of the simulation

ASSUME CliAssumption ==
  /\ MaxKeys \in Nat /\ MaxRows \in Nat /\ MaxNonce \in Nat /\ TxsPerRound \in Nat \ {0}
  /\ Heights \subseteq Nat /\ Heights # {}
  /\ Threads = {"main"} /\ Estimating = Threads

VARIABLES
  args,         \* the options that choose a source, and the kind of run
  main,         \* where main is
  stop,         \* the flag shared with the simulation
  nonce,        \* the next nonce of the simulation
  asking,       \* the query of Snapshot::capture that is next, or "done"
  keys,         \* keys of the captured priority queue still to look up
  snapshot,     \* rows and marketable_count of the snapshot captured or shown
  tx_scroll     \* App: the first row shown

uiVars == <<asking, keys, snapshot, tx_scroll>>
cliVars == <<args, main, stop, nonce, uiVars>>
outerVars == <<runtimeVars, rpcVars, args, stop, nonce>>
allVars == <<lockVars, runtimeVars, rpcVars, cliVars>>

\* parse_args: any of the options that choose a source, with or without a limit
\* on the duration, on a terminal or not.
Args == [source : SUBSET {"simulate", "p2p", "ws_url"}, duration : BOOLEAN, terminal : BOOLEAN]

\* The match at the end of parse_args.
source ==
  CASE args.source = {"simulate"} -> "Simulated"
    [] args.source = {"p2p"} -> "P2p"
    [] args.source = {"ws_url"} -> "Live"
    [] OTHER -> "usage"

EmptySnapshot == [rows |-> 0, marketable_count |-> 0]

CliInit ==
  /\ RuntimeInit
  /\ RpcInit
  /\ args \in Args
  /\ main = "start"
  /\ stop = FALSE
  /\ nonce = 0
  /\ asking = "done"
  /\ keys = 0
  /\ snapshot = EmptySnapshot
  /\ tx_scroll = 0

-----------------------------------------------------------------------------
(* simulate_blockchain *)

simulation_send ==
  /\ task["simulation"] = "tx"
  /\ ~stop
  /\ nonce < MaxNonce
  /\ send("PendingTransaction")
  /\ Goes("simulation", "count")
  /\ UNCHANGED <<lockVars, rpcVars, cliVars, backfill, shutdown, aborted, telemetry>>

simulation_count ==
  /\ task["simulation"] = "count"
  /\ record_pending_seen
  /\ nonce' = nonce + 1
  /\ Goes("simulation", IF nonce' % TxsPerRound = 0 THEN "wait" ELSE "tx")
  /\ UNCHANGED <<lockVars, rpcVars, args, main, stop, uiVars, backfill, events, shutdown, aborted>>

\* should_stop_for returns false after five seconds, and the block is counted.
simulation_waited ==
  /\ task["simulation"] = "wait"
  /\ ~stop
  /\ record_block
  /\ Goes("simulation", "sending")
  /\ UNCHANGED <<lockVars, rpcVars, cliVars, backfill, events, shutdown, aborted>>

simulation_block ==
  /\ task["simulation"] = "sending"
  /\ send("NewBlock")
  /\ Goes("simulation", "tx")
  /\ UNCHANGED <<lockVars, rpcVars, cliVars, backfill, shutdown, aborted, telemetry>>

\* The flag is seen before a transaction or in should_stop_for.
simulation_stops ==
  /\ task["simulation"] \in {"tx", "wait"}
  /\ stop
  /\ Goes("simulation", "ended")
  /\ UNCHANGED <<lockVars, rpcVars, cliVars, backfill, events, shutdown, aborted, telemetry>>

simulate_blockchain ==
  \/ simulation_send \/ simulation_count \/ simulation_waited \/ simulation_block
  \/ simulation_stops

-----------------------------------------------------------------------------
(* main, up to the loop *)

\* print_usage_and_exit; or --p2p, whose connect_with_config is an error for
\* every chain, block transport and set of features.
main_fails ==
  /\ main = "start"
  /\ source \in {"usage", "P2p"}
  /\ main' = "exited"
  /\ UNCHANGED <<lockVars, outerVars, uiVars>>

main_simulated ==
  /\ main = "start"
  /\ source = "Simulated"
  /\ main' = "loop"
  /\ Goes("simulation", "tx")
  /\ UNCHANGED <<lockVars, rpcVars, args, stop, nonce, uiVars, backfill, events, shutdown,
                 aborted, telemetry>>

\* MempoolTracker::connect is called and awaited.
main_connects ==
  /\ main = "start"
  /\ source = "Live"
  /\ connect_with_config
  /\ main' = "connect"
  /\ UNCHANGED <<args, stop, nonce, uiVars>>

main_connected ==
  /\ main = "connect"
  /\ \/ connecting = "ok" /\ main' = "loop"
     \/ connecting = "failed" /\ main' = "exited"
  /\ UNCHANGED <<lockVars, outerVars, uiVars>>

-----------------------------------------------------------------------------
(* Snapshot::capture: each query takes the lock by itself *)

\* The queries before the rows, in their order; the second reading of
\* private_flow_ratio is for the usable capacity.
FirstQueries ==
  <<"current_base_fee", "private_flow_ratio", "last_block_gas_limit", "usable_capacity",
    "priority_queue">>

capture ==
  /\ main = "loop"
  /\ main' = "capture"
  /\ asking' = FirstQueries[1]
  /\ snapshot' = EmptySnapshot
  /\ UNCHANGED <<lockVars, outerVars, keys, tx_scroll>>

ask ==
  /\ main = "capture"
  /\ asking # "done"
  /\ IF asking = "estimated_blocks_to_confirm"
     THEN estimated_blocks_to_confirm("main") ELSE query("main")
  /\ UNCHANGED <<outerVars, main, uiVars>>

\* The query takes its guards, as in TrackerLock.
guards ==
  /\ read("main") \/ call_gas_ahead("main") \/ read_again("main")
  /\ UNCHANGED <<outerVars, main, uiVars>>

answer_first ==
  /\ return("main")
  /\ \E i \in 1 .. 4 : asking = FirstQueries[i] /\ asking' = FirstQueries[i + 1]
  /\ UNCHANGED <<outerVars, main, keys, snapshot, tx_scroll>>

answer_priority_queue ==
  /\ return("main")
  /\ asking = "priority_queue"
  /\ keys' \in 0 .. MaxKeys
  /\ snapshot' = [snapshot EXCEPT !.marketable_count = keys']
  /\ asking' = IF keys' = 0 THEN "done" ELSE "find_tx_by_addr_and_nonce"
  /\ UNCHANGED <<outerVars, main, tx_scroll>>

\* The loop goes on to the next key.
NextKey ==
  /\ keys' = keys - 1
  /\ asking' = IF keys = 1 THEN "done" ELSE "find_tx_by_addr_and_nonce"

\* The key leads to a transaction, or no longer does.
answer_find ==
  /\ return("main")
  /\ asking = "find_tx_by_addr_and_nonce"
  /\ \/ /\ snapshot.rows < MaxRows
        /\ asking' = "estimated_blocks_to_confirm"
        /\ UNCHANGED keys
     \/ NextKey
  /\ UNCHANGED <<outerVars, main, snapshot, tx_scroll>>

answer_estimate ==
  /\ return("main")
  /\ asking = "estimated_blocks_to_confirm"
  /\ snapshot' = [snapshot EXCEPT !.rows = @ + 1]
  /\ NextKey
  /\ UNCHANGED <<outerVars, main, tx_scroll>>

-----------------------------------------------------------------------------
(* App, run_app and run_plaintext *)

max_scroll(visible_rows) == Max({0, snapshot.rows - Max({1, visible_rows})})

\* Mutant: the position is kept when the list has become shorter.
ClampNothing(scroll, visible_rows) == scroll

clamp_scroll(scroll, visible_rows) == Min({scroll, max_scroll(visible_rows)})

\* transaction_pane_rows and, for a list that is not empty, transaction_rows: the
\* height of the pane less its borders.
PaneRows(height) == Max({1, height - 2})

transaction_rows(height) == IF snapshot.rows = 0 THEN 1 ELSE PaneRows(height)

\* The position is corrected when a snapshot is added, for one row, and again when
\* the list is drawn.
push_snapshot(scroll) == clamp_scroll(scroll, 0)

render_top_transactions(scroll, height) == clamp_scroll(scroll, transaction_rows(height))

\* The snapshot is added and drawn.  An error of the terminal ends run_app.
show ==
  /\ main = "capture"
  /\ asking = "done"
  /\ args.terminal
  /\ \E height \in Heights :
       tx_scroll' = render_top_transactions(push_snapshot(tx_scroll), height)
  /\ main' \in {"poll", "stopping"}
  /\ UNCHANGED <<lockVars, outerVars, asking, keys, snapshot>>

\* run_plaintext prints the snapshot and sleeps.
print ==
  /\ main = "capture"
  /\ asking = "done"
  /\ ~args.terminal
  /\ main' = "loop"
  /\ UNCHANGED <<lockVars, outerVars, uiVars>>

scroll_up(amount) == Max({0, tx_scroll - amount})

scroll_down(amount, visible_rows) == Min({tx_scroll + amount, max_scroll(visible_rows)})

\* event::poll: nothing within 100 ms, a key that quits or an error, or one that
\* scrolls.  The terminal may have changed its size since draw.
poll ==
  /\ main = "poll"
  /\ \/ main' = "loop" /\ UNCHANGED tx_scroll
     \/ main' = "stopping" /\ UNCHANGED tx_scroll
     \/ /\ main' = "loop"
        /\ \E list_rows \in {PaneRows(height) : height \in Heights} :
             \E amount \in {1, list_rows} :
               tx_scroll' \in {scroll_up(amount), scroll_down(amount, list_rows)}
  /\ UNCHANGED <<lockVars, outerVars, asking, keys, snapshot>>

\* There is a deadline: the duration is not 0.
deadline == args.duration

\* The loop finds that the deadline has passed.
deadline_passes ==
  /\ main = "loop"
  /\ deadline
  /\ main' = "stopping"
  /\ UNCHANGED <<lockVars, outerVars, uiVars>>

-----------------------------------------------------------------------------
(* The end of main *)

\* App is gone with run_app.
DropApp == snapshot' = EmptySnapshot /\ tx_scroll' = 0 /\ UNCHANGED <<asking, keys>>

\* Mutant: the runtime is shut down without the flag.
StopUnset ==
  /\ main = "stopping"
  /\ main' = "shutdown"
  /\ DropApp
  /\ UNCHANGED <<lockVars, runtimeVars, rpcVars, args, nonce, stop>>

set_stop ==
  /\ main = "stopping"
  /\ stop' = TRUE
  /\ main' = "shutdown"
  /\ DropApp
  /\ UNCHANGED <<lockVars, runtimeVars, rpcVars, args, nonce>>

\* Runtime::shutdown of a live source drops the TrackerRuntime and waits for nobody.
shutdown_live ==
  /\ main = "shutdown"
  /\ source = "Live"
  /\ \/ drop_send /\ UNCHANGED main
     \/ drop_abort /\ main' = "exited"
  /\ UNCHANGED <<rpcVars, args, stop, nonce, uiVars>>

\* Mutant: only the simulation is joined.
JoinSimulationOnly ==
  /\ main = "shutdown"
  /\ source = "Simulated"
  /\ task["simulation"] = "ended"
  /\ main' = "exited"
  /\ UNCHANGED <<lockVars, outerVars, uiVars>>

\* Of a simulated one it joins both threads.
shutdown_simulated ==
  /\ main = "shutdown"
  /\ source = "Simulated"
  /\ task["simulation"] = "ended"
  /\ tracker = "ended"
  /\ main' = "exited"
  /\ UNCHANGED <<lockVars, outerVars, uiVars>>

MainStep ==
  \/ main_fails \/ main_simulated \/ main_connects \/ main_connected
  \/ capture \/ ask \/ guards
  \/ answer_first \/ answer_priority_queue \/ answer_find \/ answer_estimate
  \/ show \/ print \/ poll \/ set_stop \/ shutdown_live \/ shutdown_simulated

Aborts(t) == Abort(t) /\ UNCHANGED rpcVars

\* Steps of the tracker thread and of the tasks of the transport.
BackgroundStep ==
  \/ run /\ UNCHANGED rpcVars
  \/ \E t \in Tasks : Aborts(t)
  \/ RpcStep

CliNext ==
  \/ MainStep
  \/ deadline_passes
  \/ simulate_blockchain
  \/ BackgroundStep /\ UNCHANGED cliVars

CliSpec == CliInit /\ [][CliNext]_allVars

\* Threads and tasks that can go on do, and requests with a timeout end.  The node
\* need not send anything, close a stream, or answer get_block_by_hash, which has
\* no timeout; nobody has to press a key.  A deadline stays passed, so that the
\* loop finds it when it comes round (strong fairness).
CliFairSpec ==
  /\ CliSpec
  /\ WF_allVars(MainStep \/ ((connect_erased_provider \/ connect_fails) /\ UNCHANGED cliVars))
  /\ SF_allVars(deadline_passes)
  /\ WF_allVars(simulate_blockchain)
  /\ WF_allVars(run /\ UNCHANGED <<rpcVars, cliVars>>)
  /\ WF_allVars((run_backfill \/ Aborts("backfill")) /\ UNCHANGED cliVars)
  /\ \A t \in {"block", "pending"} :
       WF_allVars((subscription_changed(t) \/ subscription_send(t) \/ Aborts(t))
                    /\ UNCHANGED cliVars)

-----------------------------------------------------------------------------
(* Properties *)

\* The rows that render_top_transactions announces, tx_scroll + 1 up to the last
\* one that fits, are rows of the snapshot shown, however the list has shrunk and
\* the terminal changed since the position was set, and there are no more of
\* them than marketable_count.
ScrollInRange ==
  main = "poll" =>
    /\ snapshot.rows <= snapshot.marketable_count
    /\ snapshot.rows = 0 => tx_scroll = 0
    /\ snapshot.rows > 0 => tx_scroll < snapshot.rows

\* The counters end with what the mempool has been given: when the thread in run has
\* ended, after tasks that were aborted or told to stop at any point, and when main
\* returns from a simulated run, every event that was counted has been applied, and
\* no other.  Of the backfill, what was never sent is excepted.
FinalCountIsApplied ==
  tracker = "ended" \/ (main = "exited" /\ source = "Simulated") => version = Counted

\* A run that has a deadline ends, also when it is at a query, unless the lock is
\* wedged for good.  Once main has left its loop it returns: both threads of a simulation
\* see the flag or the closed channel and can be joined.
TimedRunEnds ==
  /\ (deadline /\ main = "loop") ~> (main = "exited" \/ Wedged)
  /\ (main = "stopping") ~> (main = "exited")
=============================================================================
