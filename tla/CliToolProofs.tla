--------------------------- MODULE CliToolProofs ---------------------------
(***************************************************************************)
(* Proofs about the command line tool with its runtime: the tracker, the   *)
(* tasks of a transport or of the simulation, and main.  They hold for any *)
(* number of events, notifications, keys and rows.                         *)
(***************************************************************************)
EXTENDS CliTool, TrackerLockProofs, FiniteSetTheorems, SequenceTheorems

Points == {"none", "select", "fetching", "sending", "contents", "content", "check", "send",
           "tx", "count", "wait", "ended"}

Events == {"NewBlock", "PendingTransaction"}

\* The tasks at a point.
At(point) == {t \in Tasks : task[t] = point}

\* The types of the runtime, and run_backfill: it has nothing to send before a
\* request has answered, and something as long as it is in its loop.
RuntimeTyped ==
  /\ task \in [Tasks -> Points]
  /\ backfill \in Nat
  /\ events \in Seq(Events)
  /\ telemetry \in [pending_seen : Nat, block_count : Nat, initial_backfill_txs : Nat]
  /\ task["backfill"] \in {"none", "contents", "content"} =>
       backfill = 0 /\ telemetry.initial_backfill_txs = 0
  /\ task["backfill"] \in {"check", "send"} => backfill > 0

\* Tasks are spawned once, by main or when the last stage of the connection answers.
SpawnedOnce ==
  /\ main = "start" => connecting = "no" /\ Spawned = {}
  /\ (\E i \in DOMAIN Stages : connecting = Stages[i]) => Spawned = {}
  /\ tracker = "ended" => Spawned # {}

\* recv in run fails only when all senders are gone and the channel is empty.
ReceiverOutlivesSenders == tracker = "ended" => Senders = {} /\ events = <<>>

\* Only a live run connects, and a simulated one is left when the tracker thread
\* has been joined.
ExitAfterJoin ==
  /\ main = "connect" => source = "Live"
  /\ main = "exited" /\ source = "Simulated" => tracker = "ended"

\* A snapshot has a row for some of the keys it was taken with; the keys that are
\* still to be looked up are among the others.
SnapshotTyped ==
  /\ snapshot \in [rows : Nat, marketable_count : Nat]
  /\ keys \in Nat
  /\ tx_scroll \in Nat
  /\ snapshot.rows + keys <= snapshot.marketable_count
  /\ main # "capture" => asking = "done"
  /\ asking \in {"find_tx_by_addr_and_nonce", "estimated_blocks_to_confirm"} => keys > 0
  /\ asking \notin {"find_tx_by_addr_and_nonce", "estimated_blocks_to_confirm"} => keys = 0
  /\ asking \notin {"find_tx_by_addr_and_nonce", "estimated_blocks_to_confirm", "done"} =>
       snapshot.rows = 0

\* The inductive invariant: of the lock, of the runtime and of main.
CliInv ==
  /\ IInv
  /\ RuntimeTyped /\ SpawnedOnce /\ CountedIsSent /\ ReceiverOutlivesSenders
  /\ SnapshotTyped /\ ScrollInRange

-----------------------------------------------------------------------------
(* The lock *)

\* main is a thread with a handle: every step of the tool is a step of the lock, or
\* leaves it alone.
LEMMA LockStep == [CliNext]_allVars => [Next]_vars
<1> SUFFICES ASSUME [CliNext]_allVars PROVE [Next]_vars
  OBVIOUS
<1>1. "main" \in Threads /\ "main" \in Estimating
  BY CliAssumption
<1>2. ASSUME UNCHANGED lockVars PROVE [Next]_vars
  BY <1>2 DEF lockVars, vars
<1>3. CASE MainStep
  <2>1. CASE main_connects
    BY <1>2, <2>1 DEF main_connects, connect_with_config
  <2>2. CASE ask
    BY <1>1, <2>2 DEF ask, Next
  <2>3. CASE guards
    BY <1>1, <2>3 DEF guards, Next, QueryStep
  <2>4. CASE answer_first \/ answer_priority_queue \/ answer_find \/ answer_estimate
    BY <1>1, <2>4
    DEF answer_first, answer_priority_queue, answer_find, answer_estimate, Next, QueryStep
  <2>5. CASE shutdown_live
    BY <1>2, <2>5 DEF shutdown_live, drop_send, drop_abort
  <2>6. CASE main_fails \/ main_simulated \/ main_connected \/ capture \/ show \/ print
             \/ poll \/ set_stop \/ shutdown_simulated
    BY <1>2, <2>6
    DEF main_fails, main_simulated, main_connected, capture, show, print, poll, set_stop,
        shutdown_simulated
  <2> QED
    BY <1>3, <2>1, <2>2, <2>3, <2>4, <2>5, <2>6 DEF MainStep
<1>4. CASE deadline_passes
  BY <1>2, <1>4 DEF deadline_passes
<1>5. CASE simulate_blockchain
  BY <1>2, <1>5
  DEF simulate_blockchain, simulation_send, simulation_count, simulation_waited,
      simulation_block, simulation_stops
<1>6. CASE BackgroundStep
  <2>1. CASE run
    BY <1>2, <2>1 DEF run, Next, TrackerStep
  <2>2. CASE \E t \in Tasks : Aborts(t)
    BY <1>2, <2>2 DEF Aborts, Abort
  <2>3. CASE RpcStep
    BY <1>2, <2>3
    DEF RpcStep, connect_erased_provider, connect_fails, run_backfill, backfill_mempool,
        backfill_answer, backfill_changed, backfill_check, backfill_send,
        run_block_subscription, run_pending_subscription, subscription_changed,
        subscription_closed, block_header, block_missed, block_fetched,
        pending_transaction, subscription_send
  <2> QED
    BY <1>6, <2>1, <2>2, <2>3 DEF BackgroundStep
<1>7. CASE UNCHANGED allVars
  BY <1>2, <1>7 DEF allVars
<1> QED
  BY <1>3, <1>4, <1>5, <1>6, <1>7 DEF CliNext

\* The tool is one of the systems that TrackerLock describes: what is proved of the
\* lock, SameSnapshot among it, holds of the snapshots of the tool.
THEOREM ToolUsesLock == CliSpec => Spec
<1>1. CliInit => Init
  BY DEF CliInit, RuntimeInit
<1> QED
  BY <1>1, LockStep, PTL DEF CliSpec, Spec

-----------------------------------------------------------------------------
(* Counting *)

Is(p, q) == IF p = q THEN 1 ELSE 0

\* The numbers that CountedIsSent relates.
LEMMA Numbers ==
  ASSUME IInv, RuntimeTyped
  PROVE  /\ Counted \in Int /\ Sent \in Nat /\ version \in Nat /\ Len(events) \in Nat
         /\ \A p \in Points : Cardinality(At(p)) \in Nat
<1>1. version \in Nat
  BY TrackerLockAssumption DEF IInv, TypeOK
<1>2. Len(events) \in Nat
  BY LenProperties DEF RuntimeTyped
<1>3. Sent \in Nat
  <2> DEFINE l == Len(events)
  <2>1. l \in Nat
    BY <1>2
  <2> HIDE DEF l
  <2>2. version + l + (IF tracker \in {"wait", "write"} THEN 1 ELSE 0) \in Nat
    BY <1>1, <2>1
  <2> QED
    BY <2>2 DEF Sent, l
<1>4. Counted \in Int
  BY DEF RuntimeTyped, Counted
<1>5. IsFiniteSet(Tasks)
  <2>1. Tasks = ((({} \cup {"block"}) \cup {"pending"}) \cup {"backfill"}) \cup {"simulation"}
    BY DEF Tasks
  <2> QED
    BY <2>1, FS_EmptySet, FS_AddElement
<1>6. ASSUME NEW p \in Points PROVE Cardinality(At(p)) \in Nat
  <2>1. At(p) \subseteq Tasks
    BY DEF At
  <2> QED
    BY <1>5, <2>1, FS_Subset, FS_CardinalityType
<1> QED
  BY <1>1, <1>2, <1>3, <1>4, <1>6

\* A task goes from one point to another.
LEMMA PointCounts ==
  ASSUME IInv, RuntimeTyped, NEW x \in Tasks, NEW q \in Points, Goes(x, q), NEW p \in Points
  PROVE  Cardinality(At(p))' = Cardinality(At(p)) + Is(q, p) - Is(task[x], p)
<1>1. Cardinality(At(p)) \in Nat
  BY Numbers
<1>2. IsFiniteSet(At(p))
  <2>1. Tasks = ((({} \cup {"block"}) \cup {"pending"}) \cup {"backfill"}) \cup {"simulation"}
    BY DEF Tasks
  <2>2. IsFiniteSet(Tasks)
    BY <2>1, FS_EmptySet, FS_AddElement
  <2> QED
    BY <2>2, FS_Subset DEF At
<1>3. \A t \in Tasks : task'[t] = IF t = x THEN q ELSE task[t]
  BY DEF Goes, RuntimeTyped
<1>4. CASE q = p /\ task[x] # p
  <2>1. At(p)' = At(p) \cup {x} /\ x \notin At(p)
    BY <1>3, <1>4 DEF At
  <2>2. Cardinality(At(p) \cup {x}) = Cardinality(At(p)) + 1
    BY <1>2, <2>1, FS_AddElement
  <2> QED
    BY <1>1, <1>4, <2>1, <2>2 DEF Is
<1>5. CASE q # p /\ task[x] = p
  <2>1. At(p)' = At(p) \ {x} /\ x \in At(p)
    BY <1>3, <1>5 DEF At
  <2>2. Cardinality(At(p) \ {x}) = Cardinality(At(p)) - 1
    BY <1>2, <2>1, FS_RemoveElement
  <2> QED
    BY <1>1, <1>5, <2>1, <2>2 DEF Is
<1>6. CASE (q = p) <=> (task[x] = p)
  <2>1. At(p)' = At(p)
    BY <1>3, <1>6 DEF At
  <2> QED
    BY <1>1, <1>6, <2>1 DEF Is
<1> QED
  BY <1>4, <1>5, <1>6

\* A step of a task that changes what is counted by c and what is sent by s keeps
\* CountedIsSent when the points it leaves and reaches make up for the difference.
LEMMA Balance ==
  ASSUME IInv, RuntimeTyped, CountedIsSent,
         NEW x \in Tasks, NEW q \in Points, Goes(x, q),
         NEW c \in Int, Counted' = Counted + c, NEW s \in Int, Sent' = Sent + s,
         c - s = (Is(q, "sending") - Is(task[x], "sending")) - (Is(q, "count") - Is(task[x], "count"))
  PROVE  CountedIsSent'
<1> DEFINE S == Cardinality(At("sending"))
           C == Cardinality(At("count"))
<1>1. /\ S \in Nat /\ C \in Nat /\ Counted \in Int /\ Sent \in Nat
  BY Numbers DEF Points
<1>2. /\ S' = S + Is(q, "sending") - Is(task[x], "sending")
      /\ C' = C + Is(q, "count") - Is(task[x], "count")
  BY PointCounts DEF Points
<1>3. Counted = Sent + S - C
  BY DEF CountedIsSent, Counted, At
<1> HIDE DEF S, C
<1>4. /\ Is(q, "sending") \in Int /\ Is(q, "count") \in Int
      /\ Is(task[x], "sending") \in Int /\ Is(task[x], "count") \in Int
  BY DEF Is
<1> DEFINE N == Counted  M == Sent
           a == Is(q, "sending")  b == Is(q, "count")
           d == Is(task[x], "sending")  e == Is(task[x], "count")
<1>5. /\ N \in Int /\ M \in Int /\ a \in Int /\ b \in Int /\ d \in Int /\ e \in Int
      /\ N = M + S - C /\ S' = S + a - d /\ C' = C + b - e
      /\ N' = N + c /\ M' = M + s /\ c - s = (a - d) - (b - e)
  BY <1>1, <1>2, <1>3, <1>4
<1> HIDE DEF N, M, a, b, d, e
<1>6. N' = M' + S' - C'
  BY <1>1, <1>5
<1> QED
  BY <1>6 DEF N, M, S, C, CountedIsSent, Counted, At

\* send puts one event into the channel.
LEMMA SendCounts ==
  ASSUME IInv, RuntimeTyped, NEW e \in Events, send(e), UNCHANGED lockVars
  PROVE  events' \in Seq(Events) /\ Sent' = Sent + 1
<1>1. version \in Nat /\ Len(events) \in Nat /\ events \in Seq(Events)
  BY Numbers DEF RuntimeTyped
<1>2. events' \in Seq(Events) /\ Len(events') = Len(events) + 1
  BY <1>1, AppendProperties DEF send
<1>3. version' = version /\ tracker' = tracker
  BY DEF lockVars
<1> DEFINE l == Len(events)
<1>4. l \in Nat /\ l' = l + 1
  BY <1>1, <1>2
<1> HIDE DEF l
<1>5. version' + l' + (IF tracker' \in {"wait", "write"} THEN 1 ELSE 0)
        = (version + l + IF tracker \in {"wait", "write"} THEN 1 ELSE 0) + 1
  BY <1>1, <1>3, <1>4
<1> QED
  BY <1>2, <1>5 DEF Sent, l

-----------------------------------------------------------------------------
(* The tasks *)

\* What a step of a task leaves alone.
Elsewhere == UNCHANGED <<lockVars, connecting, main, uiVars>>

\* A task that is alive goes on, or ends.
LEMMA TaskMoves ==
  ASSUME CliInv, IInv', Elsewhere,
         NEW x \in Tasks, NEW q \in Points \ {"none"}, Goes(x, q),
         task[x] \notin {"none", "ended"},
         backfill' \in Nat, events' \in Seq(Events),
         telemetry' \in [pending_seen : Nat, block_count : Nat, initial_backfill_txs : Nat],
         task'["backfill"] \in {"none", "contents", "content"} =>
           backfill' = 0 /\ telemetry'.initial_backfill_txs = 0,
         task'["backfill"] \in {"check", "send"} => backfill' > 0,
         NEW c \in Int, Counted' = Counted + c, NEW s \in Int, Sent' = Sent + s,
         c - s = (Is(q, "sending") - Is(task[x], "sending")) - (Is(q, "count") - Is(task[x], "count"))
  PROVE  CliInv'
<1>1. task \in [Tasks -> Points] /\ x \in Senders
  BY DEF CliInv, RuntimeTyped, Senders, Spawned
<1>2. tracker # "ended" /\ tracker' = tracker /\ connecting' = connecting /\ main' = main
  BY <1>1 DEF CliInv, ReceiverOutlivesSenders, Elsewhere, lockVars
<1>3. RuntimeTyped'
  BY <1>1 DEF RuntimeTyped, Goes
<1>4. Spawned' = Spawned
  BY <1>1 DEF Spawned, Senders, Goes
<1>5. CountedIsSent'
  BY Balance DEF CliInv
<1>6. SpawnedOnce' /\ ReceiverOutlivesSenders'
  BY <1>2, <1>4 DEF CliInv, SpawnedOnce, ReceiverOutlivesSenders
<1>7. SnapshotTyped' /\ ScrollInRange'
  BY <1>2 DEF CliInv, SnapshotTyped, ScrollInRange, Elsewhere, uiVars
<1> QED
  BY <1>3, <1>5, <1>6, <1>7 DEF CliInv

\* The same when nothing is counted and nothing sent, and the points are others
\* than those between a count and its event.
LEMMA TaskMovesOn ==
  ASSUME CliInv, IInv', Elsewhere, UNCHANGED <<backfill, events, telemetry>>,
         NEW x \in Tasks, NEW q \in Points \ {"none", "sending", "count"}, Goes(x, q),
         task[x] \notin {"none", "ended", "sending", "count"},
         x = "backfill" => \/ q = "ended"
                           \/ q = "content" /\ task[x] = "contents"
                           \/ q = "send" /\ task[x] = "check"
  PROVE  CliInv'
<1>1. RuntimeTyped /\ Counted \in Int /\ Sent \in Nat
  BY Numbers DEF CliInv
<1>2. Counted' = Counted
  BY DEF Counted
<1>3. Sent' = Sent
  BY DEF Sent, Elsewhere, lockVars
<1>4. Counted' = Counted + 0 /\ Sent' = Sent + 0
  BY <1>1, <1>2, <1>3
<1>5. 0 - 0 = (Is(q, "sending") - Is(task[x], "sending")) - (Is(q, "count") - Is(task[x], "count"))
  BY DEF Is
<1>6. /\ backfill' \in Nat /\ events' \in Seq(Events)
      /\ telemetry' \in [pending_seen : Nat, block_count : Nat, initial_backfill_txs : Nat]
  BY <1>1 DEF RuntimeTyped
<1>7. "backfill" \in Tasks /\ task'["backfill"] = IF x = "backfill" THEN q ELSE task["backfill"]
  BY <1>1 DEF RuntimeTyped, Goes, Tasks
<1>8. /\ task'["backfill"] \in {"none", "contents", "content"} =>
           backfill' = 0 /\ telemetry'.initial_backfill_txs = 0
      /\ task'["backfill"] \in {"check", "send"} => backfill' > 0
  BY <1>1, <1>7 DEF RuntimeTyped
<1>9. 0 \in Int /\ q \in Points \ {"none"} /\ task[x] \notin {"none", "ended"}
  OBVIOUS
<1> QED
  BY <1>4, <1>5, <1>6, <1>8, <1>9, TaskMoves

\* A task other than run_backfill counts a transaction or a block, and goes to
\* "sending", or comes from "count".
LEMMA TaskCounts ==
  ASSUME CliInv, IInv', Elsewhere, UNCHANGED <<backfill, events>>,
         record_block \/ record_pending_seen,
         NEW x \in Tasks \ {"backfill"}, NEW q \in Points \ {"none", "count"}, Goes(x, q),
         task[x] \notin {"none", "ended", "sending"},
         (q = "sending") # (task[x] = "count")
  PROVE  CliInv'
<1>1. RuntimeTyped /\ Counted \in Int /\ Sent \in Nat
  BY Numbers DEF CliInv
<1>2. /\ telemetry' \in [pending_seen : Nat, block_count : Nat, initial_backfill_txs : Nat]
      /\ telemetry'.initial_backfill_txs = telemetry.initial_backfill_txs
      /\ telemetry'.pending_seen + telemetry'.block_count
           = telemetry.pending_seen + telemetry.block_count + 1
  <2>1. telemetry \in [pending_seen : Nat, block_count : Nat, initial_backfill_txs : Nat]
    BY <1>1 DEF RuntimeTyped
  <2>2. CASE record_block
    <3>1. telemetry' = [telemetry EXCEPT !.block_count = telemetry.block_count + 1]
      BY <2>2 DEF record_block
    <3> QED
      BY <2>1, <3>1
  <2>3. CASE record_pending_seen
    <3>1. telemetry' = [telemetry EXCEPT !.pending_seen = telemetry.pending_seen + 1]
      BY <2>3 DEF record_pending_seen
    <3> QED
      BY <2>1, <3>1
  <2> QED
    BY <2>2, <2>3
<1>3. Counted' = Counted + 1
  BY <1>1, <1>2 DEF Counted, RuntimeTyped
<1>4. Sent' = Sent
  BY DEF Sent, Elsewhere, lockVars
<1>5. Sent' = Sent + 0
  BY <1>1, <1>4
<1>6. 1 - 0 = (Is(q, "sending") - Is(task[x], "sending")) - (Is(q, "count") - Is(task[x], "count"))
  BY DEF Is
<1>7. backfill' \in Nat /\ events' \in Seq(Events)
  BY <1>1 DEF RuntimeTyped
<1>8. task'["backfill"] = task["backfill"]
  BY <1>1 DEF RuntimeTyped, Goes, Tasks
<1>9. /\ task'["backfill"] \in {"none", "contents", "content"} =>
           backfill' = 0 /\ telemetry'.initial_backfill_txs = 0
      /\ task'["backfill"] \in {"check", "send"} => backfill' > 0
  BY <1>1, <1>2, <1>8 DEF RuntimeTyped
<1>10. /\ 0 \in Int /\ 1 \in Int /\ x \in Tasks /\ q \in Points \ {"none"}
       /\ task[x] \notin {"none", "ended"}
  OBVIOUS
<1> QED
  BY <1>2, <1>3, <1>5, <1>6, <1>7, <1>9, <1>10, TaskMoves

\* A task other than run_backfill sends an event, from "sending" or to "count".
LEMMA TaskSends ==
  ASSUME CliInv, IInv', Elsewhere, UNCHANGED <<backfill, telemetry>>,
         NEW e \in Events, send(e),
         NEW x \in Tasks \ {"backfill"}, NEW q \in Points \ {"none", "sending"}, Goes(x, q),
         task[x] \notin {"none", "ended", "count"},
         (q = "count") # (task[x] = "sending")
  PROVE  CliInv'
<1>1. IInv /\ RuntimeTyped /\ Counted \in Int /\ Sent \in Nat
  BY Numbers DEF CliInv
<1>2. events' \in Seq(Events) /\ Sent' = Sent + 1
  BY <1>1, SendCounts DEF Elsewhere
<1>3. Counted' = Counted
  BY DEF Counted
<1>4. Counted' = Counted + 0
  BY <1>1, <1>3
<1>5. 0 - 1 = (Is(q, "sending") - Is(task[x], "sending")) - (Is(q, "count") - Is(task[x], "count"))
  BY DEF Is
<1>6. /\ backfill' \in Nat
      /\ telemetry' \in [pending_seen : Nat, block_count : Nat, initial_backfill_txs : Nat]
  BY <1>1 DEF RuntimeTyped
<1>7. task'["backfill"] = task["backfill"]
  BY <1>1 DEF RuntimeTyped, Goes, Tasks
<1>8. /\ task'["backfill"] \in {"none", "contents", "content"} =>
           backfill' = 0 /\ telemetry'.initial_backfill_txs = 0
      /\ task'["backfill"] \in {"check", "send"} => backfill' > 0
  BY <1>1, <1>7 DEF RuntimeTyped
<1>9. /\ 0 \in Int /\ 1 \in Int /\ x \in Tasks /\ q \in Points \ {"none"}
      /\ task[x] \notin {"none", "ended"}
  OBVIOUS
<1> QED
  BY <1>2, <1>4, <1>5, <1>6, <1>8, <1>9, TaskMoves

\* run_backfill: the requests, the shutdown, and the loop over the transactions.
LEMMA BackfillSteps ==
  ASSUME CliInv, IInv', run_backfill, UNCHANGED cliVars
  PROVE  CliInv'
<1>1. IInv /\ RuntimeTyped /\ Counted \in Int /\ Sent \in Nat /\ "backfill" \in Tasks
  BY Numbers DEF CliInv, Tasks
<1>2. CASE backfill_mempool \/ backfill_changed \/ backfill_check
  <2>1. Elsewhere /\ UNCHANGED <<backfill, events, telemetry>>
    BY <1>2
    DEF backfill_mempool, backfill_changed, backfill_check, Elsewhere, cliVars, rpcVars
  <2>2. \E q \in Points \ {"none", "sending", "count"} :
          /\ Goes("backfill", q)
          /\ task["backfill"] \notin {"none", "ended", "sending", "count"}
          /\ \/ q = "ended"
             \/ q = "content" /\ task["backfill"] = "contents"
             \/ q = "send" /\ task["backfill"] = "check"
    BY <1>2 DEF backfill_mempool, backfill_changed, backfill_check, Points
  <2> QED
    BY <1>1, <2>1, <2>2, TaskMovesOn
<1>3. CASE backfill_answer
  <2>1. /\ Elsewhere /\ UNCHANGED events
        /\ task["backfill"] \in {"contents", "content"}
    BY <1>3 DEF backfill_answer, Elsewhere, cliVars, rpcVars
  <2>2. PICK txs \in 0 .. MaxBackfill :
          /\ record_backfill_size(txs)
          /\ backfill' = txs
          /\ Goes("backfill", IF txs = 0 THEN "ended" ELSE "check")
    BY <1>3 DEF backfill_answer
  <2> DEFINE q == IF txs = 0 THEN "ended" ELSE "check"
  <2>3. /\ q \in Points \ {"none"} /\ task["backfill"] \notin {"none", "ended"}
        /\ 0 - 0 = (Is(q, "sending") - Is(task["backfill"], "sending"))
                     - (Is(q, "count") - Is(task["backfill"], "count"))
    BY <2>1 DEF Is, Points
  <2>4. txs \in Nat /\ backfill = 0 /\ telemetry.initial_backfill_txs = 0
    BY <1>1, <2>1, RpcAssumption DEF RuntimeTyped
  <2>5. /\ telemetry' \in [pending_seen : Nat, block_count : Nat, initial_backfill_txs : Nat]
        /\ telemetry'.initial_backfill_txs = txs
        /\ telemetry'.pending_seen = telemetry.pending_seen
        /\ telemetry'.block_count = telemetry.block_count
    BY <1>1, <2>2, <2>4 DEF RuntimeTyped, record_backfill_size
  <2>6. Counted' = Counted + 0
    BY <1>1, <2>2, <2>4, <2>5 DEF Counted, RuntimeTyped
  <2>7. Sent' = Sent
    BY <2>1 DEF Sent, Elsewhere, lockVars
  <2>8. Sent' = Sent + 0
    BY <1>1, <2>7
  <2>9. /\ task'["backfill"] = q
        /\ task'["backfill"] \in {"none", "contents", "content"} =>
             backfill' = 0 /\ telemetry'.initial_backfill_txs = 0
        /\ task'["backfill"] \in {"check", "send"} => backfill' > 0
    BY <1>1, <2>2, <2>4 DEF RuntimeTyped, Goes
  <2>10. Goes("backfill", q) /\ backfill' \in Nat /\ events' \in Seq(Events) /\ 0 \in Int
    BY <1>1, <2>1, <2>2, <2>4 DEF RuntimeTyped
  <2> HIDE DEF q
  <2> QED
    BY <1>1, <2>1, <2>3, <2>5, <2>6, <2>8, <2>9, <2>10, TaskMoves
<1>4. CASE backfill_send
  <2>1. /\ Elsewhere /\ UNCHANGED telemetry
        /\ task["backfill"] = "send" /\ send("PendingTransaction")
        /\ backfill' = backfill - 1
        /\ Goes("backfill", IF backfill = 1 THEN "ended" ELSE "check")
    BY <1>4 DEF backfill_send, Elsewhere, cliVars, rpcVars
  <2> DEFINE q == IF backfill = 1 THEN "ended" ELSE "check"
  <2>2. /\ q \in Points \ {"none"} /\ task["backfill"] \notin {"none", "ended"}
        /\ 1 - 1 = (Is(q, "sending") - Is(task["backfill"], "sending"))
                     - (Is(q, "count") - Is(task["backfill"], "count"))
    BY <2>1 DEF Is, Points
  <2>3. backfill \in Nat /\ backfill > 0
    BY <1>1, <2>1 DEF RuntimeTyped
  <2>4. Counted' = Counted + 1
    BY <1>1, <2>1, <2>3 DEF Counted, RuntimeTyped
  <2>5. events' \in Seq(Events) /\ Sent' = Sent + 1
    BY <1>1, <2>1, SendCounts DEF Elsewhere, Events
  <2>6. /\ task'["backfill"] = q
        /\ task'["backfill"] \in {"none", "contents", "content"} =>
             backfill' = 0 /\ telemetry'.initial_backfill_txs = 0
        /\ task'["backfill"] \in {"check", "send"} => backfill' > 0
    BY <1>1, <2>1, <2>3 DEF RuntimeTyped, Goes
  <2>7. /\ Goes("backfill", q) /\ backfill' \in Nat /\ 1 \in Int
        /\ telemetry' \in [pending_seen : Nat, block_count : Nat, initial_backfill_txs : Nat]
    BY <1>1, <2>1, <2>3 DEF RuntimeTyped
  <2> HIDE DEF q
  <2> QED
    BY <1>1, <2>1, <2>2, <2>4, <2>5, <2>6, <2>7, TaskMoves
<1> QED
  BY <1>2, <1>3, <1>4 DEF run_backfill

\* The two subscriptions, closed streams and aborts.
LEMMA SubscriptionSteps ==
  ASSUME CliInv, IInv', UNCHANGED cliVars,
         \/ run_block_subscription \/ run_pending_subscription
         \/ \E t \in {"block", "pending"} : subscription_closed(t)
         \/ \E t \in Tasks : Aborts(t)
  PROVE  CliInv'
<1>1. /\ "block" \in Tasks \ {"backfill"} /\ "pending" \in Tasks \ {"backfill"}
      /\ task \in [Tasks -> Points] /\ Running \subseteq Points
  BY DEF CliInv, RuntimeTyped, Tasks, Running, Points
<1>2. ASSUME NEW t \in {"block", "pending"}, subscription_closed(t) PROVE CliInv'
  <2>1. /\ Elsewhere /\ UNCHANGED <<backfill, events, telemetry>>
        /\ t \in Tasks /\ Goes(t, "ended") /\ task[t] = "select" /\ t # "backfill"
    BY <1>1, <1>2 DEF subscription_closed, Elsewhere, cliVars, rpcVars
  <2>2. "ended" \in Points \ {"none", "sending", "count"}
    BY DEF Points
  <2> QED
    BY <2>1, <2>2, TaskMovesOn
<1>3. CASE block_header \/ block_missed
  <2>1. /\ Elsewhere /\ UNCHANGED <<backfill, events, telemetry>>
        /\ \E q \in {"fetching", "select"} : Goes("block", q)
        /\ task["block"] \in {"fetching", "select"}
    BY <1>3 DEF block_header, block_missed, Elsewhere, cliVars, rpcVars
  <2>2. {"fetching", "select"} \subseteq Points \ {"none", "sending", "count"}
    BY DEF Points
  <2> QED
    BY <1>1, <2>1, <2>2, TaskMovesOn
<1>4. CASE block_fetched \/ pending_transaction
  <2>1. /\ Elsewhere /\ UNCHANGED <<backfill, events>>
        /\ record_block \/ record_pending_seen
        /\ \E t \in Tasks \ {"backfill"} :
             Goes(t, "sending") /\ task[t] \in {"fetching", "select"}
    BY <1>1, <1>4 DEF block_fetched, pending_transaction, Elsewhere, cliVars, rpcVars
  <2>2. "sending" \in Points \ {"none", "count"}
    BY DEF Points
  <2> QED
    BY <2>1, <2>2, TaskCounts
<1>5. ASSUME NEW t \in {"block", "pending"}, subscription_send(t) PROVE CliInv'
  <2>1. /\ Elsewhere /\ UNCHANGED <<backfill, telemetry>>
        /\ send(Event(t)) /\ Event(t) \in Events
        /\ t \in Tasks \ {"backfill"} /\ Goes(t, "select") /\ task[t] = "sending"
    BY <1>1, <1>5 DEF subscription_send, Elsewhere, cliVars, rpcVars, Event, Events
  <2>2. "select" \in Points \ {"none", "sending"}
    BY DEF Points
  <2> QED
    BY <2>1, <2>2, TaskSends
<1>6. ASSUME NEW t \in Tasks, Aborts(t) PROVE CliInv'
  <2>1. /\ Elsewhere /\ UNCHANGED <<backfill, events, telemetry>>
        /\ Goes(t, "ended") /\ task[t] \notin {"none", "ended", "sending", "count"}
    BY <1>6 DEF Aborts, Abort, Elsewhere, cliVars, rpcVars, Senders, Spawned, Running
  <2>2. "ended" \in Points \ {"none", "sending", "count"}
    BY DEF Points
  <2> QED
    BY <2>1, <2>2, TaskMovesOn
<1>7. CASE run_block_subscription
  BY <1>2, <1>3, <1>4, <1>5, <1>7 DEF run_block_subscription, subscription_changed
<1>8. CASE run_pending_subscription
  BY <1>2, <1>4, <1>5, <1>8 DEF run_pending_subscription, subscription_changed
<1> QED
  BY <1>2, <1>6, <1>7, <1>8

\* The simulated chain.
LEMMA SimulationSteps ==
  ASSUME CliInv, IInv', simulate_blockchain
  PROVE  CliInv'
<1>1. /\ "simulation" \in Tasks \ {"backfill"} /\ "simulation" \in Tasks
  BY DEF Tasks
<1>2. CASE simulation_send
  BY <1>1, <1>2, TaskSends
  DEF simulation_send, Elsewhere, cliVars, rpcVars, Events, Points
<1>3. CASE simulation_count
  <2>1. /\ Elsewhere /\ UNCHANGED <<backfill, events>> /\ record_pending_seen
        /\ task["simulation"] = "count"
        /\ \E q \in {"wait", "tx"} : Goes("simulation", q)
    BY <1>3 DEF simulation_count, Elsewhere, uiVars, rpcVars
  <2>2. {"wait", "tx"} \subseteq Points \ {"none", "count"}
    BY DEF Points
  <2> QED
    BY <1>1, <2>1, <2>2, TaskCounts
<1>4. CASE simulation_waited
  BY <1>1, <1>4, TaskCounts
  DEF simulation_waited, Elsewhere, cliVars, rpcVars, Points
<1>5. CASE simulation_block
  BY <1>1, <1>5, TaskSends
  DEF simulation_block, Elsewhere, cliVars, rpcVars, Events, Points
<1>6. CASE simulation_stops
  BY <1>1, <1>6, TaskMovesOn
  DEF simulation_stops, Elsewhere, cliVars, rpcVars, Points
<1> QED
  BY <1>2, <1>3, <1>4, <1>5, <1>6 DEF simulate_blockchain

\* The last stage of a connection spawns the three tasks of the transport, main
\* that of the simulation.  Nothing was spawned before.
LEMMA SpawnSteps ==
  ASSUME CliInv, IInv', main_simulated \/ (connect_erased_provider /\ UNCHANGED cliVars)
  PROVE  CliInv'
<1>1. /\ IInv /\ RuntimeTyped /\ SpawnedOnce /\ CountedIsSent /\ ReceiverOutlivesSenders
      /\ SnapshotTyped /\ ScrollInRange
      /\ Counted \in Int /\ Sent \in Nat
  BY Numbers DEF CliInv
<1>2. /\ Stages[1] = "websocket connect" /\ Stages[2] = "block subscription setup"
      /\ Stages[3] = "pending transaction subscription setup"
      /\ DOMAIN Stages = {1, 2, 3} /\ Len(Stages) = 3
  BY DEF Stages
<1>3. CASE main_simulated
  <2>1. /\ main = "start" /\ main' = "loop" /\ Goes("simulation", "tx")
        /\ UNCHANGED <<lockVars, connecting, uiVars, backfill, events, telemetry>>
    BY <1>3 DEF main_simulated, rpcVars
  <2>2. connecting = "no" /\ Spawned = {} /\ tracker # "ended"
    BY <1>1, <2>1 DEF SpawnedOnce
  <2>3. "simulation" \in Tasks /\ task["simulation"] = "none" /\ "tx" \in Points
    BY <2>2 DEF Spawned, Tasks, Points
  <2>4. RuntimeTyped'
    BY <1>1, <2>1, <2>3 DEF RuntimeTyped, Goes
  <2>5. CountedIsSent'
    <3>1. Counted' = Counted /\ Sent' = Sent
      BY <2>1 DEF Counted, Sent, lockVars
    <3>2. Counted' = Counted + 0 /\ Sent' = Sent + 0
      BY <1>1, <3>1
    <3>3. 0 - 0 = (Is("tx", "sending") - Is(task["simulation"], "sending"))
                    - (Is("tx", "count") - Is(task["simulation"], "count"))
      BY <2>3 DEF Is
    <3>4. 0 \in Int
      OBVIOUS
    <3> QED
      BY <1>1, <2>1, <2>3, <3>2, <3>3, <3>4, Balance
  <2>6. SpawnedOnce' /\ ReceiverOutlivesSenders'
    BY <1>2, <2>1, <2>2 DEF SpawnedOnce, ReceiverOutlivesSenders, lockVars
  <2>7. SnapshotTyped' /\ ScrollInRange'
    BY <1>1, <2>1 DEF SnapshotTyped, ScrollInRange, uiVars
  <2> QED
    BY <2>4, <2>5, <2>6, <2>7 DEF CliInv
<1>4. CASE connect_erased_provider /\ UNCHANGED cliVars
  <2>1. PICK i \in DOMAIN Stages :
          /\ connecting = Stages[i]
          /\ IF i < Len(Stages)
             THEN connecting' = Stages[i + 1] /\ UNCHANGED task
             ELSE /\ connecting' = "ok"
                  /\ task' = [task EXCEPT !["block"] = "select", !["pending"] = "select",
                                          !["backfill"] = "contents"]
    BY <1>4 DEF connect_erased_provider
  <2>2. UNCHANGED <<lockVars, main, uiVars, backfill, events, telemetry>>
    BY <1>4 DEF connect_erased_provider, cliVars
  <2>3. Spawned = {} /\ tracker # "ended" /\ main # "start"
    BY <1>1, <1>2, <2>1 DEF SpawnedOnce
  <2>4. \A t \in Tasks : task[t] = "none"
    BY <2>3 DEF Spawned
  <2>5. SnapshotTyped' /\ ScrollInRange'
    BY <1>1, <2>2 DEF SnapshotTyped, ScrollInRange, uiVars
  <2>6. tracker' # "ended" /\ main' # "start" /\ Sent' = Sent
    BY <2>2, <2>3 DEF lockVars, Sent
  <2>7. CASE i < Len(Stages)
    <3>1. UNCHANGED task /\ Spawned' = Spawned
      BY <2>1, <2>7 DEF Spawned
    <3>2. RuntimeTyped' /\ CountedIsSent'
      BY <1>1, <2>2, <2>6, <3>1 DEF RuntimeTyped, CountedIsSent, Counted
    <3>3. SpawnedOnce' /\ ReceiverOutlivesSenders'
      BY <2>3, <2>6, <3>1 DEF SpawnedOnce, ReceiverOutlivesSenders
    <3> QED
      BY <2>5, <3>2, <3>3 DEF CliInv
  <2>8. CASE ~(i < Len(Stages))
    <3>1. /\ connecting' = "ok"
          /\ task' = [task EXCEPT !["block"] = "select", !["pending"] = "select",
                                  !["backfill"] = "contents"]
      BY <2>1, <2>8
    <3>2. /\ \A t \in Tasks : task'[t] \in {"none", "select", "contents"}
          /\ task' \in [Tasks -> Points] /\ task'["backfill"] = "contents"
      BY <1>1, <2>4, <3>1 DEF RuntimeTyped, Tasks, Points
    <3>3. backfill = 0 /\ telemetry.initial_backfill_txs = 0
      BY <1>1, <2>4 DEF RuntimeTyped, Tasks
    <3>4. RuntimeTyped'
      BY <1>1, <2>2, <3>2, <3>3 DEF RuntimeTyped
    <3>5. /\ {t \in Tasks : task'[t] = "sending"} = {t \in Tasks : task[t] = "sending"}
          /\ {t \in Tasks : task'[t] = "count"} = {t \in Tasks : task[t] = "count"}
      BY <2>4, <3>2
    <3>6. CountedIsSent'
      BY <1>1, <2>2, <2>6, <3>5 DEF CountedIsSent, Counted
    <3>7. SpawnedOnce' /\ ReceiverOutlivesSenders'
      BY <1>2, <2>6, <3>1 DEF SpawnedOnce, ReceiverOutlivesSenders
    <3> QED
      BY <2>5, <3>4, <3>6, <3>7 DEF CliInv
  <2> QED
    BY <2>7, <2>8
<1> QED
  BY <1>3, <1>4

-----------------------------------------------------------------------------
(* The tracker thread *)

\* run receives, writes, or ends when it will get no more.
LEMMA RunSteps ==
  ASSUME CliInv, IInv', run, UNCHANGED <<rpcVars, cliVars>>
  PROVE  CliInv'
<1>1. /\ RuntimeTyped /\ SpawnedOnce /\ CountedIsSent /\ ReceiverOutlivesSenders
      /\ SnapshotTyped /\ ScrollInRange
      /\ version \in Nat /\ Len(events) \in Nat /\ events \in Seq(Events)
  BY Numbers DEF CliInv, RuntimeTyped
<1>2. UNCHANGED <<task, backfill, telemetry, connecting, main, uiVars>>
  BY DEF run, runtimeVars, rpcVars, cliVars
<1>3. SnapshotTyped' /\ ScrollInRange'
  BY <1>1, <1>2 DEF SnapshotTyped, ScrollInRange, uiVars
<1>4. Spawned' = Spawned /\ Senders' = Senders
  BY <1>2 DEF Spawned, Senders
<1> DEFINE l == Len(events)
<1>5. /\ events' \in Seq(Events)
      /\ tracker' = "ended" => tracker = "ended" \/ (Spawned # {} /\ Senders = {} /\ events' = <<>>)
      /\ tracker = "ended" => tracker' = "ended" /\ events' = events
      /\ Sent' = Sent
  <2>1. CASE recv /\ events # <<>> /\ events' = Tail(events)
    <3>1. tracker = "recv" /\ tracker' = "wait" /\ version' = version
      BY <2>1 DEF recv
    <3>2. events' \in Seq(Events) /\ Len(events') = Len(events) - 1
      BY <1>1, <2>1, HeadTailProperties
    <3>3. l \in Nat /\ l' = l - 1
      BY <1>1, <3>2
    <3> HIDE DEF l
    <3>4. version' + l' + 1 = version + l + 0
      BY <1>1, <3>1, <3>3
    <3>5. Sent' = Sent
      BY <3>1, <3>4 DEF Sent, l
    <3> QED
      BY <3>1, <3>2, <3>5
  <2>2. CASE write /\ UNCHANGED runtimeVars
    BY <1>1, <2>2 DEF write, runtimeVars, Sent
  <2>3. CASE apply /\ UNCHANGED runtimeVars
    <3>1. /\ tracker = "write" /\ tracker' = "recv" /\ version' = version + 1
          /\ events' = events
      BY <2>3 DEF apply, runtimeVars
    <3>2. l \in Nat /\ l' = l
      BY <1>1, <3>1
    <3> HIDE DEF l
    <3>3. version' + l' + 0 = version + l + 1
      BY <1>1, <3>1, <3>2
    <3>4. Sent' = Sent
      BY <3>1, <3>3 DEF Sent, l
    <3> QED
      BY <1>1, <3>1, <3>4
  <2>4. CASE Spawned # {} /\ Senders = {} /\ events = <<>> /\ disconnected /\ UNCHANGED runtimeVars
    BY <1>1, <2>4 DEF disconnected, runtimeVars, Sent
  <2> QED
    BY <2>1, <2>2, <2>3, <2>4 DEF run
<1>6. RuntimeTyped'
  BY <1>1, <1>2, <1>5 DEF RuntimeTyped
<1>7. CountedIsSent'
  BY <1>1, <1>2, <1>5 DEF CountedIsSent, Counted
<1>8. SpawnedOnce' /\ ReceiverOutlivesSenders'
  BY <1>1, <1>2, <1>4, <1>5 DEF SpawnedOnce, ReceiverOutlivesSenders
<1> QED
  BY <1>3, <1>6, <1>7, <1>8 DEF CliInv

-----------------------------------------------------------------------------
(* main *)

\* Steps that leave the tasks, the channel and the tracker thread alone.
LEMMA RuntimeStill ==
  ASSUME CliInv, UNCHANGED <<task, backfill, events, telemetry, tracker, version>>,
         main' = "start" => main = "start" /\ connecting' = connecting,
         \/ connecting' \in {connecting, "failed"}
         \/ main = "start"
  PROVE  RuntimeTyped' /\ SpawnedOnce' /\ CountedIsSent' /\ ReceiverOutlivesSenders'
<1>1. Spawned' = Spawned /\ Senders' = Senders /\ Sent' = Sent
  BY DEF Spawned, Senders, Sent
<1>2. RuntimeTyped' /\ CountedIsSent'
  BY <1>1 DEF CliInv, RuntimeTyped, CountedIsSent, Counted
<1>3. ReceiverOutlivesSenders'
  BY <1>1 DEF CliInv, ReceiverOutlivesSenders
<1>4. \A i \in DOMAIN Stages : Stages[i] # "failed"
  <2>1. /\ Stages[1] = "websocket connect" /\ Stages[2] = "block subscription setup"
        /\ Stages[3] = "pending transaction subscription setup"
        /\ DOMAIN Stages = {1, 2, 3}
    BY DEF Stages
  <2> QED
    BY <2>1
<1>5. SpawnedOnce'
  <2>1. SpawnedOnce
    BY DEF CliInv
  <2>2. main' = "start" => connecting' = "no" /\ Spawned' = {}
    BY <1>1, <2>1 DEF SpawnedOnce
  <2>3. ASSUME NEW i \in DOMAIN Stages, connecting' = Stages[i] PROVE Spawned' = {}
    BY <1>1, <1>4, <2>1, <2>3 DEF SpawnedOnce
  <2>4. tracker' = "ended" => Spawned' # {}
    BY <1>1, <2>1 DEF SpawnedOnce
  <2> QED
    BY <2>2, <2>3, <2>4 DEF SpawnedOnce
<1> QED
  BY <1>2, <1>3, <1>5

\* The smaller and the larger of two.
LEMMA MinMaxOfTwo ==
  ASSUME NEW a \in Int, NEW b \in Int
  PROVE  /\ Min({a, b}) = (IF a <= b THEN a ELSE b)
         /\ Max({a, b}) = (IF a <= b THEN b ELSE a)
<1> DEFINE low == IF a <= b THEN a ELSE b
           high == IF a <= b THEN b ELSE a
<1>1. low \in {a, b} /\ (\A y \in {a, b} : low <= y)
  OBVIOUS
<1>2. \A x \in {a, b} : (\A y \in {a, b} : x <= y) => x = low
  OBVIOUS
<1>3. high \in {a, b} /\ (\A y \in {a, b} : high >= y)
  OBVIOUS
<1>4. \A x \in {a, b} : (\A y \in {a, b} : x >= y) => x = high
  OBVIOUS
<1>5. Min({a, b}) = low
  BY <1>1, <1>2 DEF Min
<1>6. Max({a, b}) = high
  BY <1>3, <1>4 DEF Max
<1> QED
  BY <1>5, <1>6

\* The last position clamp_scroll allows is 0 for an empty list, and that of a row
\* for any other, however few rows are visible.
LEMMA MaxScroll ==
  ASSUME snapshot \in [rows : Nat, marketable_count : Nat], NEW visible \in Nat
  PROVE  /\ max_scroll(visible) \in Nat
         /\ snapshot.rows = 0 => max_scroll(visible) = 0
         /\ snapshot.rows > 0 => max_scroll(visible) < snapshot.rows
<1> DEFINE v == Max({1, visible})
<1>1. v \in Nat /\ v >= 1
  <2>1. 1 \in Int /\ visible \in Int
    OBVIOUS
  <2>2. v = IF 1 <= visible THEN visible ELSE 1
    BY <2>1, MinMaxOfTwo, Zenon
  <2> QED
    BY <2>2
<1> HIDE DEF v
<1>2. snapshot.rows \in Nat /\ snapshot.rows - v \in Int
  BY <1>1
<1>3. Max({0, snapshot.rows - v}) = IF 0 <= snapshot.rows - v THEN snapshot.rows - v ELSE 0
  BY <1>2, MinMaxOfTwo
<1>4. max_scroll(visible) = IF 0 <= snapshot.rows - v THEN snapshot.rows - v ELSE 0
  BY <1>3 DEF max_scroll, v
<1> QED
  BY <1>1, <1>2, <1>4

\* clamp_scroll never moves down the list, and not past the last position.
LEMMA ClampScroll ==
  ASSUME snapshot \in [rows : Nat, marketable_count : Nat],
         NEW scroll \in Nat, NEW visible \in Nat
  PROVE  /\ clamp_scroll(scroll, visible) \in Nat
         /\ clamp_scroll(scroll, visible) <= scroll
         /\ snapshot.rows = 0 => clamp_scroll(scroll, visible) = 0
         /\ snapshot.rows > 0 => clamp_scroll(scroll, visible) < snapshot.rows
<1> DEFINE m == max_scroll(visible)
<1>1. /\ m \in Nat
      /\ snapshot.rows = 0 => m = 0
      /\ snapshot.rows > 0 => m < snapshot.rows
      /\ snapshot.rows \in Nat
  BY MaxScroll
<1> HIDE DEF m
<1>2. Min({scroll, m}) = IF scroll <= m THEN scroll ELSE m
  BY <1>1, MinMaxOfTwo
<1>3. clamp_scroll(scroll, visible) = IF scroll <= m THEN scroll ELSE m
  BY <1>2 DEF clamp_scroll, m
<1> QED
  BY <1>1, <1>3

\* A connection fails.
LEMMA ConnectFails ==
  ASSUME CliInv, IInv', connect_fails, UNCHANGED cliVars
  PROVE  CliInv'
<1>1. /\ UNCHANGED <<task, backfill, events, telemetry, tracker, version, main, uiVars>>
      /\ connecting' = "failed"
  BY DEF connect_fails, lockVars, runtimeVars, cliVars
<1>2. main # "start"
  <2>1. PICK i \in DOMAIN Stages : connecting = Stages[i]
    BY DEF connect_fails
  <2>2. /\ Stages[1] = "websocket connect" /\ Stages[2] = "block subscription setup"
        /\ Stages[3] = "pending transaction subscription setup"
        /\ DOMAIN Stages = {1, 2, 3}
    BY DEF Stages
  <2> QED
    BY <2>1, <2>2 DEF CliInv, SpawnedOnce
<1>3. RuntimeTyped' /\ SpawnedOnce' /\ CountedIsSent' /\ ReceiverOutlivesSenders'
  BY <1>1, <1>2, RuntimeStill
<1>4. SnapshotTyped' /\ ScrollInRange'
  BY <1>1 DEF CliInv, SnapshotTyped, ScrollInRange, uiVars
<1> QED
  BY <1>3, <1>4 DEF CliInv

\* main up to its loop, and from its end.
LEMMA OutsideLoop ==
  ASSUME CliInv, IInv',
         \/ main_fails \/ main_connects \/ main_connected \/ deadline_passes
         \/ set_stop \/ shutdown_live \/ shutdown_simulated
  PROVE  CliInv'
<1>1. /\ UNCHANGED <<task, backfill, events, telemetry, tracker, version, asking, keys>>
      /\ main \notin {"capture", "poll"} /\ main' \notin {"capture", "poll", "start"}
      /\ connecting' = connecting \/ main = "start"
      /\ \/ UNCHANGED <<snapshot, tx_scroll>>
         \/ snapshot' = EmptySnapshot /\ tx_scroll' = 0
  <2>1. CASE main_fails \/ main_connected \/ deadline_passes \/ shutdown_simulated
    BY <2>1
    DEF main_fails, main_connected, deadline_passes, shutdown_simulated, lockVars,
        outerVars, runtimeVars, rpcVars, uiVars
  <2>2. CASE main_connects
    BY <2>2 DEF main_connects, connect_with_config, lockVars, runtimeVars, uiVars
  <2>3. CASE set_stop
    BY <2>3 DEF set_stop, DropApp, lockVars, runtimeVars, rpcVars
  <2>4. CASE shutdown_live
    BY <2>4 DEF shutdown_live, drop_send, drop_abort, lockVars, rpcVars, uiVars
  <2> QED
    BY <2>1, <2>2, <2>3, <2>4
<1>2. RuntimeTyped' /\ SpawnedOnce' /\ CountedIsSent' /\ ReceiverOutlivesSenders'
  BY <1>1, RuntimeStill
<1>3. asking = "done" /\ keys = 0
  BY <1>1 DEF CliInv, SnapshotTyped
<1>4. EmptySnapshot \in [rows : Nat, marketable_count : Nat] /\ EmptySnapshot.rows + 0 <= EmptySnapshot.marketable_count
  BY DEF EmptySnapshot
<1>5. SnapshotTyped' /\ ScrollInRange'
  BY <1>1, <1>3, <1>4 DEF CliInv, SnapshotTyped, ScrollInRange
<1> QED
  BY <1>2, <1>5 DEF CliInv

\* The queries of a snapshot: each row uses up a key.
LEMMA CaptureSteps ==
  ASSUME CliInv, IInv',
         \/ capture \/ ask \/ guards
         \/ answer_first \/ answer_priority_queue \/ answer_find \/ answer_estimate
  PROVE  CliInv'
<1>1. \A t : return(t) => UNCHANGED <<tracker, version>>
  BY DEF return
<1>2. /\ UNCHANGED <<outerVars, tracker, version, tx_scroll>>
      /\ main' \in {main, "capture"}
  BY <1>1
  DEF capture, ask, guards, answer_first, answer_priority_queue, answer_find,
      answer_estimate, lockVars, uiVars, query, estimated_blocks_to_confirm, read,
      call_gas_ahead, read_again
<1>3. RuntimeTyped' /\ SpawnedOnce' /\ CountedIsSent' /\ ReceiverOutlivesSenders'
  BY <1>2, RuntimeStill DEF outerVars, runtimeVars, rpcVars
<1>4. /\ FirstQueries[1] = "current_base_fee" /\ FirstQueries[2] = "private_flow_ratio"
      /\ FirstQueries[3] = "last_block_gas_limit" /\ FirstQueries[4] = "usable_capacity"
      /\ FirstQueries[5] = "priority_queue"
  BY DEF FirstQueries
<1>5. SnapshotTyped
  BY DEF CliInv
<1>6. SnapshotTyped'
  <2>1. CASE capture
    BY <1>2, <1>4, <1>5, <2>1 DEF capture, SnapshotTyped, EmptySnapshot
  <2>2. CASE ask \/ guards
    BY <1>2, <1>5, <2>2 DEF ask, guards, uiVars, SnapshotTyped
  <2>3. CASE answer_first
    <3>1. PICK i \in 1 .. 4 : asking = FirstQueries[i] /\ asking' = FirstQueries[i + 1]
      BY <2>3 DEF answer_first
    <3>2. i \in {1, 2, 3, 4}
      OBVIOUS
    <3>3. /\ asking # "done"
          /\ asking' \notin {"find_tx_by_addr_and_nonce", "estimated_blocks_to_confirm"}
          /\ asking \notin {"find_tx_by_addr_and_nonce", "estimated_blocks_to_confirm"}
      BY <1>4, <3>1, <3>2
    <3>4. UNCHANGED <<main, keys, snapshot, tx_scroll>>
      BY <2>3 DEF answer_first
    <3> QED
      BY <1>5, <3>3, <3>4 DEF SnapshotTyped
  <2>4. CASE answer_priority_queue
    <3>1. /\ asking = "priority_queue" /\ keys' \in 0 .. MaxKeys
          /\ snapshot' = [snapshot EXCEPT !.marketable_count = keys']
          /\ asking' = IF keys' = 0 THEN "done" ELSE "find_tx_by_addr_and_nonce"
          /\ UNCHANGED <<main, tx_scroll>>
      BY <2>4 DEF answer_priority_queue
    <3> QED
      BY <1>5, <3>1, CliAssumption DEF SnapshotTyped
  <2>5. CASE answer_find
    BY <1>5, <2>5 DEF answer_find, NextKey, SnapshotTyped
  <2>6. CASE answer_estimate
    BY <1>5, <2>6 DEF answer_estimate, NextKey, SnapshotTyped
  <2> QED
    BY <2>1, <2>2, <2>3, <2>4, <2>5, <2>6
<1>7. ScrollInRange'
  <2>1. SUFFICES ASSUME main' = "poll" PROVE ScrollInRange'
    BY DEF ScrollInRange
  <2>2. main = "poll" /\ asking = "done"
    BY <1>2, <1>5, <2>1 DEF SnapshotTyped
  <2>3. UNCHANGED <<snapshot, tx_scroll>>
    <3>1. CASE capture
      BY <2>2, <3>1 DEF capture
    <3>2. CASE ask \/ guards
      BY <3>2 DEF ask, guards, uiVars
    <3>3. CASE answer_first \/ answer_find
      BY <3>3 DEF answer_first, answer_find
    <3>4. CASE answer_priority_queue \/ answer_estimate
      BY <2>2, <3>4 DEF answer_priority_queue, answer_estimate
    <3> QED
      BY <3>1, <3>2, <3>3, <3>4
  <2> QED
    BY <2>2, <2>3 DEF CliInv, ScrollInRange
<1> QED
  BY <1>3, <1>6, <1>7 DEF CliInv

\* A snapshot is shown, and keys are read.
LEMMA ShowSteps ==
  ASSUME CliInv, IInv', show \/ print \/ poll
  PROVE  CliInv'
<1>1. /\ UNCHANGED <<lockVars, outerVars, asking, keys, snapshot>>
      /\ main \in {"capture", "poll"} /\ asking = "done"
      /\ main' \in {"poll", "stopping", "loop"}
      /\ SnapshotTyped
  BY DEF CliInv, SnapshotTyped, show, print, poll, uiVars
<1>2. RuntimeTyped' /\ SpawnedOnce' /\ CountedIsSent' /\ ReceiverOutlivesSenders'
  BY <1>1, RuntimeStill DEF lockVars, outerVars, runtimeVars, rpcVars
<1>3. snapshot \in [rows : Nat, marketable_count : Nat] /\ tx_scroll \in Nat
  BY <1>1 DEF SnapshotTyped
<1>4. \A height \in Heights : PaneRows(height) \in Nat /\ transaction_rows(height) \in Nat
  <2> SUFFICES ASSUME NEW height \in Heights
               PROVE  PaneRows(height) \in Nat /\ transaction_rows(height) \in Nat
    OBVIOUS
  <2>1. 1 \in Int /\ height - 2 \in Int
    BY CliAssumption
  <2>2. Max({1, height - 2}) = IF 1 <= height - 2 THEN height - 2 ELSE 1
    BY <2>1, MinMaxOfTwo, Zenon
  <2>3. PaneRows(height) \in Nat
    BY <2>1, <2>2 DEF PaneRows
  <2> QED
    BY <2>3 DEF transaction_rows
<1>5. CASE show
  <2>1. PICK height \in Heights :
          tx_scroll' = render_top_transactions(push_snapshot(tx_scroll), height)
    BY <1>5 DEF show
  <2> DEFINE pushed == push_snapshot(tx_scroll)
  <2>2. pushed \in Nat
    BY <1>3, ClampScroll DEF push_snapshot
  <2> HIDE DEF pushed
  <2>3. /\ tx_scroll' = clamp_scroll(pushed, transaction_rows(height))
        /\ transaction_rows(height) \in Nat
    BY <1>4, <2>1 DEF pushed, render_top_transactions
  <2>4. /\ tx_scroll' \in Nat
        /\ snapshot.rows = 0 => tx_scroll' = 0
        /\ snapshot.rows > 0 => tx_scroll' < snapshot.rows
    BY <1>3, <2>2, <2>3, ClampScroll
  <2>5. SnapshotTyped'
    BY <1>1, <2>4 DEF SnapshotTyped
  <2>6. snapshot.rows <= snapshot.marketable_count
    BY <1>1, <1>3 DEF SnapshotTyped
  <2>7. ScrollInRange'
    BY <1>1, <2>4, <2>6 DEF ScrollInRange
  <2> QED
    BY <1>2, <2>5, <2>7 DEF CliInv
<1>6. CASE print
  <2>1. main' = "loop" /\ tx_scroll' = tx_scroll
    BY <1>6 DEF print, uiVars
  <2> QED
    BY <1>1, <1>2, <2>1 DEF CliInv, SnapshotTyped, ScrollInRange
<1>7. CASE poll
  <2>1. main' # "poll"
    BY <1>7 DEF poll
  <2>2. tx_scroll' \in Nat
    <3>1. CASE UNCHANGED tx_scroll
      BY <1>3, <3>1
    <3>2. CASE \E list_rows \in {PaneRows(height) : height \in Heights} :
                 \E amount \in {1, list_rows} :
                   tx_scroll' \in {scroll_up(amount), scroll_down(amount, list_rows)}
      <4>1. PICK list_rows \in {PaneRows(height) : height \in Heights} :
              \E amount \in {1, list_rows} :
                tx_scroll' \in {scroll_up(amount), scroll_down(amount, list_rows)}
        BY <3>2
      <4>2. PICK amount \in {1, list_rows} :
              tx_scroll' \in {scroll_up(amount), scroll_down(amount, list_rows)}
        BY <4>1
      <4>3. list_rows \in Nat /\ amount \in Nat
        BY <1>4
      <4>4. max_scroll(list_rows) \in Nat
        BY <1>3, <4>3, MaxScroll
      <4>5. /\ 0 \in Int /\ tx_scroll - amount \in Int
            /\ tx_scroll + amount \in Nat /\ tx_scroll + amount \in Int
            /\ max_scroll(list_rows) \in Int
        BY <1>3, <4>3, <4>4
      <4>6. /\ scroll_up(amount) = IF 0 <= tx_scroll - amount THEN tx_scroll - amount ELSE 0
            /\ scroll_down(amount, list_rows) =
                 IF tx_scroll + amount <= max_scroll(list_rows)
                 THEN tx_scroll + amount ELSE max_scroll(list_rows)
        BY <4>5, MinMaxOfTwo, Zenon DEF scroll_up, scroll_down
      <4>7. scroll_up(amount) \in Nat
        BY <1>3, <4>3, <4>6
      <4>8. scroll_down(amount, list_rows) \in Nat
        BY <4>4, <4>5, <4>6, Zenon
      <4> QED
        BY <4>2, <4>7, <4>8
    <3> QED
      BY <1>7, <3>1, <3>2 DEF poll
  <2> QED
    BY <1>1, <1>2, <2>1, <2>2 DEF CliInv, SnapshotTyped, ScrollInRange
<1> QED
  BY <1>5, <1>6, <1>7

-----------------------------------------------------------------------------
(* The tool *)

\* The invariant holds when the tool is started.
LEMMA CliInvInit == CliInit => CliInv
<1> SUFFICES ASSUME CliInit PROVE CliInv
  OBVIOUS
<1>1. /\ Init /\ tracker = "recv" /\ version = 0
      /\ task = [t \in Tasks |-> "none"] /\ backfill = 0 /\ events = <<>>
      /\ telemetry = [pending_seen |-> 0, block_count |-> 0, initial_backfill_txs |-> 0]
      /\ connecting = "no" /\ main = "start" /\ asking = "done" /\ keys = 0
      /\ snapshot = EmptySnapshot /\ tx_scroll = 0
  BY DEF CliInit, RuntimeInit, RpcInit, Init
<1>2. IInv
  BY <1>1, IInvInit
<1>3. <<>> \in Seq(Events) /\ Len(<<>>) = 0
  BY EmptySeq
<1>4. RuntimeTyped
  BY <1>1, <1>3 DEF RuntimeTyped, Points, Tasks
<1>5. Spawned = {}
  BY <1>1 DEF Spawned
<1>6. \A i \in DOMAIN Stages : Stages[i] # "no"
  <2>1. /\ Stages[1] = "websocket connect" /\ Stages[2] = "block subscription setup"
        /\ Stages[3] = "pending transaction subscription setup"
        /\ DOMAIN Stages = {1, 2, 3}
    BY DEF Stages
  <2> QED
    BY <2>1
<1>7. SpawnedOnce /\ ReceiverOutlivesSenders
  BY <1>1, <1>5, <1>6 DEF SpawnedOnce, ReceiverOutlivesSenders
<1>8. CountedIsSent
  <2>1. {t \in Tasks : task[t] = "sending"} = {} /\ {t \in Tasks : task[t] = "count"} = {}
    BY <1>1
  <2>2. Cardinality({}) = 0
    BY FS_EmptySet
  <2>3. Sent = 0
    BY <1>1, <1>3 DEF Sent
  <2>4. telemetry.pending_seen + telemetry.block_count
          + (telemetry.initial_backfill_txs - backfill) = 0
    BY <1>1
  <2>5. /\ Cardinality({t \in Tasks : task[t] = "sending"}) = 0
        /\ Cardinality({t \in Tasks : task[t] = "count"}) = 0
    BY <2>1, <2>2
  <2>6. 0 = 0 + 0 - 0
    OBVIOUS
  <2> QED
    BY <2>3, <2>4, <2>5, <2>6, Zenon DEF CountedIsSent, Counted
<1>9. SnapshotTyped /\ ScrollInRange
  BY <1>1 DEF SnapshotTyped, ScrollInRange, EmptySnapshot
<1> QED
  BY <1>2, <1>4, <1>7, <1>8, <1>9 DEF CliInv

\* Every step of main, of the tracker and of the tasks preserves it.
LEMMA CliInvStep == CliInv /\ [CliNext]_allVars => CliInv'
<1> SUFFICES ASSUME CliInv, [CliNext]_allVars PROVE CliInv'
  OBVIOUS
<1>1. IInv'
  BY LockStep, IInvStep DEF CliInv
<1>2. CASE MainStep
  BY <1>1, <1>2, SpawnSteps, OutsideLoop, CaptureSteps, ShowSteps DEF MainStep
<1>3. CASE deadline_passes
  BY <1>1, <1>3, OutsideLoop
<1>4. CASE simulate_blockchain
  BY <1>1, <1>4, SimulationSteps
<1>5. CASE BackgroundStep /\ UNCHANGED cliVars
  <2>1. CASE run /\ UNCHANGED rpcVars
    BY <1>1, <1>5, <2>1, RunSteps
  <2>2. CASE \E t \in Tasks : Aborts(t)
    BY <1>1, <1>5, <2>2, SubscriptionSteps
  <2>3. CASE RpcStep
    BY <1>1, <1>5, <2>3, SpawnSteps, ConnectFails, BackfillSteps, SubscriptionSteps DEF RpcStep
  <2> QED
    BY <1>5, <2>1, <2>2, <2>3 DEF BackgroundStep
<1>6. CASE UNCHANGED allVars
  <2>1. UNCHANGED <<task, backfill, events, telemetry, tracker, version, main, connecting, uiVars>>
    BY <1>6 DEF allVars, lockVars, runtimeVars, rpcVars, cliVars
  <2>2. RuntimeTyped' /\ SpawnedOnce' /\ CountedIsSent' /\ ReceiverOutlivesSenders'
    BY <2>1, RuntimeStill
  <2>3. SnapshotTyped' /\ ScrollInRange'
    BY <2>1 DEF CliInv, SnapshotTyped, ScrollInRange, uiVars
  <2> QED
    BY <1>1, <2>2, <2>3 DEF CliInv
<1> QED
  BY <1>2, <1>3, <1>4, <1>5, <1>6 DEF CliNext

\* The invariant of the reachable states.
LEMMA CliInvariance == CliSpec => []CliInv
  BY CliInvInit, CliInvStep, PTL DEF CliSpec

\* What the telemetry counts is what the tracker is given, wherever the tasks are
\* aborted and however many blocks cannot be fetched.
THEOREM TelemetryIsExact == CliSpec => []CountedIsSent
<1>1. CliInv => CountedIsSent
  BY DEF CliInv
<1> QED
  BY <1>1, CliInvariance, PTL

\* main returns from a simulated run by joining, and the thread it has joined does
\* not come back.
LEMMA ExitStep == ExitAfterJoin /\ [CliNext]_allVars => ExitAfterJoin'
<1> SUFFICES ASSUME ExitAfterJoin, [CliNext]_allVars PROVE ExitAfterJoin'
  OBVIOUS
<1>1. tracker = "ended" => tracker' = "ended"
  BY LockStep
  DEF Next, TrackerStep, recv, write, apply, disconnected, query, estimated_blocks_to_confirm,
      QueryStep, read, call_gas_ahead, read_again, return, vars
<1>2. source' = source
  <2>1. args' = args
    BY DEF CliNext, MainStep, main_fails, main_simulated, main_connects, main_connected, capture,
           ask, guards, answer_first, answer_priority_queue, answer_find, answer_estimate, show,
           print, poll, set_stop, shutdown_live, shutdown_simulated, deadline_passes,
           simulate_blockchain, simulation_send, simulation_count, simulation_waited,
           simulation_block, simulation_stops, outerVars, cliVars, allVars
  <2> QED
    BY <2>1 DEF source
<1> HIDE DEF source
<1>3. CASE main' = main
  BY <1>1, <1>2, <1>3 DEF ExitAfterJoin
<1>4. CASE main' # main
  <2>1. MainStep \/ deadline_passes
    BY <1>4
    DEF CliNext, simulate_blockchain, simulation_send, simulation_count, simulation_waited,
        simulation_block, simulation_stops, cliVars, allVars
  <2>2. \/ main' \notin {"connect", "exited"}
        \/ main_fails \/ main_connects \/ main_connected \/ shutdown_live \/ shutdown_simulated
    BY <1>4, <2>1
    DEF MainStep, main_simulated, capture, ask, guards, answer_first, answer_priority_queue,
        answer_find, answer_estimate, show, print, poll, set_stop, deadline_passes
  <2>3. CASE main' \notin {"connect", "exited"}
    BY <2>3 DEF ExitAfterJoin
  <2>4. CASE main_fails \/ main_connects \/ shutdown_live
    BY <1>2, <1>4, <2>4
    DEF ExitAfterJoin, main_fails, main_connects, shutdown_live, drop_abort, drop_send
  <2>5. CASE main_connected
    BY <1>2, <2>5 DEF ExitAfterJoin, main_connected
  <2>6. CASE shutdown_simulated
    BY <1>1, <2>6 DEF ExitAfterJoin, shutdown_simulated
  <2> QED
    BY <2>2, <2>3, <2>4, <2>5, <2>6
<1> QED
  BY <1>3, <1>4

\* At the end of the tracker thread, and of main in a simulated run, what the
\* telemetry has counted is what was applied: no abort, stop flag or join comes
\* between a count and its event, or leaves an event in the channel.
THEOREM FinalCountIsExact == CliSpec => []FinalCountIsApplied
<1>1. CliInit => ExitAfterJoin
  BY DEF CliInit, ExitAfterJoin
<1>2. CliInv /\ ExitAfterJoin => FinalCountIsApplied
  <2> SUFFICES ASSUME CliInv, tracker = "ended" PROVE version = Counted
    BY DEF ExitAfterJoin, FinalCountIsApplied
  <2>1. Senders = {} /\ events = <<>>
    BY DEF CliInv, ReceiverOutlivesSenders
  <2>2. At("sending") = {} /\ At("count") = {}
    BY <2>1 DEF Senders, Spawned, At
  <2>3. Cardinality(At("sending")) = 0 /\ Cardinality(At("count")) = 0
    BY <2>2, FS_EmptySet
  <2>4. version \in Nat /\ Len(events) = 0
    BY <2>1, Numbers, EmptySeq DEF CliInv
  <2>5. Sent = version
    BY <2>4 DEF Sent
  <2>6. Counted = version + 0 - 0
    BY <2>3, <2>5, Zenon DEF CliInv, CountedIsSent, At
  <2> QED
    BY <2>4, <2>6
<1> QED
  BY <1>1, <1>2, ExitStep, CliInvariance, PTL DEF CliSpec

\* The rows that are shown are rows of the snapshot, for lists and terminals of any
\* size.
THEOREM ShownRowsExist == CliSpec => []ScrollInRange
<1>1. CliInv => ScrollInRange
  BY DEF CliInv
<1> QED
  BY <1>1, CliInvariance, PTL
=============================================================================
