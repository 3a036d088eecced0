------------------------------- MODULE Sender -------------------------------
(***************************************************************************)
(* The transaction orchestrator of crates/bulkmail/src/sender.rs, with the *)
(* Ethereum retry strategy of adapter/ethereum.rs, over NonceManager and   *)
(* an Ethereum node.                                                       *)
(*                                                                         *)
(* Actors: the callers of add_message; the task that drives run(); one     *)
(* spawned task for every message popped from the queue; the node.  An     *)
(* action is what one actor does between two await points at which it can  *)
(* be overtaken.                                                           *)
(*                                                                         *)
(* A message is moved from the caller to the queue, to its task and,       *)
(* maybe, back to the queue: pc[m] says where it is.                       *)
(***************************************************************************)
EXTENDS NonceManager, EthNode, FiniteSets

CONSTANTS
  MAX_IN_FLIGHT_TRANSACTIONS,  \* permits of the semaphore
  MAX_RETRIES,                 \* message.rs
  MAX_REPLACEMENTS,            \* adapter/ethereum.rs
  Adapter,                     \* "eth", or "any": a strategy that decides
                               \* freely and leaves the token to the Sender
  FeesCanFail,                 \* may FeeManager::get_fee_params return Err
  StreamCanClose,              \* may the block subscription end
  Priorities,                  \* effective priorities that occur
  Deadlined,                   \* the messages that carry a deadline
  MaxBlocks                    \* bound: block notifications in a behaviour

ASSUME SenderAssumption ==
  /\ MAX_IN_FLIGHT_TRANSACTIONS \in Nat \ {0}
  /\ MAX_RETRIES \in Nat \ {0}
  /\ MAX_REPLACEMENTS \in Nat
  /\ Attempts = 0 .. MAX_RETRIES
  /\ Adapter \in {"eth", "any"}
  /\ FeesCanFail \in BOOLEAN
  /\ StreamCanClose \in BOOLEAN
  /\ Priorities \subseteq Nat
  /\ Deadlined \subseteq Messages
  /\ MaxBlocks \in Nat
  /\ IsFiniteSet(Messages)
  /\ Foreign \notin Messages
  /\ Leftover \subseteq Nat

VARIABLES
  \* Sender
  queue,              \* PriorityQueue: entries keyed by the priority at push
  max_in_flight,      \* free permits of the semaphore
  message_ready,      \* Notify: is a notification stored
  notifying,          \* add_message calls between their push and notify_one
  \* run()
  loop,               \* where run() awaits
  on_chain_nonce,     \* local of sync_nonce, read by the RPC
  blocks,             \* notifications in block_stream
  stream_open,        \* is the sending half of block_stream alive
  blocks_left,        \* notifications the bound still allows
  \* the messages and their tasks
  pc,                 \* where the message is
  retry_count,        \* Message::retry_count
  replay_token,       \* the nonce its task was given
  replacement_count,  \* local of send_and_watch
  outcome,            \* how its task ends, once that is decided
  expired             \* the messages whose deadline has passed

queueVars == <<queue, message_ready, notifying>>
runVars == <<loop, on_chain_nonce, blocks, stream_open, blocks_left>>
taskVars == <<pc, retry_count, replay_token, replacement_count, outcome>>
vars == <<nonceVars, nodeVars, queueVars, max_in_flight, runVars, taskVars,
          expired>>

-----------------------------------------------------------------------------
\* The awaits of run() inside select!: the permit, the queue lock, the
\* notification.
SelectPoints == {"acquire", "lock", "notified"}

\* Besides: the subscription, the two halves of replay.sync(), and the moment
\* between finding the queue empty and waiting for the notification.
LoopPoints == SelectPoints \cup {"subscribe", "empty", "sync_fetch", "sync_apply", "stopped"}

\* The points of a task at which it holds a replay token.
HoldingPoints == {"fee", "sending", "watching", "confirm", "strategy_release", "release"}

\* The points at which a task holds a semaphore permit.
TaskPoints == HoldingPoints \cup {"spawned", "requeue"}

MessagePoints == TaskPoints \cup {"new", "queued", "done"}

Outcomes == {"none", "confirmed", "expired", "error", "max_retries", "abandoned", "requeued"}

Holding(m) == pc[m] \in HoldingPoints
Tasks == {m \in Messages : pc[m] \in TaskPoints}

\* The add_message calls of tasks that requeue, which hold a permit too.
PermitCalls == {call \in notifying : call.permit}

\* The transaction that the task of m signs or watches.
CurrentTx(m) ==
  [nonce |-> replay_token[m], msg |-> m, attempt |-> retry_count[m]]

AddCalls == [msg : Messages, retry : Attempts, permit : BOOLEAN]

QueueTypeOK ==
  /\ queue \subseteq [msg : Messages, effective_priority : Nat]
  /\ notifying \subseteq AddCalls
  /\ message_ready \in BOOLEAN
  /\ max_in_flight \in Nat

RunTypeOK ==
  /\ loop \in LoopPoints
  /\ on_chain_nonce \in Nat
  /\ blocks \in Nat
  /\ stream_open \in BOOLEAN
  /\ blocks_left \in Nat

TaskTypeOK ==
  /\ pc \in [Messages -> MessagePoints]
  /\ retry_count \in [Messages -> Attempts]
  /\ replay_token \in [Messages -> Nonces]
  /\ replacement_count \in [Messages -> Nat]
  /\ outcome \in [Messages -> Outcomes]
  /\ expired \subseteq Deadlined

\* The type invariant.
TypeOK ==
  /\ NonceTypeOK
  /\ NodeTypeOK
  /\ QueueTypeOK
  /\ RunTypeOK
  /\ TaskTypeOK

Init ==
  /\ NodeInit
  /\ new(account_nonce)
  /\ queue = {}
  /\ max_in_flight = MAX_IN_FLIGHT_TRANSACTIONS
  /\ message_ready = FALSE
  /\ notifying = {}
  /\ loop = "subscribe"
  /\ on_chain_nonce = 0
  /\ blocks = 0
  /\ stream_open = TRUE
  /\ blocks_left = MaxBlocks
  /\ pc = [m \in Messages |-> "new"]
  /\ retry_count = [m \in Messages |-> 0]
  /\ replay_token = [m \in Messages |-> 0]
  /\ replacement_count = [m \in Messages |-> 0]
  /\ outcome = [m \in Messages |-> "none"]
  /\ expired = {}

-----------------------------------------------------------------------------
(* add_message *)

\* PriorityQueue::push: the priority is computed once, here; an expired
\* message gets 0.
push(m) ==
  \E p \in Priorities :
    queue' = queue \cup
      {[msg |-> m, effective_priority |-> IF m \in expired THEN 0 ELSE p]}

\* A caller hands m over: the push, under the queue lock.
add_message(m) ==
  /\ pc[m] = "new"
  /\ push(m)
  /\ pc' = [pc EXCEPT ![m] = "queued"]
  /\ notifying' = notifying \cup {[msg |-> m, retry |-> retry_count[m], permit |-> FALSE]}
  /\ UNCHANGED <<nonceVars, nodeVars, message_ready, max_in_flight, runVars,
                 retry_count, replay_token, replacement_count, outcome, expired>>

\* Mutant: the message starts over with a fresh retry budget.
RequeueForgetsRetries(m) ==
  /\ pc[m] = "requeue"
  /\ push(m)
  /\ pc' = [pc EXCEPT ![m] = "queued"]
  /\ retry_count' = [retry_count EXCEPT ![m] = 0]
  /\ outcome' = [outcome EXCEPT ![m] = "none"]
  /\ notifying' = notifying \cup {[msg |-> m, retry |-> retry_count[m], permit |-> TRUE]}
  /\ UNCHANGED <<nonceVars, nodeVars, message_ready, max_in_flight, runVars,
                 replay_token, replacement_count, expired>>

\* The same from send_and_watch: the task holds its permit until add_message
\* has returned.
requeue(m) ==
  /\ pc[m] = "requeue"
  /\ push(m)
  /\ pc' = [pc EXCEPT ![m] = "queued"]
  /\ outcome' = [outcome EXCEPT ![m] = "none"]
  /\ notifying' = notifying \cup {[msg |-> m, retry |-> retry_count[m], permit |-> TRUE]}
  /\ UNCHANGED <<nonceVars, nodeVars, message_ready, max_in_flight, runVars,
                 retry_count, replay_token, replacement_count, expired>>

\* Mutant: wakes a waiter but stores nothing when there is none.
NotifyOnlyAWaiter(call) ==
  /\ call \in notifying
  /\ notifying' = notifying \ {call}
  /\ message_ready' = (message_ready \/ loop = "notified")
  /\ max_in_flight' = IF call.permit THEN max_in_flight + 1 ELSE max_in_flight
  /\ UNCHANGED <<nonceVars, nodeVars, queue, runVars, taskVars, expired>>

\* The second half of add_message: message_ready.notify_one().  It can run
\* after the message was popped, processed and even requeued.
notify_one(call) ==
  /\ call \in notifying
  /\ notifying' = notifying \ {call}
  /\ message_ready' = TRUE
  /\ max_in_flight' = IF call.permit THEN max_in_flight + 1 ELSE max_in_flight
  /\ UNCHANGED <<nonceVars, nodeVars, queue, runVars, taskVars, expired>>

-----------------------------------------------------------------------------
(* run() and process_next_message *)

\* subscribe_new_blocks().await?
subscribe ==
  /\ loop = "subscribe"
  /\ loop' \in {"acquire", "stopped"}
  /\ UNCHANGED <<nonceVars, nodeVars, queueVars, max_in_flight, on_chain_nonce,
                 blocks, stream_open, blocks_left, taskVars, expired>>

\* select! is biased: process_next_message is polled only when block_stream
\* has nothing to deliver.
ProcessArmPolled == blocks = 0 /\ stream_open

\* max_in_flight.acquire_owned().await
acquire ==
  /\ loop = "acquire"
  /\ ProcessArmPolled
  /\ max_in_flight > 0
  /\ max_in_flight' = max_in_flight - 1
  /\ loop' = "lock"
  /\ UNCHANGED <<nonceVars, nodeVars, queueVars, on_chain_nonce, blocks,
                 stream_open, blocks_left, taskVars, expired>>

\* PriorityQueue::pop takes a maximal entry.
pop(e) ==
  /\ e \in queue
  /\ \A f \in queue : f.effective_priority <= e.effective_priority
  /\ queue' = queue \ {e}

\* The queue lock is granted and there is a message: its task is spawned and
\* takes the permit along.
spawn ==
  /\ loop = "lock"
  /\ ProcessArmPolled
  /\ \E e \in queue :
       /\ pop(e)
       /\ pc' = [pc EXCEPT ![e.msg] = "spawned"]
  /\ loop' = "acquire"
  /\ UNCHANGED <<nonceVars, nodeVars, message_ready, notifying, max_in_flight,
                 on_chain_nonce, blocks, stream_open, blocks_left, retry_count,
                 replay_token, replacement_count, outcome, expired>>

\* The queue is empty: its lock and the permit are dropped.
find_empty ==
  /\ loop = "lock"
  /\ ProcessArmPolled
  /\ queue = {}
  /\ max_in_flight' = max_in_flight + 1
  /\ loop' = "empty"
  /\ UNCHANGED <<nonceVars, nodeVars, queueVars, on_chain_nonce, blocks,
                 stream_open, blocks_left, taskVars, expired>>

\* message_ready.notified() is polled for the first time, in the same poll of
\* run(): no block can come between, but an add_message can.
park ==
  /\ loop = "empty"
  /\ loop' = "notified"
  /\ UNCHANGED <<nonceVars, nodeVars, queueVars, max_in_flight, on_chain_nonce,
                 blocks, stream_open, blocks_left, taskVars, expired>>

\* message_ready.notified() completes and consumes the notification.
wake ==
  /\ loop = "notified"
  /\ ProcessArmPolled
  /\ message_ready
  /\ message_ready' = FALSE
  /\ loop' = "acquire"
  /\ UNCHANGED <<nonceVars, nodeVars, queue, notifying, max_in_flight,
                 on_chain_nonce, blocks, stream_open, blocks_left, taskVars, expired>>

\* Mutant: the cancelled future leaks the permit it had acquired.
CancelLeakingPermit == UNCHANGED max_in_flight

\* The block arm wins: the future of process_next_message is dropped at the
\* await it had reached, and with it the permit it may hold.
CancelProcessNextMessage ==
  max_in_flight' = IF loop = "lock" THEN max_in_flight + 1 ELSE max_in_flight

receive_block ==
  /\ loop \in SelectPoints
  /\ blocks > 0
  /\ blocks' = blocks - 1
  /\ CancelProcessNextMessage
  /\ loop' = "sync_fetch"
  /\ UNCHANGED <<nonceVars, nodeVars, queueVars, on_chain_nonce, stream_open,
                 blocks_left, taskVars, expired>>

\* recv() returns None: run() ends with SubscriptionClosed.
subscription_closed ==
  /\ loop \in SelectPoints
  /\ blocks = 0
  /\ ~stream_open
  /\ CancelProcessNextMessage
  /\ loop' = "stopped"
  /\ UNCHANGED <<nonceVars, nodeVars, queueVars, on_chain_nonce, blocks,
                 stream_open, blocks_left, taskVars, expired>>

\* sync_nonce, up to the answer of get_account_nonce; an error ends run().
sync_fetch ==
  /\ loop = "sync_fetch"
  /\ \/ /\ on_chain_nonce' = account_nonce
        /\ loop' = "sync_apply"
     \/ /\ loop' = "stopped"
        /\ UNCHANGED on_chain_nonce
  /\ UNCHANGED <<nonceVars, nodeVars, queueVars, max_in_flight, blocks,
                 stream_open, blocks_left, taskVars, expired>>

\* sync_nonce, once it has the lock; the value read may be old by now.
sync_apply ==
  /\ loop = "sync_apply"
  /\ update_current_nonce(on_chain_nonce)
  /\ on_chain_nonce' = 0
  /\ loop' = "acquire"
  /\ UNCHANGED <<nodeVars, queueVars, max_in_flight, blocks, stream_open,
                 blocks_left, taskVars, expired>>

-----------------------------------------------------------------------------
(* process_message and send_and_watch, in the task of m *)

\* The task goes on to release its token, and will end with outcome o.
GiveUp(m, o) ==
  /\ pc' = [pc EXCEPT ![m] = "release"]
  /\ outcome' = [outcome EXCEPT ![m] = o]

\* The head of the loop of send_and_watch: the message must not have expired.
SendUnlessExpired(m) ==
  IF m \in expired
  THEN GiveUp(m, "expired")
  ELSE /\ pc' = [pc EXCEPT ![m] = "sending"]
       /\ UNCHANGED outcome

\* process_message up to replay.next(): nothing is reserved for an expired
\* message; any other one is bound to the next nonce.
process_message(m) ==
  /\ pc[m] = "spawned"
  /\ \/ /\ m \in expired
        /\ pc' = [pc EXCEPT ![m] = "done"]
        /\ outcome' = [outcome EXCEPT ![m] = "expired"]
        /\ max_in_flight' = max_in_flight + 1
        /\ UNCHANGED <<nonceVars, replay_token, replacement_count>>
     \/ /\ m \notin expired
        /\ \E n \in Nonces :
             /\ get_next_available_nonce(n)
             /\ replay_token' = [replay_token EXCEPT ![m] = n]
        /\ replacement_count' = [replacement_count EXCEPT ![m] = 0]
        /\ pc' = [pc EXCEPT ![m] = "fee"]
        /\ UNCHANGED <<outcome, max_in_flight>>
  /\ UNCHANGED <<nodeVars, queueVars, runVars, retry_count, expired>>

\* Mutant: the error path returns without releasing the token.
FeeErrorWithoutRelease(m) ==
  /\ pc[m] = "fee"
  /\ \/ /\ FeesCanFail
        /\ pc' = [pc EXCEPT ![m] = "done"]
        /\ outcome' = [outcome EXCEPT ![m] = "error"]
        /\ max_in_flight' = max_in_flight + 1
     \/ SendUnlessExpired(m) /\ UNCHANGED max_in_flight
  /\ UNCHANGED <<nonceVars, nodeVars, queueVars, runVars,
                 retry_count, replay_token, replacement_count, expired>>

\* get_fee_params; on success send_and_watch is entered.
get_fee_params(m) ==
  /\ pc[m] = "fee"
  /\ \/ FeesCanFail /\ GiveUp(m, "error")
     \/ SendUnlessExpired(m)
  /\ UNCHANGED <<nonceVars, nodeVars, queueVars, max_in_flight, runVars,
                 retry_count, replay_token, replacement_count, expired>>

\* EthClient::send_transaction up to the registered watcher.  The node takes
\* the transaction; or it takes it and the task sees an error all the same (the
\* answer is lost, register() fails); or it refuses.
send_transaction(m) ==
  /\ pc[m] = "sending"
  /\ \/ /\ Accept(CurrentTx(m))
        /\ pc' = [pc EXCEPT ![m] = "watching"]
        /\ UNCHANGED outcome
     \/ /\ Accept(CurrentTx(m))
        /\ GiveUp(m, "error")
     \/ /\ GiveUp(m, "error")
        /\ UNCHANGED nodeVars
  /\ UNCHANGED <<nonceVars, queueVars, max_in_flight, runVars, retry_count,
                 replay_token, replacement_count, expired>>

\* Mutant: the status of the receipt is not looked at.
WatchConfirmedAnyStatus(m) ==
  /\ pc[m] = "watching"
  /\ CurrentTx(m) \in mined
  /\ pc' = [pc EXCEPT ![m] = "confirm"]
  /\ UNCHANGED <<nonceVars, nodeVars, queueVars, max_in_flight, runVars,
                 retry_count, replay_token, replacement_count, outcome, expired>>

\* The watcher reports the block and the receipt has status 1.
watch_confirmed(m) ==
  /\ pc[m] = "watching"
  /\ CurrentTx(m) \in mined \ reverted
  /\ pc' = [pc EXCEPT ![m] = "confirm"]
  /\ UNCHANGED <<nonceVars, nodeVars, queueVars, max_in_flight, runVars,
                 retry_count, replay_token, replacement_count, outcome, expired>>

\* Mutant: off by one.
CanRetryOnceMore(retries) == retries <= MAX_RETRIES

can_retry(retries) == retries < MAX_RETRIES

\* Mutant: requeues instead of replacing.
HandleDroppedRequeues(retries, replacements) ==
  IF can_retry(retries) THEN {"requeue"} ELSE {"abandon"}

\* RetryStrategy::handle_dropped, given the retry count before the increment.
handle_dropped(retries, replacements) ==
  IF Adapter = "any" THEN {"resubmit", "requeue", "abandon"}
  ELSE IF ~can_retry(retries) THEN {"abandon"}
  ELSE IF replacements >= MAX_REPLACEMENTS THEN {"requeue"}
  ELSE {"resubmit"}

\* The Ethereum strategy releases the nonce before it returns Requeue or
\* Abandon; send_and_watch then releases it again.
AfterDecision(m, o) ==
  /\ pc' = [pc EXCEPT ![m] = IF Adapter = "eth" THEN "strategy_release" ELSE "release"]
  /\ outcome' = [outcome EXCEPT ![m] = o]

\* The arm of send_and_watch for Dropped and Reverted.
OnDropped(m) ==
  /\ retry_count' = [retry_count EXCEPT ![m] = @ + 1]
  /\ IF ~can_retry(retry_count[m] + 1)
     THEN GiveUp(m, "max_retries") /\ UNCHANGED replacement_count
     ELSE \E d \in handle_dropped(retry_count[m], replacement_count[m]) :
            \/ /\ d = "resubmit"
               /\ replacement_count' = [replacement_count EXCEPT ![m] = @ + 1]
               /\ SendUnlessExpired(m)
            \/ /\ d \in {"requeue", "abandon"}
               /\ AfterDecision(m, IF d = "requeue" THEN "requeued" ELSE "abandoned")
               /\ UNCHANGED replacement_count

\* The receipt has status 0.
watch_reverted(m) ==
  /\ pc[m] = "watching"
  /\ CurrentTx(m) \in reverted
  /\ OnDropped(m)
  /\ UNCHANGED <<nonceVars, nodeVars, queueVars, max_in_flight, runVars,
                 replay_token, expired>>

\* TX_TIMEOUT passes, the watcher fails, or the receipt cannot be had: at any
\* time, also when the transaction has been mined.
watch_dropped(m) ==
  /\ pc[m] = "watching"
  /\ OnDropped(m)
  /\ UNCHANGED <<nonceVars, nodeVars, queueVars, max_in_flight, runVars,
                 replay_token, expired>>

\* EthRetryStrategy::handle_confirmed: confirm_nonce of the token itself.
handle_confirmed(m) ==
  /\ pc[m] = "confirm"
  /\ update_current_nonce(replay_token[m])
  /\ pc' = [pc EXCEPT ![m] = "done"]
  /\ outcome' = [outcome EXCEPT ![m] = "confirmed"]
  /\ max_in_flight' = max_in_flight + 1
  /\ UNCHANGED <<nodeVars, queueVars, runVars, retry_count, replay_token,
                 replacement_count, expired>>

\* release_nonce inside handle_dropped.
release_nonce(m) ==
  /\ pc[m] = "strategy_release"
  /\ mark_nonce_available(replay_token[m])
  /\ pc' = [pc EXCEPT ![m] = "release"]
  /\ UNCHANGED <<nodeVars, queueVars, max_in_flight, runVars, retry_count,
                 replay_token, replacement_count, outcome, expired>>

\* replay.release(&token), after which the task ends or requeues its message.
release(m) ==
  /\ pc[m] = "release"
  /\ mark_nonce_available(replay_token[m])
  /\ IF outcome[m] = "requeued"
     THEN /\ pc' = [pc EXCEPT ![m] = "requeue"]
          /\ UNCHANGED max_in_flight
     ELSE /\ pc' = [pc EXCEPT ![m] = "done"]
          /\ max_in_flight' = max_in_flight + 1
  /\ UNCHANGED <<nodeVars, queueVars, runVars, retry_count, replay_token,
                 replacement_count, outcome, expired>>

-----------------------------------------------------------------------------
(* The environment *)

\* Time passes the deadline of m.
Expire(m) ==
  /\ m \in Deadlined \ expired
  /\ expired' = expired \cup {m}
  /\ UNCHANGED <<nonceVars, nodeVars, queueVars, max_in_flight, runVars, taskVars>>

\* A header reaches block_stream through the two forwarding tasks.
NewBlock ==
  /\ stream_open
  /\ blocks_left > 0
  /\ blocks' = blocks + 1
  /\ blocks_left' = blocks_left - 1
  /\ UNCHANGED <<nonceVars, nodeVars, queueVars, max_in_flight, loop,
                 on_chain_nonce, stream_open, taskVars, expired>>

\* The websocket subscription ends or lags: the forwarders drop their sender.
CloseStream ==
  /\ StreamCanClose
  /\ stream_open
  /\ stream_open' = FALSE
  /\ UNCHANGED <<nonceVars, nodeVars, queueVars, max_in_flight, loop,
                 on_chain_nonce, blocks, blocks_left, taskVars, expired>>

NodeStep ==
  /\ Mine \/ Evict
  /\ UNCHANGED <<nonceVars, queueVars, max_in_flight, runVars, taskVars, expired>>

\* Everything has come to rest: there is no task left, no add_message call is
\* half done, and run() has returned or is parked on an empty queue.
AtRest ==
  /\ Tasks = {}
  /\ notifying = {}
  /\ \/ loop = "stopped"
     \/ loop = "notified" /\ queue = {} /\ ~message_ready

Rest == AtRest /\ UNCHANGED vars

-----------------------------------------------------------------------------
RunStep ==
  \/ subscribe \/ acquire \/ spawn \/ find_empty \/ park \/ wake
  \/ receive_block \/ subscription_closed \/ sync_fetch \/ sync_apply

TaskStep(m) ==
  \/ process_message(m) \/ get_fee_params(m) \/ send_transaction(m)
  \/ watch_confirmed(m) \/ watch_reverted(m) \/ watch_dropped(m)
  \/ handle_confirmed(m) \/ release_nonce(m) \/ release(m) \/ requeue(m)

Environment ==
  \/ \E m \in Messages : add_message(m) \/ Expire(m)
  \/ NewBlock \/ CloseStream \/ NodeStep

Next ==
  \/ RunStep
  \/ \E m \in Messages : TaskStep(m)
  \/ \E call \in notifying : notify_one(call)
  \/ Environment
  \/ Rest

Spec == Init /\ [][Next]_vars

\* Fairness.  The executor polls every task that can move: run(), each spawned
\* task, and an add_message call that has pushed.  A send or sync RPC returns or
\* fails in the end; a watcher has a timeout.  Callers, the node and the clock
\* owe nothing.
Fairness ==
  /\ WF_vars(RunStep)
  /\ \A m \in Messages : WF_vars(TaskStep(m))
  /\ WF_vars(\E call \in notifying : notify_one(call))

FairSpec == Spec /\ Fairness

-----------------------------------------------------------------------------
(* Properties *)

\* get_next_available_nonce promises "to prevent two concurrent tasks from
\* receiving the same nonce": no two tasks that may still sign with, or release,
\* their nonce hold the same one.  With the Ethereum strategy this rests on
\* Requeue and Abandon never being decided: their double release would give away
\* a nonce another task has been assigned between the two.
UniqueNonces ==
  \A m1, m2 \in Messages :
    Holding(m1) /\ Holding(m2) /\ m1 # m2 => replay_token[m1] # replay_token[m2]

\* A reserved nonce is always accounted for: a task holds it, or the chain has
\* consumed it.  A reservation that nobody releases would leave a gap that holds
\* up every later transaction of the account.  This is about the error paths of
\* process_message and send_and_watch, and sync_nonce's pruning.
NoLeakedNonce ==
  \A n \in in_flight :
    \/ n < account_nonce
    \/ \E m \in Messages : Holding(m) /\ replay_token[m] = n

\* With the Ethereum strategy a message takes effect at most once, whatever is
\* dropped late, answered late or replaced: of all the transactions that carry
\* it at most one is ever mined.
AtMostOnce ==
  \A t1, t2 \in mined :
    t1.msg = t2.msg /\ t1.msg # Foreign => t1 = t2

\* The local baseline never runs ahead of the chain, although it is moved by
\* confirmations and by sync results that arrive late and out of order: a
\* baseline too high would skip a nonce and no later transaction could be mined.
BaselineNotAhead == current <= account_nonce

\* send_and_watch never gets Requeue or Abandon from the Ethereum strategy, so
\* release_nonce never runs: the retry budget is used up first.
StrategyNeverReleases == \A m \in Messages : pc[m] # "strategy_release"

\* Every permit is free, held by the half-run process_next_message, or held by
\* one task: none is lost when select! cancels process_next_message, or
\* duplicated when a task requeues its message.  At most
\* MAX_IN_FLIGHT_TRANSACTIONS tasks exist at any time.
PermitsConserved ==
  max_in_flight
    + Cardinality(Tasks)
    + Cardinality(PermitCalls)
    + (IF loop = "lock" THEN 1 ELSE 0)
  = MAX_IN_FLIGHT_TRANSACTIONS

\* process_next_message never sleeps on a message: when it waits for
\* message_ready with no notification stored and no add_message about to store
\* one, the queue is empty.
NoLostWakeup ==
  loop = "notified" /\ ~message_ready /\ notifying = {} => queue = {}

\* Every message handed to add_message gets an outcome in the end, unless run()
\* has returned, in which case it may stay in the queue for good.
EveryMessageSettles ==
  \A m \in Messages :
    pc[m] # "new" ~> (pc[m] = "done" \/ (pc[m] = "queued" /\ loop = "stopped"))

\* What Delivery sees of a message at point p.
PhaseAt(p) ==
  CASE p = "new" -> "new"
    [] p = "queued" -> "waiting"
    [] p = "done" -> "ended"
    [] OTHER -> "active"

Phase == [m \in Messages |-> PhaseAt(pc[m])]
Executed == {m \in Messages : \E t \in mined \ reverted : t.msg = m}
Succeeded == {m \in Messages : outcome[m] = "confirmed"}

D == INSTANCE Delivery WITH
  Slots <- MAX_IN_FLIGHT_TRANSACTIONS,
  phase <- Phase,
  executed <- Executed,
  succeeded <- Succeeded

\* Sender with the Ethereum strategy implements Delivery: a message waits, is
\* active in one of MAX_IN_FLIGHT_TRANSACTIONS slots, ends once; it is executed
\* at most once, only after it was started, possibly after its task gave up; and
\* success is reported only for a message that was executed.
ImplementsDelivery == D!Spec

-----------------------------------------------------------------------------
(* What the documents say and the code does otherwise. *)

\* send_and_watch and docs/design.md: a reverted transaction is retried.  The
\* retry is signed with the nonce the reverted one has consumed, so no node can
\* accept it.
RevertedRetryIsAcceptable ==
  \A m \in Messages :
    pc[m] = "sending" /\ (\E t \in reverted : t.msg = m) => replay_token[m] >= account_nonce

-----------------------------------------------------------------------------
(* What the proofs in SenderProofs strengthen these properties with. *)

\* The queue holds the messages that are queued, each of them once.
QueueOwnsQueued ==
  /\ \A e \in queue : pc[e.msg] = "queued"
  /\ \A e, f \in queue : e.msg = f.msg => e = f

\* A message that may still be sent has retries left, also after a requeue.
RetryBudget ==
  \A m \in Messages :
    \/ pc[m] \in {"new", "queued", "spawned", "fee", "sending", "watching", "requeue"}
    \/ outcome[m] = "requeued"
    => can_retry(retry_count[m])

\* What is in a block is below the account's nonce, one transaction for each.
MinedInOrder ==
  /\ \A t \in mined : t.nonce < account_nonce
  /\ \A t1, t2 \in mined : t1.nonce = t2.nonce => t1 = t2

\* A task about to confirm has had its nonce consumed by the chain.
ConfirmingIsMined ==
  \A m \in Messages : pc[m] = "confirm" => replay_token[m] < account_nonce

\* What sync_nonce has read and not yet applied is not ahead of the chain.
FetchedNotAhead == on_chain_nonce <= account_nonce

\* No message is replaced more often than it is retried.
ReplacedAtMostRetried ==
  \A m \in Messages : replacement_count[m] <= retry_count[m]

\* A nonce that a task holds cannot be handed out again: it is reserved, or the
\* baseline has passed it.
HeldNotAvailable ==
  \A m \in Messages :
    Holding(m) => replay_token[m] \in in_flight \/ replay_token[m] < current

\* The Ethereum strategy sends no message back to the queue.
NeverRequeued ==
  \A m \in Messages :
    pc[m] \notin {"strategy_release", "requeue"} /\ outcome[m] # "requeued"

\* Every transaction carries the one nonce its message was ever given.
OneNoncePerMessage ==
  \A t \in mempool \cup mined :
    t.msg \in Messages =>
      /\ t.nonce = replay_token[t.msg]
      /\ pc[t.msg] \notin {"new", "queued", "spawned"}

\* Success is reported at the end, and a task about to report it has seen its
\* message executed.
ReportIsTrue ==
  \A m \in Messages :
    /\ outcome[m] = "confirmed" => pc[m] = "done"
    /\ pc[m] = "confirm" => m \in Executed

\* An add_message call past its push is from no later attempt than the current
\* one of its message; a task that requeues has seen one more failure than the
\* calls that requeued the message before.
CallsArePast ==
  /\ \A call \in notifying :
       /\ call.retry <= retry_count[call.msg]
       /\ outcome[call.msg] = "requeued" /\ call.permit => call.retry < retry_count[call.msg]
  /\ \A m \in Messages : pc[m] = "requeue" => outcome[m] = "requeued"

=============================================================================
