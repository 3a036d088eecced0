---------------------------- MODULE SenderProofs ----------------------------
(* Theorems about Sender, for every value of its constants. *)
EXTENDS Sender, TLAPS

USE NoncesAssumption, SenderAssumption

(* Types of the variables, and who owns a message. *)

\* The initial state is well typed.
LEMMA TypeInit == Init => TypeOK /\ RetryBudget
<1> SUFFICES ASSUME Init PROVE TypeOK /\ RetryBudget
  OBVIOUS
<1> USE DEF Init
<1>1. NonceTypeOK
  BY DEF new, NonceTypeOK, NodeInit
<1>2. NodeTypeOK
  BY DEF NodeInit, NodeTypeOK, Tx
<1>3. QueueTypeOK
  BY Zenon DEF QueueTypeOK
<1>4. RunTypeOK
  BY DEF RunTypeOK, LoopPoints
<1>5. TaskTypeOK
  BY DEF TaskTypeOK, MessagePoints, Outcomes
<1>6. RetryBudget
  BY DEF RetryBudget, can_retry
<1>7. QED
  BY <1>1, <1>2, <1>3, <1>4, <1>5, <1>6 DEF TypeOK

\* The transaction a task signs is well typed.
LEMMA CurrentTxType ==
  ASSUME TypeOK, NEW m \in Messages
  PROVE  CurrentTx(m) \in Tx
BY Zenon DEF TypeOK, TaskTypeOK, CurrentTx, Tx

\* PriorityQueue::push keeps the queue well typed.
LEMMA PushType ==
  ASSUME TypeOK, NEW m \in Messages, push(m)
  PROVE  queue' \subseteq [msg : Messages, effective_priority : Nat]
<1>1. PICK p \in Priorities :
        queue' = queue \cup
          {[msg |-> m, effective_priority |-> IF m \in expired THEN 0 ELSE p]}
  BY DEF push
<1>2. (IF m \in expired THEN 0 ELSE p) \in Nat
  OBVIOUS
<1>3. QED
  BY <1>1, <1>2 DEF TypeOK, QueueTypeOK

\* The Dropped | Reverted arm of send_and_watch keeps the task well typed and
\* leaves retries to every message that will be sent again.
LEMMA DroppedType ==
  ASSUME TypeOK, RetryBudget, NEW m \in Messages, pc[m] = "watching",
         OnDropped(m), UNCHANGED <<replay_token, expired>>
  PROVE  TaskTypeOK' /\ RetryBudget'
<1> USE DEF TypeOK, TaskTypeOK
<1>1. can_retry(retry_count[m])
  BY DEF RetryBudget
<1>2. retry_count' = [retry_count EXCEPT ![m] = @ + 1]
  BY DEF OnDropped
<1>3. retry_count' \in [Messages -> Attempts]
  BY <1>1, <1>2 DEF can_retry
<1>4. replacement_count' \in [Messages -> Nat]
  BY DEF OnDropped
<1>5. \E p \in {"release", "sending", "strategy_release"} : pc' = [pc EXCEPT ![m] = p]
  BY DEF OnDropped, GiveUp, SendUnlessExpired, AfterDecision
<1>6. \/ outcome' = outcome
      \/ \E o \in Outcomes : outcome' = [outcome EXCEPT ![m] = o]
  BY DEF OnDropped, GiveUp, SendUnlessExpired, AfterDecision, Outcomes
<1>7. TaskTypeOK'
  <2>1. pc' \in [Messages -> MessagePoints]
    BY <1>5 DEF MessagePoints, TaskPoints, HoldingPoints
  <2>2. outcome' \in [Messages -> Outcomes]
    <3>1. CASE outcome' = outcome
      BY Zenon, <3>1
    <3>2. CASE \E o \in Outcomes : outcome' = [outcome EXCEPT ![m] = o]
      BY <3>2
    <3>3. QED
      BY Zenon, <1>6, <3>1, <3>2
  <2>3. QED
    BY <2>1, <2>2, <1>3, <1>4
<1>8. ~can_retry(retry_count[m] + 1) =>
        pc'[m] = "release" /\ outcome'[m] = "max_retries"
  BY DEF OnDropped, GiveUp
<1>9. RetryBudget'
  BY <1>2, <1>5, <1>6, <1>8 DEF RetryBudget, can_retry
<1>10. QED
  BY <1>7, <1>9

\* Every step keeps the types and the retry budget.
LEMMA TypeNext ==
  TypeOK /\ RetryBudget /\ QueueOwnsQueued /\ [Next]_vars => TypeOK' /\ RetryBudget'
<1> SUFFICES ASSUME TypeOK, RetryBudget, QueueOwnsQueued, [Next]_vars
             PROVE  TypeOK' /\ RetryBudget'
  OBVIOUS
<1> USE DEF TypeOK, NonceTypeOK, NodeTypeOK, QueueTypeOK, RunTypeOK, TaskTypeOK,
            nonceVars, nodeVars, queueVars, runVars, taskVars
<1>1. CASE subscribe \/ find_empty \/ park \/ wake
  <2>1. CASE subscribe
    BY <2>1 DEF subscribe, LoopPoints, SelectPoints, RetryBudget
  <2>2. CASE find_empty
    BY <2>2 DEF find_empty, LoopPoints, RetryBudget
  <2>3. CASE park \/ wake
    BY Zenon, <2>3 DEF park, wake, LoopPoints, SelectPoints, RetryBudget
  <2>4. QED
    BY Zenon, <1>1, <2>1, <2>2, <2>3
<1>2. CASE acquire
  BY <1>2 DEF acquire, LoopPoints, SelectPoints, RetryBudget
<1>3. CASE spawn
  <2>1. PICK e \in queue : pc' = [pc EXCEPT ![e.msg] = "spawned"] /\ queue' = queue \ {e}
    BY Zenon, <1>3 DEF spawn, pop
  <2>2. e.msg \in Messages
    OBVIOUS
  <2>3. TypeOK'
    BY <1>3, <2>1, <2>2 DEF spawn, LoopPoints, SelectPoints, MessagePoints, TaskPoints
  <2>4. RetryBudget'
    BY <1>3, <2>1, <2>2 DEF spawn, RetryBudget, QueueOwnsQueued
  <2>5. QED
    BY Zenon, <2>3, <2>4
<1>4. CASE receive_block \/ subscription_closed
  <2>1. CASE receive_block
    BY <2>1 DEF receive_block, CancelProcessNextMessage, LoopPoints, RetryBudget
  <2>2. CASE subscription_closed
    BY <2>2 DEF subscription_closed, CancelProcessNextMessage, LoopPoints, RetryBudget
  <2>3. QED
    BY SMTT(30), <1>4, <2>1, <2>2
<1>5. CASE sync_fetch
  BY <1>5 DEF sync_fetch, LoopPoints, RetryBudget
<1>6. CASE sync_apply
  BY Zenon, <1>6 DEF sync_apply, update_current_nonce, LoopPoints, SelectPoints, RetryBudget
<1>7. ASSUME NEW m \in Messages, process_message(m)
      PROVE  TypeOK' /\ RetryBudget'
  <2>1. CASE m \in expired
    <3>1. /\ pc' = [pc EXCEPT ![m] = "done"]
          /\ outcome' = [outcome EXCEPT ![m] = "expired"]
          /\ max_in_flight' = max_in_flight + 1
          /\ UNCHANGED <<nonceVars, replay_token, replacement_count>>
      BY <1>7, <2>1 DEF process_message
    <3>2. UNCHANGED <<nodeVars, queueVars, runVars, retry_count, expired>>
      BY <1>7 DEF process_message
    <3>3. TypeOK'
      BY <3>1, <3>2 DEF MessagePoints, Outcomes
    <3>4. RetryBudget'
      BY <3>1, <3>2 DEF RetryBudget, can_retry
    <3>5. QED
      BY Zenon, <3>3, <3>4
  <2>2. CASE m \notin expired
    <3>1. PICK n \in Nonces :
            /\ get_next_available_nonce(n)
            /\ replay_token' = [replay_token EXCEPT ![m] = n]
      BY <1>7, <2>2 DEF process_message
    <3>2. /\ pc' = [pc EXCEPT ![m] = "fee"]
          /\ replacement_count' = [replacement_count EXCEPT ![m] = 0]
          /\ UNCHANGED <<outcome, max_in_flight, retry_count, expired>>
      BY <1>7, <2>2 DEF process_message
    <3>3. NonceTypeOK'
      BY <3>1 DEF get_next_available_nonce
    <3>4. NodeTypeOK' /\ QueueTypeOK' /\ RunTypeOK'
      BY <1>7, <3>2 DEF process_message
    <3>5. TaskTypeOK'
      BY <3>1, <3>2 DEF MessagePoints, TaskPoints, HoldingPoints
    <3>6. RetryBudget'
      BY <1>7, <3>2 DEF process_message, RetryBudget, can_retry
    <3>7. QED
      BY Zenon, <3>3, <3>4, <3>5, <3>6
  <2>3. QED
    BY Zenon, <2>1, <2>2
<1>8. ASSUME NEW m \in Messages, get_fee_params(m)
      PROVE  TypeOK' /\ RetryBudget'
  BY ZenonT(60), <1>8 DEF get_fee_params, GiveUp, SendUnlessExpired, MessagePoints, TaskPoints, HoldingPoints,
              Outcomes, RetryBudget, can_retry
<1>9. ASSUME NEW m \in Messages, send_transaction(m)
      PROVE  TypeOK' /\ RetryBudget'
  <2>1. NodeTypeOK'
    BY <1>9, CurrentTxType DEF send_transaction, Accept
  <2>2. NonceTypeOK' /\ QueueTypeOK' /\ RunTypeOK'
    BY <1>9 DEF send_transaction
  <2>3. TaskTypeOK'
    BY Zenon, <1>9 DEF send_transaction, GiveUp, MessagePoints, TaskPoints, HoldingPoints, Outcomes
  <2>4. RetryBudget'
    BY <1>9 DEF send_transaction, GiveUp, RetryBudget, can_retry
  <2>5. QED
    BY Zenon, <2>1, <2>2, <2>3, <2>4
<1>10. ASSUME NEW m \in Messages, watch_confirmed(m)
      PROVE  TypeOK' /\ RetryBudget'
  BY <1>10 DEF watch_confirmed, MessagePoints, TaskPoints, HoldingPoints, RetryBudget, can_retry
<1>11. ASSUME NEW m \in Messages, watch_reverted(m) \/ watch_dropped(m)
      PROVE  TypeOK' /\ RetryBudget'
  <2>1. NonceTypeOK' /\ NodeTypeOK' /\ QueueTypeOK' /\ RunTypeOK'
    BY Zenon, <1>11 DEF watch_reverted, watch_dropped
  <2>2. TaskTypeOK' /\ RetryBudget'
    BY Zenon, <1>11, DroppedType DEF watch_reverted, watch_dropped
  <2>3. QED
    BY Zenon, <2>1, <2>2
<1>12. ASSUME NEW m \in Messages, handle_confirmed(m)
      PROVE  TypeOK' /\ RetryBudget'
  <2>0. QueueTypeOK'
    BY <1>12 DEF handle_confirmed
  <2>1. NonceTypeOK' /\ NodeTypeOK' /\ RunTypeOK'
    BY Zenon, <1>12 DEF handle_confirmed, update_current_nonce
  <2>2. TaskTypeOK'
    BY <1>12 DEF handle_confirmed, MessagePoints, Outcomes
  <2>3. RetryBudget'
    BY <1>12 DEF handle_confirmed, RetryBudget, can_retry
  <2>4. QED
    BY Zenon, <2>0, <2>1, <2>2, <2>3
<1>13. ASSUME NEW m \in Messages, release_nonce(m)
      PROVE  TypeOK' /\ RetryBudget'
  BY Zenon, <1>13 DEF release_nonce, mark_nonce_available, MessagePoints, TaskPoints, HoldingPoints,
               RetryBudget, can_retry
<1>14. ASSUME NEW m \in Messages, release(m)
      PROVE  TypeOK' /\ RetryBudget'
  <2>0. QueueTypeOK'
    BY <1>14 DEF release
  <2>1. NonceTypeOK' /\ NodeTypeOK' /\ RunTypeOK'
    BY Zenon, <1>14 DEF release, mark_nonce_available
  <2>2. TaskTypeOK'
    BY Zenon, <1>14 DEF release, MessagePoints, TaskPoints
  <2>3. RetryBudget'
    BY <1>14 DEF release, RetryBudget, can_retry
  <2>4. QED
    BY Zenon, <2>0, <2>1, <2>2, <2>3
<1>15. ASSUME NEW m \in Messages, requeue(m)
      PROVE  TypeOK' /\ RetryBudget'
  <2>1. QueueTypeOK'
    <3>1. [msg |-> m, retry |-> retry_count[m], permit |-> TRUE] \in AddCalls
      BY DEF AddCalls
    <3>2. push(m)
      BY <1>15 DEF requeue
    <3>3. QED
      BY Zenon, <1>15, <3>1, <3>2, PushType DEF requeue
  <2>2. NonceTypeOK' /\ NodeTypeOK' /\ RunTypeOK'
    BY <1>15 DEF requeue
  <2>3. TaskTypeOK'
    BY <1>15 DEF requeue, MessagePoints, Outcomes
  <2>4. RetryBudget'
    BY <1>15 DEF requeue, RetryBudget, can_retry
  <2>5. QED
    BY Zenon, <2>1, <2>2, <2>3, <2>4
<1>16. ASSUME NEW m \in Messages, add_message(m)
      PROVE  TypeOK' /\ RetryBudget'
  <2>1. QueueTypeOK'
    <3>1. [msg |-> m, retry |-> retry_count[m], permit |-> FALSE] \in AddCalls
      BY DEF AddCalls
    <3>2. push(m)
      BY <1>16 DEF add_message
    <3>3. QED
      BY Zenon, <1>16, <3>1, <3>2, PushType DEF add_message
  <2>2. NonceTypeOK' /\ NodeTypeOK' /\ RunTypeOK'
    BY <1>16 DEF add_message
  <2>3. TaskTypeOK'
    BY <1>16 DEF add_message, MessagePoints, Outcomes
  <2>4. RetryBudget'
    BY <1>16 DEF add_message, RetryBudget, can_retry
  <2>5. QED
    BY Zenon, <2>1, <2>2, <2>3, <2>4
<1>17. ASSUME NEW call \in notifying, notify_one(call)
      PROVE  TypeOK' /\ RetryBudget'
  BY <1>17 DEF notify_one, RetryBudget
<1>18. ASSUME NEW m \in Messages, Expire(m)
      PROVE  TypeOK' /\ RetryBudget'
  BY <1>18 DEF Expire, RetryBudget
<1>19. CASE NewBlock \/ CloseStream
  <2>1. CASE NewBlock
    BY <2>1 DEF NewBlock, RetryBudget
  <2>2. CASE CloseStream
    BY ZenonT(60), <2>2 DEF CloseStream, RetryBudget
  <2>3. QED
    BY Zenon, <1>19, <2>1, <2>2
<1>20. CASE NodeStep
  BY <1>20 DEF NodeStep, Mine, Evict, Tx, RetryBudget
<1>21. CASE UNCHANGED vars
  BY <1>21 DEF vars, RetryBudget
<1>22. QED
  BY ZenonT(60), <1>1, <1>2, <1>3, <1>4, <1>5, <1>6, <1>7, <1>8, <1>9, <1>10, <1>11, <1>12, <1>13, <1>14,
     <1>15, <1>16, <1>17, <1>18, <1>19, <1>20, <1>21
     DEF Next, RunStep, TaskStep, Environment, Rest

\* A step of run() other than spawn and the two of sync_nonce, of an add_message call past
\* its push, or of the environment outside the node, touches neither a task, nor
\* the nonces, nor the node.
LEMMA QuietStep ==
  ASSUME \/ subscribe \/ acquire \/ find_empty \/ park \/ wake \/ receive_block
         \/ subscription_closed
         \/ \E call \in notifying : notify_one(call)
         \/ \E m \in Messages : Expire(m)
         \/ NewBlock \/ CloseStream \/ Rest \/ UNCHANGED vars
  PROVE  UNCHANGED <<nonceVars, nodeVars, queue, taskVars, on_chain_nonce>>
BY DEF subscribe, acquire, find_empty, park, wake, receive_block, subscription_closed, notify_one,
       Expire, NewBlock, CloseStream, Rest, vars, queueVars, runVars

\* A step of a task other than a requeue moves that task only, to a point past
\* the queue.
LEMMA TaskStepMovesOne ==
  ASSUME NEW m \in Messages, TaskStep(m), ~requeue(m)
  PROVE  /\ pc[m] \in TaskPoints
         /\ \E p \in HoldingPoints \cup {"requeue", "done"} : pc' = [pc EXCEPT ![m] = p]
         /\ queue' = queue
<1> USE DEF TaskPoints, HoldingPoints
<1>1. CASE process_message(m)
  BY <1>1 DEF process_message, queueVars
<1>2. CASE get_fee_params(m)
  BY <1>2 DEF get_fee_params, GiveUp, SendUnlessExpired, queueVars
<1>3. CASE send_transaction(m)
  BY <1>3 DEF send_transaction, GiveUp, queueVars
<1>4. CASE watch_confirmed(m)
  BY <1>4 DEF watch_confirmed, queueVars
<1>5. CASE watch_reverted(m)
  BY <1>5 DEF watch_reverted, OnDropped, GiveUp, SendUnlessExpired, AfterDecision, queueVars
<1>6. CASE watch_dropped(m)
  BY <1>6 DEF watch_dropped, OnDropped, GiveUp, SendUnlessExpired, AfterDecision, queueVars
<1>7. CASE handle_confirmed(m)
  BY <1>7 DEF handle_confirmed, queueVars
<1>8. CASE release_nonce(m)
  BY <1>8 DEF release_nonce, queueVars
<1>9. CASE release(m)
  BY <1>9 DEF release, queueVars
<1>10. QED
  BY <1>1, <1>2, <1>3, <1>4, <1>5, <1>6, <1>7, <1>8, <1>9 DEF TaskStep

\* The queue and the program counters agree.
LEMMA OwnershipNext ==
  TypeOK /\ QueueOwnsQueued /\ [Next]_vars => QueueOwnsQueued'
<1> SUFFICES ASSUME TypeOK, QueueOwnsQueued, [Next]_vars
             PROVE  QueueOwnsQueued'
  OBVIOUS
<1> USE DEF QueueOwnsQueued
<1>1. CASE UNCHANGED <<queue, pc>>
  BY <1>1
<1>2. CASE spawn
  <2>1. PICK e \in queue : pc' = [pc EXCEPT ![e.msg] = "spawned"] /\ queue' = queue \ {e}
    BY Zenon, <1>2 DEF spawn, pop
  <2>2. QED
    BY <2>1 DEF TypeOK, QueueTypeOK, TaskTypeOK
<1>3. ASSUME NEW m \in Messages, push(m), pc[m] # "queued", pc' = [pc EXCEPT ![m] = "queued"]
      PROVE  QueueOwnsQueued'
  <2>1. PICK p \in Priorities :
          queue' = queue \cup
            {[msg |-> m, effective_priority |-> IF m \in expired THEN 0 ELSE p]}
    BY <1>3 DEF push
  <2>2. QED
    BY <1>3, <2>1 DEF TypeOK, QueueTypeOK, TaskTypeOK
<1>4. ASSUME NEW m \in Messages, TaskStep(m)
      PROVE  QueueOwnsQueued'
  <2>1. CASE requeue(m)
    BY Zenon, <1>3, <2>1 DEF requeue
  <2>2. CASE ~requeue(m)
    <3>1. pc[m] # "queued"
      BY <1>4, <2>2, TaskStepMovesOne DEF TaskPoints, HoldingPoints
    <3>2. QED
      BY <1>4, <2>2, <3>1, TaskStepMovesOne DEF TypeOK, QueueTypeOK, TaskTypeOK
  <2>3. QED
    BY <2>1, <2>2
<1>5. ASSUME NEW m \in Messages, add_message(m)
      PROVE  QueueOwnsQueued'
  BY Zenon, <1>3, <1>5 DEF add_message
<1>6. CASE NodeStep
  BY <1>1, <1>6 DEF NodeStep, queueVars, taskVars
<1>7. CASE sync_fetch \/ sync_apply
  BY <1>1, <1>7 DEF sync_fetch, sync_apply, queueVars, taskVars
<1>8. QED
  BY <1>1, <1>2, <1>4, <1>5, <1>6, <1>7, QuietStep
     DEF Next, RunStep, Environment, taskVars

-----------------------------------------------------------------------------
(* The nonces and the chain, for any retry strategy. *)

ChainInv ==
  /\ MinedInOrder
  /\ ConfirmingIsMined
  /\ FetchedNotAhead
  /\ BaselineNotAhead
  /\ NoLeakedNonce

\* A task that moves without touching the nonces keeps ChainInv when it holds
\* its token both before and after, or neither before nor after.
LEMMA ChainMove ==
  ASSUME TypeOK, ChainInv, NEW m \in Messages, NEW p \in MessagePoints,
         pc' = [pc EXCEPT ![m] = p],
         p # "confirm" \/ replay_token[m] < account_nonce,
         pc[m] \in HoldingPoints <=> p \in HoldingPoints,
         \A n \in Messages : pc[n] \in HoldingPoints => replay_token'[n] = replay_token[n],
         UNCHANGED <<nonceVars, account_nonce, mined, on_chain_nonce>>
  PROVE  ChainInv'
<1> USE DEF TypeOK, TaskTypeOK, ChainInv, nonceVars
<1>1. MinedInOrder' /\ FetchedNotAhead' /\ BaselineNotAhead'
  BY DEF MinedInOrder, FetchedNotAhead, BaselineNotAhead
<1>2. ConfirmingIsMined'
  BY DEF ConfirmingIsMined, HoldingPoints
<1>3. \A k \in Messages : Holding(k) => Holding(k)' /\ replay_token'[k] = replay_token[k]
  BY DEF Holding
<1>4. NoLeakedNonce'
  BY ZenonT(60), <1>3 DEF NoLeakedNonce
<1>5. QED
  BY <1>1, <1>2, <1>4

\* Every step keeps ChainInv.
LEMMA ChainNext ==
  TypeOK /\ QueueOwnsQueued /\ ChainInv /\ [Next]_vars => ChainInv'
<1> SUFFICES ASSUME TypeOK, QueueOwnsQueued, ChainInv, [Next]_vars
             PROVE  ChainInv'
  OBVIOUS
<1> USE DEF nonceVars, nodeVars, runVars, taskVars, TaskPoints, HoldingPoints, MessagePoints
<1>1. CASE UNCHANGED <<nonceVars, nodeVars, taskVars, on_chain_nonce>>
  BY <1>1 DEF ChainInv, MinedInOrder, ConfirmingIsMined, FetchedNotAhead, BaselineNotAhead,
              NoLeakedNonce, Holding
<1>2. CASE sync_fetch
  <2>1. MinedInOrder' /\ BaselineNotAhead' /\ FetchedNotAhead'
    BY <1>2 DEF sync_fetch, ChainInv, MinedInOrder, FetchedNotAhead, BaselineNotAhead,
                TypeOK, NodeTypeOK
  <2>2. ConfirmingIsMined' /\ NoLeakedNonce'
    BY <1>2 DEF sync_fetch, ChainInv, ConfirmingIsMined, NoLeakedNonce, Holding
  <2>3. QED
    BY <2>1, <2>2 DEF ChainInv
<1>3. CASE sync_apply
  <2>1. MinedInOrder' /\ ConfirmingIsMined' /\ FetchedNotAhead'
    BY <1>3 DEF sync_apply, ChainInv, MinedInOrder, ConfirmingIsMined, FetchedNotAhead,
                TypeOK, NodeTypeOK
  <2>2. BaselineNotAhead'
    BY <1>3 DEF sync_apply, update_current_nonce, ChainInv, FetchedNotAhead, BaselineNotAhead
  <2>3. NoLeakedNonce'
    BY <1>3 DEF sync_apply, update_current_nonce, ChainInv, NoLeakedNonce, Holding
  <2>4. QED
    BY <2>1, <2>2, <2>3 DEF ChainInv
<1>4. CASE spawn
  <2>1. PICK e \in queue : pc' = [pc EXCEPT ![e.msg] = "spawned"]
    BY ZenonT(60), <1>4 DEF spawn
  <2>2. QED
    BY Zenon, <1>4, <2>1, ChainMove DEF spawn, TypeOK, QueueTypeOK, QueueOwnsQueued
<1>5. ASSUME NEW m \in Messages, process_message(m)
      PROVE  ChainInv'
  <2>1. CASE m \in expired
    BY <1>5, <2>1, ChainMove DEF process_message
  <2>2. CASE m \notin expired
    <3>1. PICK n \in Nonces :
            /\ get_next_available_nonce(n)
            /\ replay_token' = [replay_token EXCEPT ![m] = n]
            /\ pc' = [pc EXCEPT ![m] = "fee"]
      BY <1>5, <2>2 DEF process_message
    <3>2. MinedInOrder' /\ ConfirmingIsMined' /\ FetchedNotAhead' /\ BaselineNotAhead'
      BY <1>5, <3>1 DEF process_message, get_next_available_nonce, ChainInv, MinedInOrder,
                        ConfirmingIsMined, FetchedNotAhead, BaselineNotAhead, TypeOK, TaskTypeOK
    <3>3. NoLeakedNonce'
      <4>1. \A k \in Messages : Holding(k) => Holding(k)' /\ replay_token'[k] = replay_token[k]
        BY <1>5, <3>1 DEF process_message, Holding, TypeOK, TaskTypeOK
      <4>2. Holding(m)' /\ replay_token'[m] = n
        BY <3>1 DEF Holding, TypeOK, TaskTypeOK
      <4>3. in_flight' = in_flight \cup {n} /\ account_nonce' = account_nonce
        BY <1>5, <3>1 DEF process_message, get_next_available_nonce
      <4>4. QED
        BY <4>1, <4>2, <4>3 DEF ChainInv, NoLeakedNonce
    <3>4. QED
      BY <3>2, <3>3 DEF ChainInv
  <2>3. QED
    BY <2>1, <2>2
<1>6. ASSUME NEW m \in Messages, get_fee_params(m)
      PROVE  ChainInv'
  <2>1. PICK p \in {"release", "sending"} : pc' = [pc EXCEPT ![m] = p]
    BY <1>6 DEF get_fee_params, GiveUp, SendUnlessExpired
  <2>2. QED
    BY Zenon, <1>6, <2>1, ChainMove DEF get_fee_params
<1>7. ASSUME NEW m \in Messages, send_transaction(m)
      PROVE  ChainInv'
  <2>1. PICK p \in {"release", "watching"} : pc' = [pc EXCEPT ![m] = p]
    BY <1>7 DEF send_transaction, GiveUp
  <2>2. UNCHANGED <<account_nonce, mined>>
    BY <1>7 DEF send_transaction, Accept
  <2>3. QED
    BY Zenon, <1>7, <2>1, <2>2, ChainMove DEF send_transaction
<1>8. ASSUME NEW m \in Messages, watch_confirmed(m)
      PROVE  ChainInv'
  <2>1. replay_token[m] < account_nonce
    BY <1>8 DEF watch_confirmed, CurrentTx, ChainInv, MinedInOrder
  <2>2. QED
    BY ZenonT(60), <1>8, <2>1, ChainMove DEF watch_confirmed
<1>9. ASSUME NEW m \in Messages, watch_reverted(m) \/ watch_dropped(m)
      PROVE  ChainInv'
  <2>1. PICK p \in {"release", "sending", "strategy_release"} : pc' = [pc EXCEPT ![m] = p]
    BY <1>9 DEF watch_reverted, watch_dropped, OnDropped, GiveUp, SendUnlessExpired, AfterDecision
  <2>2. QED
    BY ZenonT(60), <1>9, <2>1, ChainMove DEF watch_reverted, watch_dropped
<1>10. ASSUME NEW m \in Messages, handle_confirmed(m)
      PROVE  ChainInv'
  <2>1. replay_token[m] < account_nonce
    BY <1>10 DEF handle_confirmed, ChainInv, ConfirmingIsMined
  <2>2. MinedInOrder' /\ ConfirmingIsMined' /\ FetchedNotAhead'
    BY <1>10 DEF handle_confirmed, ChainInv, MinedInOrder, ConfirmingIsMined, FetchedNotAhead,
                 TypeOK, TaskTypeOK
  <2>3. BaselineNotAhead'
    <3>1. replay_token[m] \in Nat /\ account_nonce \in Nat
      BY Zenon DEF TypeOK, TaskTypeOK, NodeTypeOK
    <3>2. current' \in {current, replay_token[m]} /\ account_nonce' = account_nonce
      BY <1>10 DEF handle_confirmed, update_current_nonce
    <3>3. QED
      BY <2>1, <3>1, <3>2 DEF ChainInv, BaselineNotAhead
  <2>4. NoLeakedNonce'
    <3>1. in_flight' \subseteq in_flight /\ account_nonce' = account_nonce
      BY <1>10 DEF handle_confirmed, update_current_nonce
    <3>2. \A k \in Messages \ {m} : Holding(k) => Holding(k)' /\ replay_token'[k] = replay_token[k]
      BY <1>10 DEF handle_confirmed, Holding, TypeOK, TaskTypeOK
    <3>3. QED
      BY <2>1, <3>1, <3>2 DEF ChainInv, NoLeakedNonce
  <2>5. QED
    BY <2>2, <2>3, <2>4 DEF ChainInv
<1>11. ASSUME NEW m \in Messages, release_nonce(m) \/ release(m)
      PROVE  ChainInv'
  <2>1. in_flight' = in_flight \ {replay_token[m]}
    BY <1>11 DEF release_nonce, release, mark_nonce_available
  <2>2. MinedInOrder' /\ ConfirmingIsMined' /\ FetchedNotAhead' /\ BaselineNotAhead'
    BY <1>11 DEF release_nonce, release, mark_nonce_available, ChainInv, MinedInOrder,
                 ConfirmingIsMined, FetchedNotAhead, BaselineNotAhead, TypeOK, TaskTypeOK
  <2>3. \A k \in Messages \ {m} : Holding(k) => Holding(k)' /\ replay_token'[k] = replay_token[k]
    BY <1>11 DEF release_nonce, release, Holding, TypeOK, TaskTypeOK
  <2>4. account_nonce' = account_nonce
    BY Zenon, <1>11 DEF release_nonce, release, nodeVars
  <2>5. NoLeakedNonce'
    <3>1. SUFFICES ASSUME NEW n \in in_flight', ~(n < account_nonce)
                   PROVE  \E k \in Messages : Holding(k)' /\ replay_token'[k] = n
      BY <2>4 DEF NoLeakedNonce
    <3>2. n \in in_flight /\ n # replay_token[m]
      BY <2>1
    <3>3. PICK k \in Messages : Holding(k) /\ replay_token[k] = n
      BY <3>1, <3>2 DEF ChainInv, NoLeakedNonce
    <3>4. k \in Messages \ {m}
      BY <3>2, <3>3
    <3>5. QED
      BY <2>3, <3>3, <3>4
  <2>6. QED
    BY <2>2, <2>5 DEF ChainInv
<1>12. ASSUME NEW m \in Messages, requeue(m) \/ add_message(m)
      PROVE  ChainInv'
  BY <1>12, ChainMove DEF requeue, add_message
<1>13. CASE NodeStep
  <2>0. account_nonce' \in {account_nonce, account_nonce + 1}
    BY <1>13 DEF NodeStep, Mine, Evict
  <2>1. FetchedNotAhead' /\ BaselineNotAhead' /\ ConfirmingIsMined'
    <3>1. FetchedNotAhead' /\ BaselineNotAhead'
      BY <1>13, <2>0 DEF NodeStep, ChainInv, FetchedNotAhead, BaselineNotAhead,
                         TypeOK, NonceTypeOK, RunTypeOK, NodeTypeOK
    <3>2. \A m \in Messages : replay_token[m] \in Nat
      BY Zenon DEF TypeOK, TaskTypeOK
    <3>3. ConfirmingIsMined'
      <4>1. UNCHANGED <<pc, replay_token>>
        BY Zenon, <1>13 DEF NodeStep, taskVars
      <4>2. account_nonce \in Nat
        BY DEF TypeOK, NodeTypeOK
      <4>3. \A m \in Messages : replay_token[m] < account_nonce => replay_token[m] < account_nonce'
        BY <2>0, <3>2, <4>2
      <4>4. QED
        BY Zenon, <4>1, <4>3 DEF ChainInv, ConfirmingIsMined
    <3>4. QED
      BY <3>1, <3>3
  <2>2. MinedInOrder'
    BY <1>13 DEF NodeStep, Mine, Evict, ChainInv, MinedInOrder, TypeOK, NodeTypeOK, Tx
  <2>3. NoLeakedNonce'
    <3>1. UNCHANGED <<in_flight, pc, replay_token>>
      BY <1>13 DEF NodeStep
    <3>2. \A n \in in_flight : n < account_nonce => n < account_nonce'
      BY <1>13 DEF NodeStep, Mine, Evict, TypeOK, NonceTypeOK, NodeTypeOK
    <3>3. QED
      BY <3>1, <3>2 DEF ChainInv, NoLeakedNonce, Holding
  <2>4. QED
    BY <2>1, <2>2, <2>3 DEF ChainInv
<1>14. QED
  BY <1>1, <1>2, <1>3, <1>4, <1>5, <1>6, <1>7, <1>8, <1>9, <1>10, <1>11, <1>12, <1>13, QuietStep
     DEF Next, RunStep, TaskStep, Environment

-----------------------------------------------------------------------------
(* Nonce uniqueness. *)

\* The limits as the code ships them (MAX_RETRIES = MAX_REPLACEMENTS = 3) are one
\* instance: the Ethereum strategy must not run out of replacements before the
\* message runs out of retries.
SafeLimits == Adapter = "eth" => MAX_RETRIES <= MAX_REPLACEMENTS + 1

UniqueInv ==
  /\ ReplacedAtMostRetried
  /\ StrategyNeverReleases
  /\ HeldNotAvailable
  /\ UniqueNonces

\* A task that moves without touching the nonces, and takes no new one, keeps
\* the tokens of the holders apart.
LEMMA UniqueMove ==
  ASSUME TypeOK, UniqueInv, NEW m \in Messages, NEW p \in MessagePoints \ {"strategy_release"},
         pc' = [pc EXCEPT ![m] = p],
         p \in HoldingPoints => pc[m] \in HoldingPoints,
         UNCHANGED <<nonceVars, replay_token>>
  PROVE  StrategyNeverReleases' /\ HeldNotAvailable' /\ UniqueNonces'
<1> USE DEF TypeOK, TaskTypeOK, UniqueInv, nonceVars
<1>1. \A k \in Messages : Holding(k)' => Holding(k)
  BY DEF Holding
<1>2. StrategyNeverReleases'
  BY DEF StrategyNeverReleases
<1>3. HeldNotAvailable' /\ UniqueNonces'
  BY <1>1 DEF HeldNotAvailable, UniqueNonces
<1>4. QED
  BY <1>2, <1>3

\* Advancing the baseline keeps every held nonce out of reach: what is pruned is
\* below the new baseline.
LEMMA UniqueAdvance ==
  ASSUME TypeOK, UniqueInv, NEW n \in Nat, update_current_nonce(n),
         \A k \in Messages : Holding(k)' => Holding(k),
         UNCHANGED replay_token
  PROVE  HeldNotAvailable' /\ UniqueNonces'
<1>1. \A k \in Messages : replay_token[k] \in Nat
  BY Zenon DEF TypeOK, TaskTypeOK
<1>2. \A k \in Messages :
        replay_token[k] \in in_flight \/ replay_token[k] < current =>
          replay_token[k] \in in_flight' \/ replay_token[k] < current'
  BY <1>1 DEF update_current_nonce, nonceVars, TypeOK, NonceTypeOK
<1>3. HeldNotAvailable'
  BY <1>2 DEF UniqueInv, HeldNotAvailable
<1>4. UniqueNonces'
  BY DEF UniqueInv, UniqueNonces
<1>5. QED
  BY <1>3, <1>4

\* The strategy is asked only while it still resubmits.
LEMMA DroppedResubmits ==
  ASSUME SafeLimits, TypeOK, RetryBudget, UniqueInv, NEW m \in Messages,
         pc[m] = "watching", OnDropped(m)
  PROVE  /\ \E p \in {"release", "sending"} : pc' = [pc EXCEPT ![m] = p]
         /\ ReplacedAtMostRetried'
<1>1. /\ retry_count[m] \in Nat
      /\ replacement_count[m] \in Nat
      /\ replacement_count[m] <= retry_count[m]
  BY DEF TypeOK, TaskTypeOK, UniqueInv, ReplacedAtMostRetried
<1>2. \E p \in {"release", "sending"} : pc' = [pc EXCEPT ![m] = p]
  <2>1. CASE Adapter = "any"
    BY <2>1 DEF OnDropped, GiveUp, SendUnlessExpired, AfterDecision
  <2>2. CASE Adapter = "eth"
    <3>1. CASE ~can_retry(retry_count[m] + 1)
      BY <3>1 DEF OnDropped, GiveUp
    <3>2. CASE can_retry(retry_count[m] + 1)
      <4>1. handle_dropped(retry_count[m], replacement_count[m]) = {"resubmit"}
        BY <1>1, <2>2, <3>2 DEF can_retry, handle_dropped, SafeLimits
      <4>2. QED
        BY <3>2, <4>1 DEF OnDropped, GiveUp, SendUnlessExpired
    <3>3. QED
      BY <3>1, <3>2
  <2>3. QED
    BY <2>1, <2>2
<1>3. retry_count' = [retry_count EXCEPT ![m] = @ + 1]
  BY DEF OnDropped
<1>4. \/ replacement_count' = replacement_count
      \/ replacement_count' = [replacement_count EXCEPT ![m] = @ + 1]
  BY DEF OnDropped
<1>5. ReplacedAtMostRetried'
  BY <1>1, <1>3, <1>4 DEF TypeOK, TaskTypeOK, UniqueInv, ReplacedAtMostRetried
<1>6. QED
  BY ZenonT(60), <1>2, <1>5

\* Every step keeps UniqueInv.
LEMMA UniqueNext ==
  ASSUME SafeLimits
  PROVE  TypeOK /\ RetryBudget /\ QueueOwnsQueued /\ UniqueInv /\ [Next]_vars => UniqueInv'
<1> SUFFICES ASSUME TypeOK, RetryBudget, QueueOwnsQueued, UniqueInv, [Next]_vars
             PROVE  UniqueInv'
  OBVIOUS
<1> USE DEF nonceVars, runVars, taskVars, TaskPoints, HoldingPoints, MessagePoints
<1>0. UNCHANGED <<retry_count, replacement_count>> => ReplacedAtMostRetried'
  BY DEF UniqueInv, ReplacedAtMostRetried
<1>1. CASE UNCHANGED <<nonceVars, taskVars>>
  BY <1>1 DEF UniqueInv, ReplacedAtMostRetried, StrategyNeverReleases, HeldNotAvailable,
              UniqueNonces, Holding
<1>2. CASE sync_fetch \/ NodeStep
  BY <1>1, <1>2 DEF sync_fetch, NodeStep
<1>3. CASE sync_apply
  <2>1. HeldNotAvailable' /\ UniqueNonces'
    BY <1>3, UniqueAdvance DEF sync_apply, Holding, TypeOK, RunTypeOK
  <2>2. StrategyNeverReleases'
    BY <1>3 DEF sync_apply, UniqueInv, StrategyNeverReleases
  <2>3. QED
    BY <1>0, <1>3, <2>1, <2>2 DEF sync_apply, UniqueInv
<1>4. CASE spawn
  <2>1. PICK e \in queue : pc' = [pc EXCEPT ![e.msg] = "spawned"]
    BY Zenon, <1>4 DEF spawn
  <2>2. QED
    BY Zenon, <1>0, <1>4, <2>1, UniqueMove DEF spawn, TypeOK, QueueTypeOK, UniqueInv
<1>5. ASSUME NEW m \in Messages, process_message(m)
      PROVE  UniqueInv'
  <2>1. CASE m \in expired
    BY <1>0, <1>5, <2>1, UniqueMove DEF process_message, UniqueInv
  <2>2. CASE m \notin expired
    <3>1. PICK n \in Nonces :
            /\ get_next_available_nonce(n)
            /\ replay_token' = [replay_token EXCEPT ![m] = n]
            /\ pc' = [pc EXCEPT ![m] = "fee"]
      BY <1>5, <2>2 DEF process_message
    <3>2. /\ replay_token'[m] = n
          /\ \A k \in Messages \ {m} : replay_token'[k] = replay_token[k] /\ pc'[k] = pc[k]
      BY <3>1 DEF TypeOK, TaskTypeOK
    <3>3. n \notin in_flight /\ ~(n < current) /\ in_flight' = in_flight \cup {n} /\ current' = current
      BY <3>1 DEF get_next_available_nonce, WalkStopsAt, TypeOK, NonceTypeOK
    <3>4. HeldNotAvailable'
      BY <3>2, <3>3 DEF UniqueInv, HeldNotAvailable, Holding
    <3>5. UniqueNonces'
      <4>1. \A k \in Messages \ {m} : Holding(k)' => replay_token'[k] # n
        BY <3>2, <3>3 DEF UniqueInv, HeldNotAvailable, Holding
      <4>2. QED
        BY ZenonT(60), <3>2, <4>1 DEF UniqueInv, UniqueNonces, Holding
    <3>6. StrategyNeverReleases'
      BY <3>1 DEF UniqueInv, StrategyNeverReleases, TypeOK, TaskTypeOK
    <3>7. ReplacedAtMostRetried'
      <4>1. /\ replacement_count' = [replacement_count EXCEPT ![m] = 0]
            /\ retry_count' = retry_count
        BY <1>5, <2>2 DEF process_message
      <4>2. QED
        BY <4>1 DEF UniqueInv, ReplacedAtMostRetried, TypeOK, TaskTypeOK
    <3>8. QED
      BY <3>4, <3>5, <3>6, <3>7 DEF UniqueInv
  <2>3. QED
    BY <2>1, <2>2
<1>6. ASSUME NEW m \in Messages, get_fee_params(m)
      PROVE  UniqueInv'
  <2>1. PICK p \in {"release", "sending"} : pc' = [pc EXCEPT ![m] = p]
    BY <1>6 DEF get_fee_params, GiveUp, SendUnlessExpired
  <2>2. QED
    BY Zenon, <1>0, <1>6, <2>1, UniqueMove DEF get_fee_params, UniqueInv
<1>7. ASSUME NEW m \in Messages, send_transaction(m)
      PROVE  UniqueInv'
  <2>1. PICK p \in {"release", "watching"} : pc' = [pc EXCEPT ![m] = p]
    BY <1>7 DEF send_transaction, GiveUp
  <2>2. QED
    BY Zenon, <1>0, <1>7, <2>1, UniqueMove DEF send_transaction, UniqueInv
<1>8. ASSUME NEW m \in Messages, watch_confirmed(m)
      PROVE  UniqueInv'
  BY Zenon, <1>0, <1>8, UniqueMove DEF watch_confirmed, UniqueInv
<1>9. ASSUME NEW m \in Messages, watch_reverted(m) \/ watch_dropped(m)
      PROVE  UniqueInv'
  <2>1. pc[m] = "watching" /\ OnDropped(m) /\ UNCHANGED <<nonceVars, replay_token>>
    BY <1>9 DEF watch_reverted, watch_dropped
  <2>2. PICK p \in {"release", "sending"} : pc' = [pc EXCEPT ![m] = p]
    BY <2>1, DroppedResubmits
  <2>3. ReplacedAtMostRetried'
    BY <2>1, DroppedResubmits
  <2>4. QED
    BY ZenonT(60), <2>1, <2>2, <2>3, UniqueMove DEF UniqueInv
<1>10. ASSUME NEW m \in Messages, handle_confirmed(m)
      PROVE  UniqueInv'
  <2>1. \A k \in Messages : Holding(k)' => Holding(k)
    BY <1>10 DEF handle_confirmed, Holding, TypeOK, TaskTypeOK
  <2>2. HeldNotAvailable' /\ UniqueNonces'
    BY ZenonT(60), <1>10, <2>1, UniqueAdvance DEF handle_confirmed, TypeOK, TaskTypeOK
  <2>3. StrategyNeverReleases'
    BY <1>10 DEF handle_confirmed, UniqueInv, StrategyNeverReleases, TypeOK, TaskTypeOK
  <2>4. QED
    BY <1>0, <1>10, <2>2, <2>3 DEF handle_confirmed, UniqueInv
<1>11. ASSUME NEW m \in Messages, release(m)
      PROVE  UniqueInv'
  <2>1. PICK p \in {"requeue", "done"} : pc' = [pc EXCEPT ![m] = p]
    BY Zenon, <1>11 DEF release
  <2>2. /\ in_flight' = in_flight \ {replay_token[m]}
        /\ UNCHANGED <<current, replay_token, retry_count, replacement_count>>
    BY <1>11 DEF release, mark_nonce_available
  <2>3. \A k \in Messages : Holding(k)' => Holding(k) /\ k # m
    BY <2>1 DEF Holding, TypeOK, TaskTypeOK
  <2>4. Holding(m)
    BY ZenonT(60), <1>11 DEF release, Holding
  <2>5. HeldNotAvailable' /\ UniqueNonces'
    BY <2>2, <2>3, <2>4 DEF UniqueInv, HeldNotAvailable, UniqueNonces
  <2>6. StrategyNeverReleases'
    BY <2>1 DEF UniqueInv, StrategyNeverReleases, TypeOK, TaskTypeOK
  <2>7. QED
    BY <1>0, <2>2, <2>5, <2>6 DEF UniqueInv
<1>12. ASSUME NEW m \in Messages, release_nonce(m)
      PROVE  UniqueInv'
  BY <1>12 DEF release_nonce, UniqueInv, StrategyNeverReleases
<1>13. ASSUME NEW m \in Messages, requeue(m) \/ add_message(m)
      PROVE  UniqueInv'
  BY ZenonT(60), <1>0, <1>13, UniqueMove DEF requeue, add_message, UniqueInv
<1>14. QED
  BY <1>1, <1>2, <1>3, <1>4, <1>5, <1>6, <1>7, <1>8, <1>9, <1>10, <1>11, <1>12, <1>13, QuietStep
     DEF Next, RunStep, TaskStep, Environment

-----------------------------------------------------------------------------
(* The theorems. *)

\* What every step keeps, for any strategy.
LEMMA BasicInvariant ==
  Spec => [](TypeOK /\ RetryBudget /\ QueueOwnsQueued /\ ChainInv)
<1> DEFINE Inv == TypeOK /\ RetryBudget /\ QueueOwnsQueued /\ ChainInv
<1>1. Init => QueueOwnsQueued /\ ChainInv
  <2> SUFFICES ASSUME Init PROVE QueueOwnsQueued /\ ChainInv
    OBVIOUS
  <2>1. QueueOwnsQueued
    BY Zenon DEF Init, QueueOwnsQueued
  <2>2. MinedInOrder
    BY ZenonT(60) DEF Init, NodeInit, MinedInOrder
  <2>3. ConfirmingIsMined
    BY DEF Init, ConfirmingIsMined
  <2>4. FetchedNotAhead /\ BaselineNotAhead
    <3>1. account_nonce = 0 /\ on_chain_nonce = 0 /\ current = account_nonce
      BY Zenon DEF Init, NodeInit, new
    <3>2. QED
      BY <3>1 DEF FetchedNotAhead, BaselineNotAhead
  <2>5. NoLeakedNonce
    BY DEF Init, new, NoLeakedNonce
  <2>6. QED
    BY <2>1, <2>2, <2>3, <2>4, <2>5 DEF ChainInv
<1>2. Init => Inv
  BY <1>1, TypeInit
<1>3. Inv /\ [Next]_vars => Inv'
  BY TypeNext, OwnershipNext, ChainNext
<1>4. QED
  BY <1>2, <1>3, PTL DEF Spec

\* Every variable keeps its type.  The proof needs to know that a message that
\* will be sent again has retries left, and that what is queued is not running.
THEOREM TypeCorrect == Spec => []TypeOK
BY BasicInvariant, PTL

\* No reservation is leaked by any path of process_message and send_and_watch,
\* whatever the retry strategy and the fee manager do.
THEOREM NoLeak == Spec => []NoLeakedNonce
BY BasicInvariant, PTL DEF ChainInv

\* The baseline never runs ahead of the account's nonce, however sync results and
\* confirmations interleave.
THEOREM BaselineSafe == Spec => []BaselineNotAhead
BY BasicInvariant, PTL DEF ChainInv

\* What uniqueness rests on.
LEMMA UniqueInvariant == ASSUME SafeLimits PROVE Spec => []UniqueInv
<1>1. Init => UniqueInv
  BY DEF Init, UniqueInv, ReplacedAtMostRetried, StrategyNeverReleases, HeldNotAvailable,
         UniqueNonces, Holding, HoldingPoints
<1>2. TypeOK /\ RetryBudget /\ QueueOwnsQueued /\ UniqueInv /\ [Next]_vars => UniqueInv'
  BY UniqueNext
<1>3. QED
  BY <1>1, <1>2, BasicInvariant, PTL DEF Spec

\* No two live tasks hold the same nonce: for every strategy that leaves releasing
\* to the Sender, and for the Ethereum strategy as long as the retries run out
\* before the replacements do, as with the limits in the code.
THEOREM NonceUniqueness == ASSUME SafeLimits PROVE Spec => []UniqueNonces
BY UniqueInvariant, PTL DEF UniqueInv

\* With those limits the Ethereum strategy never reaches its Requeue and Abandon
\* arms.
THEOREM RequeueUnreachable == ASSUME SafeLimits PROVE Spec => []StrategyNeverReleases
BY UniqueInvariant, PTL DEF UniqueInv

-----------------------------------------------------------------------------
(* The wake-up of process_next_message. *)

\* run() never sleeps on a message: whatever the interleaving of a push, its
\* notify_one, the test for an empty queue and a cancellation by a block.
THEOREM WakeupNotLost == Spec => []NoLostWakeup
<1> DEFINE Inv == loop \in {"empty", "notified"} /\ queue # {} => message_ready \/ notifying # {}
<1>1. Init => Inv
  BY DEF Init
<1>2. Inv /\ [Next]_vars => Inv'
  <2> SUFFICES ASSUME Inv, [Next]_vars
               PROVE  Inv'
    OBVIOUS
  <2> USE DEF queueVars, runVars
  <2>1. CASE RunStep
    BY ZenonT(60), <2>1 DEF RunStep, subscribe, acquire, spawn, find_empty, park, wake, receive_block,
                subscription_closed, sync_fetch, sync_apply
  <2>2. ASSUME NEW m \in Messages, TaskStep(m)
        PROVE  Inv'
    <3>1. CASE requeue(m)
      BY ZenonT(60), <3>1 DEF requeue
    <3>2. CASE ~requeue(m)
      <4>1. UNCHANGED <<queueVars, runVars>>
        BY Zenon, <2>2, <3>2 DEF TaskStep, process_message, get_fee_params, send_transaction,
             watch_confirmed, watch_reverted, watch_dropped, handle_confirmed, release_nonce, release
      <4>2. QED
        BY <4>1
    <3>3. QED
      BY <3>1, <3>2
  <2>3. ASSUME NEW call \in notifying, notify_one(call)
        PROVE  Inv'
    BY <2>3 DEF notify_one
  <2>4. ASSUME NEW m \in Messages, add_message(m)
        PROVE  Inv'
    BY Zenon, <2>4 DEF add_message
  <2>5. ASSUME NEW m \in Messages, Expire(m)
        PROVE  Inv'
    BY <2>5 DEF Expire
  <2>6. CASE NewBlock \/ CloseStream \/ NodeStep
    BY <2>6 DEF NewBlock, CloseStream, NodeStep
  <2>7. CASE UNCHANGED vars
    BY <2>7 DEF vars
  <2>8. QED
    BY <2>1, <2>2, <2>3, <2>4, <2>5, <2>6, <2>7 DEF Next, Environment, Rest
<1>3. Inv => NoLostWakeup
  BY DEF NoLostWakeup
<1>4. QED
  BY <1>1, <1>2, <1>3, PTL DEF Spec
=============================================================================
