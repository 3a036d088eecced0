------------------------ MODULE SenderDeliveryProofs ------------------------
(***************************************************************************)
(* What Sender promises its callers: the semaphore's permits are           *)
(* conserved, a message takes effect at most once with the Ethereum        *)
(* strategy, and Sender implements Delivery.                               *)
(***************************************************************************)
EXTENDS SenderProofs, FiniteSetTheorems

USE NoncesAssumption, SenderAssumption

(* The permits. *)

PermitInv ==
  /\ PermitsConserved
  /\ CallsArePast
  /\ IsFiniteSet(notifying)

\* How the number of tasks changes when one message moves.
LEMMA TaskCount ==
  ASSUME TypeOK, NEW m \in Messages, NEW p, pc' = [pc EXCEPT ![m] = p]
  PROVE  /\ pc[m] \notin TaskPoints /\ p \in TaskPoints =>
              Cardinality(Tasks') = Cardinality(Tasks) + 1
         /\ pc[m] \in TaskPoints /\ p \notin TaskPoints =>
              Cardinality(Tasks') = Cardinality(Tasks) - 1
         /\ (pc[m] \in TaskPoints <=> p \in TaskPoints) => Tasks' = Tasks
<1>1. IsFiniteSet(Tasks)
  <2>1. Tasks \in SUBSET Messages
    BY DEF Tasks
  <2>2. QED
    BY <2>1, FS_Subset
<1>2. pc \in [Messages -> MessagePoints]
  BY DEF TypeOK, TaskTypeOK
<1>3. CASE pc[m] \notin TaskPoints /\ p \in TaskPoints
  <2>1. Tasks' = Tasks \cup {m} /\ m \notin Tasks
    BY <1>2, <1>3 DEF Tasks
  <2>2. QED
    BY <1>1, <1>3, <2>1, FS_AddElement
<1>4. CASE pc[m] \in TaskPoints /\ p \notin TaskPoints
  <2>1. Tasks' = Tasks \ {m} /\ m \in Tasks
    BY <1>2, <1>4 DEF Tasks
  <2>2. QED
    BY <1>1, <1>4, <2>1, FS_RemoveElement
<1>5. CASE pc[m] \in TaskPoints <=> p \in TaskPoints
  BY <1>2, <1>5 DEF Tasks
<1>6. QED
  BY <1>3, <1>4, <1>5

\* The numbers that PermitsConserved adds up are natural.
LEMMA CountsType ==
  ASSUME TypeOK, IsFiniteSet(notifying)
  PROVE  /\ max_in_flight \in Nat
         /\ Cardinality(Tasks) \in Nat
         /\ IsFiniteSet(PermitCalls)
         /\ Cardinality(PermitCalls) \in Nat
<1>1. Tasks \in SUBSET Messages /\ PermitCalls \in SUBSET notifying
  BY DEF Tasks, PermitCalls
<1>2. IsFiniteSet(Tasks) /\ IsFiniteSet(PermitCalls)
  BY <1>1, FS_Subset
<1>3. QED
  BY <1>2, FS_CardinalityType DEF TypeOK, QueueTypeOK

\* run() takes a permit and hands it to the task it spawns, or gives it back: on
\* an empty queue, and when a block cancels process_next_message.
LEMMA RunKeepsPermits ==
  ASSUME TypeOK, QueueOwnsQueued, PermitInv, RunStep
  PROVE  PermitsConserved'
<1> USE CountsType DEF PermitInv, PermitsConserved
<1>1. UNCHANGED notifying /\ PermitCalls' = PermitCalls
  BY DEF RunStep, subscribe, acquire, spawn, find_empty, park, wake, receive_block,
         subscription_closed, sync_fetch, sync_apply, queueVars, PermitCalls
<1>2. CASE spawn
  <2>1. PICK e \in queue : pc' = [pc EXCEPT ![e.msg] = "spawned"]
    BY <1>2 DEF spawn
  <2>2. e.msg \in Messages /\ pc[e.msg] = "queued"
    BY DEF TypeOK, QueueTypeOK, QueueOwnsQueued
  <2>3. Cardinality(Tasks') = Cardinality(Tasks) + 1
    BY <2>1, <2>2, TaskCount DEF TaskPoints, HoldingPoints
  <2>4. QED
    BY <1>1, <1>2, <2>3 DEF spawn
<1>3. CASE ~spawn
  <2>1. Tasks' = Tasks
    BY <1>3 DEF RunStep, subscribe, acquire, find_empty, park, wake, receive_block,
                subscription_closed, sync_fetch, sync_apply, taskVars, Tasks
  <2>2. QED
    BY <1>1, <1>3, <2>1 DEF RunStep, subscribe, acquire, find_empty, park, wake,
          receive_block, subscription_closed, sync_fetch, sync_apply, SelectPoints,
          CancelProcessNextMessage
<1>4. QED
  BY <1>2, <1>3

\* A task gives its permit back when it ends, and takes it along into the
\* add_message call of a requeue.
LEMMA TaskKeepsPermits ==
  ASSUME TypeOK, PermitInv, NEW m \in Messages, TaskStep(m)
  PROVE  PermitsConserved'
<1> USE CountsType DEF PermitInv, PermitsConserved
<1>1. CASE requeue(m)
  <2> DEFINE call == [msg |-> m, retry |-> retry_count[m], permit |-> TRUE]
  <2>1. call \notin notifying
    <3>1. outcome[m] = "requeued"
      BY <1>1 DEF requeue, CallsArePast
    <3>2. retry_count[m] \in Nat
      BY DEF TypeOK, TaskTypeOK
    <3>3. call \in notifying => call.retry < retry_count[call.msg]
      BY Zenon, <3>1 DEF CallsArePast
    <3>4. QED
      BY <3>2, <3>3
  <2>2. PermitCalls' = PermitCalls \cup {call} /\ call \notin PermitCalls
    BY <1>1, <2>1 DEF requeue, PermitCalls
  <2>3. Cardinality(PermitCalls') = Cardinality(PermitCalls) + 1
    BY <2>2, FS_AddElement
  <2>4. Cardinality(Tasks') = Cardinality(Tasks) - 1
    <3>1. pc[m] \in TaskPoints /\ "queued" \notin TaskPoints /\ pc' = [pc EXCEPT ![m] = "queued"]
      BY <1>1 DEF requeue, TaskPoints, HoldingPoints
    <3>2. QED
      BY <3>1, TaskCount
  <2>5. QED
    BY <1>1, <2>3, <2>4 DEF requeue, runVars
<1>2. CASE ~requeue(m)
  <2>1. PICK p \in HoldingPoints \cup {"requeue", "done"} : pc' = [pc EXCEPT ![m] = p]
    BY <1>2, TaskStepMovesOne
  <2>2. pc[m] \in TaskPoints
    BY <1>2, TaskStepMovesOne
  <2>3. /\ p = "done" => Cardinality(Tasks') = Cardinality(Tasks) - 1
        /\ p # "done" => Tasks' = Tasks
    BY <2>1, <2>2, TaskCount DEF TaskPoints, HoldingPoints
  <2>4. UNCHANGED notifying /\ UNCHANGED loop
    BY <1>2 DEF TaskStep, process_message, get_fee_params, send_transaction, watch_confirmed,
                watch_reverted, watch_dropped, handle_confirmed, release_nonce, release,
                queueVars, runVars
  <2>5. PermitCalls' = PermitCalls
    BY <2>4 DEF PermitCalls
  <2>6. p = pc'[m]
    BY <2>1 DEF TypeOK, TaskTypeOK
  <2>7. max_in_flight' = IF pc'[m] = "done" THEN max_in_flight + 1 ELSE max_in_flight
    BY <1>2 DEF TypeOK, TaskTypeOK, TaskStep, process_message, get_fee_params,
                send_transaction, watch_confirmed, watch_reverted, watch_dropped,
                handle_confirmed, release_nonce, release, OnDropped, GiveUp,
                SendUnlessExpired, AfterDecision
  <2>8. QED
    BY <2>3, <2>4, <2>5, <2>6, <2>7
<1>3. QED
  BY <1>1, <1>2

\* notify_one drops the permit of the call it belongs to.
LEMMA NotifyKeepsPermits ==
  ASSUME TypeOK, PermitInv, NEW call \in notifying, notify_one(call)
  PROVE  PermitsConserved'
<1> USE CountsType DEF PermitInv, PermitsConserved
<1>1. Tasks' = Tasks /\ UNCHANGED loop
  BY DEF notify_one, taskVars, runVars, Tasks
<1>2. CASE call.permit
  <2>1. PermitCalls' = PermitCalls \ {call} /\ call \in PermitCalls
    BY <1>2 DEF notify_one, PermitCalls
  <2>2. Cardinality(PermitCalls') = Cardinality(PermitCalls) - 1
    BY <2>1, FS_RemoveElement
  <2>3. QED
    BY <1>1, <1>2, <2>2 DEF notify_one
<1>3. CASE ~call.permit
  <2>1. PermitCalls' = PermitCalls
    BY <1>3 DEF notify_one, PermitCalls
  <2>2. QED
    BY <1>1, <1>3, <2>1 DEF notify_one
<1>4. QED
  BY <1>2, <1>3

\* The caller of add_message has no permit, and the environment touches none.
LEMMA EnvironmentKeepsPermits ==
  ASSUME PermitInv, Environment \/ UNCHANGED vars, TypeOK
  PROVE  PermitsConserved'
<1> USE DEF PermitInv, PermitsConserved
<1>1. ASSUME NEW m \in Messages, add_message(m)
      PROVE  PermitsConserved'
  <2>1. Tasks' = Tasks
    <3>1. /\ pc[m] \notin TaskPoints /\ "queued" \notin TaskPoints
          /\ pc' = [pc EXCEPT ![m] = "queued"]
      BY <1>1 DEF add_message, TaskPoints, HoldingPoints
    <3>2. QED
      BY <3>1, TaskCount
  <2>2. PermitCalls' = PermitCalls
    BY <1>1 DEF add_message, PermitCalls
  <2>3. QED
    BY <1>1, <2>1, <2>2 DEF add_message, runVars
<1>2. CASE ~\E m \in Messages : add_message(m)
  <2>1. UNCHANGED <<notifying, pc, max_in_flight, loop>>
    BY <1>2 DEF Environment, Expire, NewBlock, CloseStream, NodeStep, vars, queueVars, taskVars,
                runVars
  <2>2. QED
    BY <2>1 DEF PermitCalls, Tasks
<1>3. QED
  BY <1>1, <1>2

\* How a task and its message go on: the failures counted never fall, and a
\* requeue is decided only by counting one more.
LEMMA TaskAttempt ==
  ASSUME TypeOK, CallsArePast, NEW m \in Messages, TaskStep(m), ~requeue(m)
  PROVE  /\ \A k \in Messages \ {m} :
              pc'[k] = pc[k] /\ outcome'[k] = outcome[k] /\ retry_count'[k] = retry_count[k]
         /\ retry_count'[m] \in Nat /\ retry_count'[m] >= retry_count[m]
         /\ outcome'[m] = "requeued" =>
              outcome[m] = "requeued" \/ retry_count'[m] = retry_count[m] + 1
         /\ pc'[m] = "requeue" => outcome'[m] = "requeued"
         /\ UNCHANGED notifying
<1> USE DEF TypeOK, TaskTypeOK, queueVars
<1>0. retry_count[m] \in Nat
  OBVIOUS
<1>1. CASE watch_reverted(m) \/ watch_dropped(m)
  BY <1>0, <1>1 DEF watch_reverted, watch_dropped, OnDropped, GiveUp, SendUnlessExpired, AfterDecision
<1>2. CASE process_message(m) \/ get_fee_params(m) \/ send_transaction(m)
  BY <1>0, <1>2 DEF process_message, get_fee_params, send_transaction, GiveUp, SendUnlessExpired
<1>3. CASE watch_confirmed(m) \/ handle_confirmed(m) \/ release_nonce(m) \/ release(m)
  BY <1>0, <1>3 DEF watch_confirmed, handle_confirmed, release_nonce, release
<1>4. QED
  BY <1>1, <1>2, <1>3 DEF TaskStep

\* Every step keeps the order between calls and attempts, and the calls finite.
LEMMA CallsNext ==
  ASSUME TypeOK, PermitInv, [Next]_vars
  PROVE  CallsArePast' /\ IsFiniteSet(notifying')
<1> USE DEF PermitInv
<1>0. /\ \A k \in Messages : retry_count[k] \in Nat
      /\ \A call \in notifying : call.msg \in Messages /\ call.retry \in Nat
  BY DEF TypeOK, TaskTypeOK, QueueTypeOK, AddCalls
<1>1. ASSUME NEW m \in Messages, add_message(m) \/ requeue(m)
      PROVE  CallsArePast' /\ IsFiniteSet(notifying')
  <2>1. PICK b \in BOOLEAN :
          /\ notifying' = notifying \cup {[msg |-> m, retry |-> retry_count[m], permit |-> b]}
          /\ b => requeue(m)
    BY <1>1 DEF add_message, requeue
  <2>2. /\ UNCHANGED retry_count
        /\ pc' = [pc EXCEPT ![m] = "queued"]
        /\ outcome'[m] # "requeued" \/ ~b
        /\ \A k \in Messages \ {m} : outcome'[k] = outcome[k]
    BY <1>1, <2>1 DEF add_message, requeue, TypeOK, TaskTypeOK
  <2>3. IsFiniteSet(notifying')
    BY <2>1, FS_AddElement
  <2>4. ASSUME NEW call \in notifying'
        PROVE  /\ call.retry <= retry_count'[call.msg]
               /\ outcome'[call.msg] = "requeued" /\ call.permit =>
                    call.retry < retry_count'[call.msg]
    <3>1. CASE call = [msg |-> m, retry |-> retry_count[m], permit |-> b]
      BY <1>0, <2>2, <3>1
    <3>2. CASE call \in notifying /\ call.msg # m
      BY <1>0, <2>2, <3>2 DEF CallsArePast
    <3>3. CASE call \in notifying /\ call.msg = m
      BY <1>0, <1>1, <2>2, <3>3 DEF CallsArePast, add_message, requeue
    <3>4. QED
      BY <2>1, <3>1, <3>2, <3>3
  <2>5. \A k \in Messages : pc'[k] = "requeue" => outcome'[k] = "requeued"
    BY <2>2 DEF CallsArePast, TypeOK, TaskTypeOK
  <2>6. QED
    BY <2>3, <2>4, <2>5 DEF CallsArePast
<1>2. ASSUME NEW m \in Messages, TaskStep(m), ~requeue(m)
      PROVE  CallsArePast' /\ IsFiniteSet(notifying')
  <2>1. /\ \A k \in Messages \ {m} :
             pc'[k] = pc[k] /\ outcome'[k] = outcome[k] /\ retry_count'[k] = retry_count[k]
        /\ retry_count'[m] \in Nat /\ retry_count'[m] >= retry_count[m]
        /\ outcome'[m] = "requeued" =>
             outcome[m] = "requeued" \/ retry_count'[m] = retry_count[m] + 1
        /\ pc'[m] = "requeue" => outcome'[m] = "requeued"
        /\ UNCHANGED notifying
    BY <1>2, TaskAttempt
  <2>2. ASSUME NEW call \in notifying
        PROVE  /\ call.retry <= retry_count'[call.msg]
               /\ outcome'[call.msg] = "requeued" /\ call.permit =>
                    call.retry < retry_count'[call.msg]
    <3>1. CASE call.msg # m
      BY <1>0, <2>1, <3>1 DEF CallsArePast
    <3>2. CASE call.msg = m
      BY <1>0, <2>1, <3>2 DEF CallsArePast
    <3>3. QED
      BY <3>1, <3>2
  <2>3. QED
    BY <2>1, <2>2 DEF CallsArePast
<1>3. ASSUME NEW call \in notifying, notify_one(call)
      PROVE  CallsArePast' /\ IsFiniteSet(notifying')
  <2>1. notifying' = notifying \ {call} /\ UNCHANGED <<pc, outcome, retry_count>>
    BY <1>3 DEF notify_one, taskVars
  <2>2. IsFiniteSet(notifying')
    BY <2>1, FS_RemoveElement
  <2>3. QED
    BY <2>1, <2>2 DEF CallsArePast
<1>4. CASE spawn
  <2>1. PICK e \in queue : pc' = [pc EXCEPT ![e.msg] = "spawned"]
    BY <1>4 DEF spawn
  <2>2. UNCHANGED <<notifying, outcome, retry_count>>
    BY <1>4 DEF spawn
  <2>3. QED
    BY <2>1, <2>2 DEF CallsArePast, TypeOK, TaskTypeOK
<1>5. CASE UNCHANGED <<notifying, pc, outcome, retry_count>>
  BY <1>5 DEF CallsArePast
<1>6. RunStep => spawn \/ UNCHANGED <<notifying, pc, outcome, retry_count>>
  BY DEF RunStep, subscribe, acquire, find_empty, park, wake, receive_block, subscription_closed,
         sync_fetch, sync_apply, queueVars, taskVars
<1>7. Environment =>
        \/ \E m \in Messages : add_message(m)
        \/ UNCHANGED <<notifying, pc, outcome, retry_count>>
  BY DEF Environment, Expire, NewBlock, CloseStream, NodeStep, queueVars, taskVars
<1>8. QED
  BY <1>1, <1>2, <1>3, <1>4, <1>5, <1>6, <1>7 DEF Next, Rest, vars, queueVars, taskVars

\* What the count of the permits rests on.
LEMMA PermitInvariant == Spec => []PermitInv
<1>1. Init => PermitInv
  <2> SUFFICES ASSUME Init PROVE PermitInv
    OBVIOUS
  <2>1. Tasks = {} /\ PermitCalls = {}
    BY DEF Init, Tasks, PermitCalls, TaskPoints, HoldingPoints
  <2>2. PermitsConserved
    BY <2>1, FS_EmptySet DEF Init, PermitsConserved
  <2>3. CallsArePast /\ IsFiniteSet(notifying)
    BY FS_EmptySet DEF Init, CallsArePast
  <2>4. QED
    BY <2>2, <2>3 DEF PermitInv
<1>2. TypeOK /\ QueueOwnsQueued /\ PermitInv /\ [Next]_vars => PermitInv'
  <2> SUFFICES ASSUME TypeOK, QueueOwnsQueued, PermitInv, [Next]_vars
               PROVE  PermitInv'
    OBVIOUS
  <2>1. PermitsConserved'
    BY RunKeepsPermits, TaskKeepsPermits, NotifyKeepsPermits, EnvironmentKeepsPermits
       DEF Next, Rest
  <2>2. QED
    BY <2>1, CallsNext DEF PermitInv
<1>3. QED
  BY <1>1, <1>2, BasicInvariant, PTL DEF Spec

\* No permit of the semaphore is lost or duplicated, with any strategy, any number
\* of messages and any number of permits: not when a block cancels
\* process_next_message, and not when a task requeues its message.
THEOREM PermitsSafe == Spec => []PermitsConserved
BY PermitInvariant, PTL DEF PermitInv

-----------------------------------------------------------------------------
(* At-most-once execution with the Ethereum strategy. *)

\* The Ethereum strategy, with limits that let it only resubmit.
EthLimits == Adapter = "eth" /\ MAX_RETRIES <= MAX_REPLACEMENTS + 1

OnceInv ==
  /\ NeverRequeued
  /\ OneNoncePerMessage

\* The Dropped | Reverted arm never decides to requeue.
LEMMA DroppedNotRequeued ==
  ASSUME EthLimits, TypeOK, RetryBudget, UniqueInv, NEW m \in Messages,
         pc[m] = "watching", OnDropped(m)
  PROVE  \/ outcome' = outcome
         \/ \E o \in {"expired", "max_retries"} : outcome' = [outcome EXCEPT ![m] = o]
<1>1. CASE ~can_retry(retry_count[m] + 1)
  BY <1>1 DEF OnDropped, GiveUp
<1>2. CASE can_retry(retry_count[m] + 1)
  <2>1. /\ retry_count[m] \in Nat
        /\ replacement_count[m] \in Nat
        /\ replacement_count[m] <= retry_count[m]
    BY DEF TypeOK, TaskTypeOK, UniqueInv, ReplacedAtMostRetried
  <2>2. handle_dropped(retry_count[m], replacement_count[m]) = {"resubmit"}
    BY <1>2, <2>1 DEF can_retry, handle_dropped, EthLimits
  <2>3. QED
    BY <1>2, <2>2 DEF OnDropped, GiveUp, SendUnlessExpired
<1>3. QED
  BY <1>1, <1>2

\* Every step keeps NeverRequeued.
LEMMA NeverRequeuedNext ==
  ASSUME EthLimits
  PROVE  TypeOK /\ RetryBudget /\ UniqueInv /\ NeverRequeued /\ [Next]_vars => NeverRequeued'
<1> SUFFICES ASSUME TypeOK, RetryBudget, UniqueInv, NeverRequeued, [Next]_vars
             PROVE  NeverRequeued'
  OBVIOUS
<1> USE DEF NeverRequeued
<1>1. CASE UNCHANGED taskVars
  BY ZenonT(60), <1>1 DEF taskVars
<1>2. ASSUME NEW m \in Messages,
             NEW p \in MessagePoints \ {"strategy_release", "requeue"},
             NEW o \in Outcomes \ {"requeued"},
             pc' = [pc EXCEPT ![m] = p],
             outcome' = outcome \/ outcome' = [outcome EXCEPT ![m] = o]
      PROVE  NeverRequeued'
  BY <1>2 DEF TypeOK, TaskTypeOK
<1> USE DEF MessagePoints, TaskPoints, HoldingPoints, Outcomes
<1>3. CASE spawn
  <2>1. PICK e \in queue : pc' = [pc EXCEPT ![e.msg] = "spawned"]
    BY Zenon, <1>3 DEF spawn
  <2>2. e.msg \in Messages /\ outcome' = outcome
    BY <1>3 DEF spawn, TypeOK, QueueTypeOK
  <2>3. QED
    BY <1>2, <2>1, <2>2
<1>4. ASSUME NEW m \in Messages, process_message(m)
      PROVE  NeverRequeued'
  BY <1>2, <1>4 DEF process_message
<1>5. ASSUME NEW m \in Messages, get_fee_params(m)
      PROVE  NeverRequeued'
  BY <1>2, <1>5 DEF get_fee_params, GiveUp, SendUnlessExpired
<1>6. ASSUME NEW m \in Messages, send_transaction(m)
      PROVE  NeverRequeued'
  BY <1>2, <1>6 DEF send_transaction, GiveUp
<1>7. ASSUME NEW m \in Messages, watch_confirmed(m)
      PROVE  NeverRequeued'
  <2>1. pc' = [pc EXCEPT ![m] = "confirm"] /\ outcome' = outcome
    BY Zenon, <1>7 DEF watch_confirmed
  <2>2. QED
    BY <1>2, <2>1
<1>8. ASSUME NEW m \in Messages, watch_reverted(m) \/ watch_dropped(m)
      PROVE  NeverRequeued'
  <2>1. pc[m] = "watching" /\ OnDropped(m)
    BY ZenonT(60), <1>8 DEF watch_reverted, watch_dropped
  <2>2. PICK p \in {"release", "sending"} : pc' = [pc EXCEPT ![m] = p]
    BY ZenonT(60), <2>1, DroppedResubmits DEF EthLimits, SafeLimits
  <2>3. CASE outcome' = outcome
    BY <1>2, <2>2, <2>3
  <2>4. CASE \E o \in {"expired", "max_retries"} : outcome' = [outcome EXCEPT ![m] = o]
    BY <1>2, <2>2, <2>4
  <2>5. QED
    BY <2>1, <2>3, <2>4, DroppedNotRequeued
<1>9. ASSUME NEW m \in Messages, handle_confirmed(m)
      PROVE  NeverRequeued'
  <2>1. pc' = [pc EXCEPT ![m] = "done"] /\ outcome' = [outcome EXCEPT ![m] = "confirmed"]
    BY Zenon, <1>9 DEF handle_confirmed
  <2>2. QED
    BY <1>2, <2>1
<1>10. ASSUME NEW m \in Messages, release_nonce(m) \/ requeue(m)
      PROVE  NeverRequeued'
  BY <1>10 DEF release_nonce, requeue
<1>11. ASSUME NEW m \in Messages, release(m)
      PROVE  NeverRequeued'
  <2>1. pc' = [pc EXCEPT ![m] = "done"] /\ outcome' = outcome
    BY ZenonT(60), <1>11 DEF release
  <2>2. QED
    BY <1>2, <2>1
<1>12. ASSUME NEW m \in Messages, add_message(m)
      PROVE  NeverRequeued'
  <2>1. pc' = [pc EXCEPT ![m] = "queued"] /\ outcome' = outcome
    BY Zenon, <1>12 DEF add_message
  <2>2. QED
    BY <1>2, <2>1
<1>13. CASE sync_fetch \/ sync_apply \/ NodeStep
  BY ZenonT(60), <1>1, <1>13 DEF sync_fetch, sync_apply, NodeStep
<1>14. QED
  BY ZenonT(60), <1>1, <1>3, <1>4, <1>5, <1>6, <1>7, <1>8, <1>9, <1>10, <1>11, <1>12, <1>13, QuietStep
     DEF Next, RunStep, TaskStep, Environment

\* Every step keeps OneNoncePerMessage: the nonce of a message changes only while
\* no transaction carries it, and a message with a transaction never returns to
\* the queue.
LEMMA OneNonceNext ==
  ASSUME EthLimits
  PROVE  TypeOK /\ QueueOwnsQueued /\ OnceInv /\ [Next]_vars => OneNoncePerMessage'
<1> SUFFICES ASSUME TypeOK, QueueOwnsQueued, OnceInv, [Next]_vars
             PROVE  OneNoncePerMessage'
  BY Zenon
<1> USE DEF OneNoncePerMessage, OnceInv, nodeVars, taskVars
<1> DEFINE Carried(m) == \E t \in mempool \cup mined : t.msg = m
<1>1. CASE UNCHANGED <<nodeVars, pc, replay_token>>
  BY ZenonT(60), <1>1
<1>2. ASSUME NEW m \in Messages, ~Carried(m),
             \A k \in Messages \ {m} : pc'[k] = pc[k] /\ replay_token'[k] = replay_token[k],
             UNCHANGED nodeVars
      PROVE  OneNoncePerMessage'
  BY <1>2
<1>3. ASSUME NEW m \in Messages, NEW p \in HoldingPoints \cup {"done"},
             pc' = [pc EXCEPT ![m] = p],
             UNCHANGED <<nodeVars, replay_token>>
      PROVE  OneNoncePerMessage'
  BY <1>3 DEF HoldingPoints, TypeOK, TaskTypeOK
<1>4. CASE spawn
  <2>1. PICK e \in queue : pc' = [pc EXCEPT ![e.msg] = "spawned"]
    BY Zenon, <1>4 DEF spawn
  <2>2. e.msg \in Messages /\ ~Carried(e.msg)
    BY DEF QueueOwnsQueued, TypeOK, QueueTypeOK
  <2>3. QED
    BY ZenonT(60), <1>2, <1>4, <2>1, <2>2 DEF spawn, TypeOK, TaskTypeOK
<1>5. ASSUME NEW m \in Messages, process_message(m)
      PROVE  OneNoncePerMessage'
  <2>0. pc[m] = "spawned"
    BY Zenon, <1>5 DEF process_message
  <2>1. ~Carried(m)
    BY ZenonT(60), <2>0
  <2>2. QED
    BY <1>2, <1>5, <2>1 DEF process_message, TypeOK, TaskTypeOK
<1>6. ASSUME NEW m \in Messages, add_message(m)
      PROVE  OneNoncePerMessage'
  <2>1. ~Carried(m)
    BY ZenonT(60), <1>6 DEF add_message
  <2>2. QED
    BY <1>2, <1>6, <2>1 DEF add_message, TypeOK, TaskTypeOK
<1>7. ASSUME NEW m \in Messages, send_transaction(m)
      PROVE  OneNoncePerMessage'
  <2>1. PICK p \in {"release", "watching"} : pc' = [pc EXCEPT ![m] = p]
    BY ZenonT(60), <1>7 DEF send_transaction, GiveUp
  <2>2. mempool' \cup mined' \subseteq mempool \cup mined \cup {CurrentTx(m)}
    BY ZenonT(60), <1>7 DEF send_transaction, Accept
  <2>3. CurrentTx(m).msg = m /\ CurrentTx(m).nonce = replay_token[m]
    BY ZenonT(60) DEF CurrentTx
  <2>4. replay_token' = replay_token
    BY ZenonT(60), <1>7 DEF send_transaction
  <2>5. QED
    BY <2>1, <2>2, <2>3, <2>4 DEF TypeOK, TaskTypeOK
<1>8. ASSUME NEW m \in Messages, get_fee_params(m)
      PROVE  OneNoncePerMessage'
  BY ZenonT(60), <1>3, <1>8 DEF get_fee_params, GiveUp, SendUnlessExpired, HoldingPoints
<1>9. ASSUME NEW m \in Messages,
             watch_confirmed(m) \/ handle_confirmed(m) \/ release_nonce(m)
      PROVE  OneNoncePerMessage'
  BY ZenonT(60), <1>3, <1>9 DEF watch_confirmed, handle_confirmed, release_nonce, HoldingPoints
<1>10. ASSUME NEW m \in Messages, watch_reverted(m) \/ watch_dropped(m)
      PROVE  OneNoncePerMessage'
  <2>1. PICK p \in {"release", "sending", "strategy_release"} : pc' = [pc EXCEPT ![m] = p]
    BY ZenonT(60), <1>10 DEF watch_reverted, watch_dropped, OnDropped, GiveUp, SendUnlessExpired, AfterDecision
  <2>2. QED
    BY ZenonT(60), <1>3, <1>10, <2>1 DEF watch_reverted, watch_dropped, HoldingPoints
<1>11. ASSUME NEW m \in Messages, release(m)
      PROVE  OneNoncePerMessage'
  BY ZenonT(60), <1>3, <1>11 DEF release, NeverRequeued
<1>12. ASSUME NEW m \in Messages, requeue(m)
      PROVE  OneNoncePerMessage'
  BY ZenonT(60), <1>12 DEF requeue, NeverRequeued
<1>13. CASE NodeStep
  BY ZenonT(60), <1>13 DEF NodeStep, Mine, Evict
<1>14. CASE sync_fetch \/ sync_apply
  BY <1>1, <1>14 DEF sync_fetch, sync_apply
<1>15. QED
  BY ZenonT(60), <1>1, <1>4, <1>5, <1>6, <1>7, <1>8, <1>9, <1>10, <1>11, <1>12, <1>13, <1>14, QuietStep
     DEF Next, RunStep, TaskStep, Environment

\* With the Ethereum strategy no message is requeued, and each keeps its nonce.
LEMMA OnceInvariant == ASSUME EthLimits PROVE Spec => []OnceInv
<1>1. SafeLimits
  BY DEF EthLimits, SafeLimits
<1>2. Init => OnceInv
  BY DEF Init, NodeInit, OnceInv, NeverRequeued, OneNoncePerMessage
<1>3. TypeOK /\ RetryBudget /\ QueueOwnsQueued /\ UniqueInv /\ OnceInv /\ [Next]_vars => OnceInv'
  BY NeverRequeuedNext, OneNonceNext DEF OnceInv
<1>4. Spec => []UniqueInv
  BY <1>1, UniqueInvariant
<1>5. QED
  BY <1>2, <1>3, <1>4, BasicInvariant, PTL DEF Spec

\* A message takes effect at most once with the Ethereum strategy.
THEOREM ExecutedAtMostOnce == ASSUME EthLimits PROVE Spec => []AtMostOnce
<1>1. TypeOK /\ ChainInv /\ OnceInv => AtMostOnce
  BY DEF TypeOK, NodeTypeOK, Tx, ChainInv, MinedInOrder, OnceInv, OneNoncePerMessage, AtMostOnce
<1>2. QED
  BY <1>1, OnceInvariant, BasicInvariant, PTL

-----------------------------------------------------------------------------
(* Sender implements Delivery. *)

\* The phases that the points of a message stand for.
LEMMA Phases ==
  /\ PhaseAt("new") = "new" /\ PhaseAt("queued") = "waiting" /\ PhaseAt("done") = "ended"
  /\ \A p \in TaskPoints : PhaseAt(p) = "active"
  /\ \A p \in MessagePoints : PhaseAt(p) = "active" => p \in TaskPoints
BY DEF PhaseAt, MessagePoints, TaskPoints, HoldingPoints

\* A step that moves one message moves its phase and no other.
LEMMA PhaseMove ==
  ASSUME TypeOK, NEW m \in Messages, NEW p, pc' = [pc EXCEPT ![m] = p]
  PROVE  Phase' = [Phase EXCEPT ![m] = PhaseAt(p)]
BY DEF Phase, TypeOK, TaskTypeOK

\* A task that has not ended can decide how it will end: that reports no success.
LEMMA OutcomeMove ==
  ASSUME TypeOK, ReportIsTrue, NEW m \in Messages, pc[m] # "done",
         NEW o, o # "confirmed",
         outcome' = outcome \/ outcome' = [outcome EXCEPT ![m] = o]
  PROVE  Succeeded' = Succeeded
BY DEF Succeeded, ReportIsTrue, TypeOK, TaskTypeOK

\* A task step that leaves the chain alone and the message at work is a stutter
\* of Delivery, and keeps the reports true.
LEMMA TaskStutters ==
  ASSUME TypeOK, ReportIsTrue, NEW m \in Messages, pc[m] \in TaskPoints,
         NEW p \in TaskPoints, pc' = [pc EXCEPT ![m] = p],
         p = "confirm" => m \in Executed,
         NEW o, o # "confirmed",
         outcome' = outcome \/ outcome' = [outcome EXCEPT ![m] = o],
         UNCHANGED <<mined, reverted>>
  PROVE  UNCHANGED D!vars /\ ReportIsTrue'
<1>1. pc[m] # "done"
  BY DEF TaskPoints, HoldingPoints
<1>2. Succeeded' = Succeeded
  BY <1>1, OutcomeMove
<1>3. Executed' = Executed
  BY DEF Executed
<1>4. Phase' = Phase
  <2>1. Phase' = [Phase EXCEPT ![m] = "active"]
    <3>1. Phase' = [Phase EXCEPT ![m] = PhaseAt(p)]
      BY PhaseMove
    <3>2. PhaseAt(p) = "active"
      BY Phases
    <3>3. QED
      BY <3>1, <3>2
  <2>2. Phase[m] = "active"
    BY Phases DEF Phase
  <2>3. QED
    BY <2>1, <2>2 DEF Phase
<1>5. ReportIsTrue'
  <2>1. \A k \in Messages : pc'[k] = (IF k = m THEN p ELSE pc[k])
    BY DEF TypeOK, TaskTypeOK
  <2>2. \A k \in Messages : outcome'[k] = "confirmed" => outcome[k] = "confirmed"
    BY DEF TypeOK, TaskTypeOK
  <2>3. QED
    BY <1>1, <1>3, <2>1, <2>2 DEF ReportIsTrue
<1>6. QED
  BY <1>2, <1>3, <1>4, <1>5 DEF D!vars

\* A task that ends without a confirmation.
LEMMA TaskEnds ==
  ASSUME TypeOK, ReportIsTrue, NEW m \in Messages, pc[m] \in TaskPoints,
         pc' = [pc EXCEPT ![m] = "done"],
         NEW o, o # "confirmed",
         outcome' = outcome \/ outcome' = [outcome EXCEPT ![m] = o],
         UNCHANGED <<mined, reverted>>
  PROVE  D!EndWithout(m) /\ ReportIsTrue'
<1>1. pc[m] # "done"
  BY DEF TaskPoints, HoldingPoints
<1>2. Succeeded' = Succeeded
  BY <1>1, OutcomeMove
<1>3. Executed' = Executed
  BY DEF Executed
<1>4. Phase' = [Phase EXCEPT ![m] = "ended"] /\ Phase[m] = "active"
  BY PhaseMove, Phases DEF Phase
<1>5. ReportIsTrue'
  <2>1. \A k \in Messages : pc'[k] = (IF k = m THEN "done" ELSE pc[k])
    BY DEF TypeOK, TaskTypeOK
  <2>2. \A k \in Messages : outcome'[k] = "confirmed" => outcome[k] = "confirmed"
    BY DEF TypeOK, TaskTypeOK
  <2>3. QED
    BY <1>3, <2>1, <2>2 DEF ReportIsTrue
<1>6. QED
  BY <1>2, <1>3, <1>4, <1>5 DEF D!EndWithout

\* add_message is Submit.
LEMMA AddSubmits ==
  ASSUME TypeOK, ReportIsTrue, NEW m \in Messages, add_message(m)
  PROVE  D!Submit(m) /\ ReportIsTrue'
<1>1. /\ pc[m] = "new" /\ pc' = [pc EXCEPT ![m] = "queued"]
      /\ UNCHANGED <<mined, reverted, outcome>>
  BY DEF add_message, nodeVars
<1>2. Executed' = Executed /\ Succeeded' = Succeeded
  BY <1>1 DEF Executed, Succeeded
<1>3. Phase' = [Phase EXCEPT ![m] = "waiting"] /\ Phase[m] = "new"
  BY <1>1, PhaseMove, Phases DEF Phase
<1>4. ReportIsTrue'
  BY <1>1, <1>2 DEF ReportIsTrue, TypeOK, TaskTypeOK
<1>5. QED
  BY <1>2, <1>3, <1>4 DEF D!Submit

\* spawn is Start: the permit that process_next_message holds is a free slot.
LEMMA SpawnStarts ==
  ASSUME TypeOK, QueueOwnsQueued, PermitInv, ReportIsTrue, spawn
  PROVE  (\E m \in Messages : D!Start(m)) /\ ReportIsTrue'
<1>1. PICK e \in queue : pc' = [pc EXCEPT ![e.msg] = "spawned"]
  BY DEF spawn
<1>2. e.msg \in Messages /\ pc[e.msg] = "queued" /\ UNCHANGED <<mined, reverted, outcome>>
  BY DEF TypeOK, QueueTypeOK, QueueOwnsQueued, spawn, nodeVars
<1>3. Executed' = Executed /\ Succeeded' = Succeeded
  BY <1>2 DEF Executed, Succeeded
<1>4. Phase' = [Phase EXCEPT ![e.msg] = "active"] /\ Phase[e.msg] = "waiting"
  <2>1. PhaseAt("spawned") = "active" /\ PhaseAt("queued") = "waiting"
    BY Phases DEF TaskPoints
  <2>2. QED
    BY <1>1, <1>2, <2>1, PhaseMove DEF Phase
<1>5. Cardinality({k \in Messages : Phase[k] = "active"}) < MAX_IN_FLIGHT_TRANSACTIONS
  <2>1. {k \in Messages : Phase[k] = "active"} = Tasks
    BY Phases DEF Phase, Tasks, TypeOK, TaskTypeOK
  <2>2. loop = "lock"
    BY DEF spawn
  <2>3. Cardinality(Tasks) < MAX_IN_FLIGHT_TRANSACTIONS
    BY <2>2, CountsType DEF PermitInv, PermitsConserved
  <2>4. QED
    BY <2>1, <2>3
<1>6. ReportIsTrue'
  BY <1>1, <1>2, <1>3 DEF ReportIsTrue, TypeOK, TaskTypeOK
<1>7. D!Cardinality({k \in Messages : Phase[k] = "active"})
      = Cardinality({k \in Messages : Phase[k] = "active"})
  BY DEF D!Cardinality, Cardinality
<1>8. D!Start(e.msg)
  BY <1>3, <1>4, <1>5, <1>7 DEF D!Start
<1>9. QED
  BY Zenon, <1>2, <1>6, <1>8

\* handle_confirmed is EndWithSuccess.
LEMMA ConfirmSucceeds ==
  ASSUME TypeOK, ReportIsTrue, NEW m \in Messages, handle_confirmed(m)
  PROVE  D!EndWithSuccess(m) /\ ReportIsTrue'
<1>1. /\ pc[m] = "confirm" /\ pc' = [pc EXCEPT ![m] = "done"]
      /\ outcome' = [outcome EXCEPT ![m] = "confirmed"]
      /\ UNCHANGED <<mined, reverted>>
  BY DEF handle_confirmed, nodeVars
<1>2. Executed' = Executed /\ m \in Executed
  BY <1>1 DEF Executed, ReportIsTrue
<1>3. Succeeded' = Succeeded \cup {m}
  BY <1>1 DEF Succeeded, TypeOK, TaskTypeOK
<1>4. Phase' = [Phase EXCEPT ![m] = "ended"] /\ Phase[m] = "active"
  <2>1. PhaseAt("done") = "ended" /\ PhaseAt("confirm") = "active"
    BY Phases DEF TaskPoints, HoldingPoints
  <2>2. QED
    BY <1>1, <2>1, PhaseMove DEF Phase
<1>5. ReportIsTrue'
  <2>1. \A k \in Messages \ {m} : pc'[k] = pc[k] /\ outcome'[k] = outcome[k]
    BY <1>1 DEF TypeOK, TaskTypeOK
  <2>2. pc'[m] = "done"
    BY <1>1 DEF TypeOK, TaskTypeOK
  <2>3. QED
    BY <1>2, <2>1, <2>2 DEF ReportIsTrue
<1>6. QED
  BY <1>2, <1>3, <1>4, <1>5 DEF D!EndWithSuccess

\* What a block takes is Execute, when it is a caller's message and succeeds: no
\* transaction of the message is in a block before, because it would have the
\* same nonce.
LEMMA MineExecutes ==
  ASSUME TypeOK, ChainInv, OnceInv, ReportIsTrue, NodeStep
  PROVE  /\ (\E m \in Messages : D!Execute(m)) \/ UNCHANGED D!vars
         /\ ReportIsTrue'
<1>1. UNCHANGED <<pc, outcome>>
  BY DEF NodeStep, taskVars
<1>2. Phase' = Phase /\ Succeeded' = Succeeded
  BY <1>1 DEF Phase, Succeeded
<1>3. ASSUME Executed \subseteq Executed' PROVE ReportIsTrue'
  BY <1>1, <1>3 DEF ReportIsTrue
<1>4. CASE Evict
  <2>1. Executed' = Executed
    BY <1>4 DEF Evict, Executed
  <2>2. QED
    BY <1>2, <1>3, <2>1 DEF D!vars
<1>5. CASE Mine
  <2>1. PICK tx \in mempool :
          /\ tx.nonce = account_nonce
          /\ mined' = mined \cup {tx}
          /\ reverted' \in {reverted, reverted \cup {tx}}
    BY <1>5 DEF Mine
  <2>2. tx \in Tx /\ account_nonce \in Nat
    BY DEF TypeOK, NodeTypeOK
  <2>3. tx \notin mined /\ reverted \subseteq mined
    BY <2>1, <2>2 DEF ChainInv, MinedInOrder, TypeOK, NodeTypeOK
  <2>4. CASE reverted' = reverted \cup {tx}
    <3>1. mined' \ reverted' = mined \ reverted
      BY <2>1, <2>3, <2>4
    <3>2. Executed' = Executed
      BY Zenon, <3>1 DEF Executed
    <3>3. QED
      BY <1>2, <1>3, <3>2 DEF D!vars
  <2>5. CASE reverted' = reverted
    <3>1. mined' \ reverted' = (mined \ reverted) \cup {tx}
      BY <2>1, <2>3, <2>5
    <3>2. CASE tx.msg \notin Messages
      <4>1. Executed' = Executed
        BY <3>1, <3>2 DEF Executed
      <4>2. QED
        BY <1>2, <1>3, <4>1 DEF D!vars
    <3>3. CASE tx.msg \in Messages
      <4>1. Executed' = Executed \cup {tx.msg}
        BY <3>1, <3>3 DEF Executed
      <4>2. pc[tx.msg] \notin {"new", "queued", "spawned"} /\ tx.nonce = replay_token[tx.msg]
        BY <3>3 DEF OnceInv, OneNoncePerMessage
      <4>3. tx.msg \notin Executed
        <5>1. ASSUME NEW t \in mined, t.msg = tx.msg PROVE FALSE
          <6>1. t.nonce = tx.nonce
            BY <3>3, <4>2, <5>1 DEF OnceInv, OneNoncePerMessage
          <6>2. t.nonce < account_nonce
            BY DEF ChainInv, MinedInOrder
          <6>3. QED
            BY <2>1, <2>2, <6>1, <6>2
        <5>2. QED
          BY <5>1 DEF Executed
      <4>4. Phase[tx.msg] \in {"active", "ended"}
        <5>1. pc[tx.msg] \in TaskPoints \cup {"done"}
          BY <3>3, <4>2 DEF TypeOK, TaskTypeOK, MessagePoints
        <5>2. QED
          BY <3>3, <5>1, Phases DEF Phase
      <4>5. D!Execute(tx.msg)
        BY <1>2, <4>1, <4>3, <4>4 DEF D!Execute
      <4>6. QED
        BY <1>3, <3>3, <4>1, <4>5
    <3>4. QED
      BY <3>2, <3>3
  <2>6. QED
    BY <2>1, <2>4, <2>5
<1>6. QED
  BY <1>4, <1>5 DEF NodeStep

\* Every step of a task: it goes on with its message, or ends.
LEMMA TaskDelivers ==
  ASSUME EthLimits, TypeOK, RetryBudget, UniqueInv, OnceInv, ReportIsTrue,
         NEW m \in Messages, TaskStep(m)
  PROVE  /\ D!EndWithout(m) \/ D!EndWithSuccess(m) \/ UNCHANGED D!vars
         /\ ReportIsTrue'
<1> USE DEF TaskPoints, HoldingPoints
<1>1. CASE process_message(m)
  <2>1. pc[m] = "spawned" /\ UNCHANGED <<mined, reverted>>
    BY <1>1 DEF process_message, nodeVars
  <2>2. CASE m \in expired
    <3>1. pc' = [pc EXCEPT ![m] = "done"] /\ outcome' = [outcome EXCEPT ![m] = "expired"]
      BY <1>1, <2>2 DEF process_message
    <3>2. QED
      BY <2>1, <3>1, TaskEnds
  <2>3. CASE m \notin expired
    <3>1. pc' = [pc EXCEPT ![m] = "fee"] /\ outcome' = outcome
      BY <1>1, <2>3 DEF process_message
    <3>2. QED
      BY <2>1, <3>1, TaskStutters
  <2>4. QED
    BY <2>2, <2>3
<1>2. CASE get_fee_params(m) \/ send_transaction(m)
  <2>1. pc[m] \in {"fee", "sending"} /\ UNCHANGED <<mined, reverted>>
    BY <1>2 DEF get_fee_params, send_transaction, Accept, nodeVars
  <2>2. PICK p \in {"release", "sending", "watching"} : pc' = [pc EXCEPT ![m] = p]
    BY <1>2 DEF get_fee_params, send_transaction, GiveUp, SendUnlessExpired
  <2>3. PICK o \in {"error", "expired"} :
          outcome' = outcome \/ outcome' = [outcome EXCEPT ![m] = o]
    BY <1>2 DEF get_fee_params, send_transaction, GiveUp, SendUnlessExpired
  <2>4. QED
    BY <2>1, <2>2, <2>3, TaskStutters
<1>3. CASE watch_confirmed(m)
  <2>1. /\ pc[m] = "watching" /\ pc' = [pc EXCEPT ![m] = "confirm"]
        /\ CurrentTx(m) \in mined \ reverted
        /\ UNCHANGED <<mined, reverted, outcome>>
    BY <1>3 DEF watch_confirmed, nodeVars
  <2>2. m \in Executed
    BY <2>1 DEF Executed, CurrentTx
  <2>3. QED
    BY <2>1, <2>2, TaskStutters
<1>4. CASE watch_reverted(m) \/ watch_dropped(m)
  <2>1. pc[m] = "watching" /\ OnDropped(m) /\ UNCHANGED <<mined, reverted>>
    BY <1>4 DEF watch_reverted, watch_dropped, nodeVars
  <2>2. PICK p \in {"release", "sending"} : pc' = [pc EXCEPT ![m] = p]
    BY <2>1, DroppedResubmits DEF EthLimits, SafeLimits
  <2>3. PICK o \in {"expired", "max_retries"} :
          outcome' = outcome \/ outcome' = [outcome EXCEPT ![m] = o]
    BY <2>1, DroppedNotRequeued
  <2>4. QED
    BY <2>1, <2>2, <2>3, TaskStutters
<1>5. CASE handle_confirmed(m)
  BY <1>5, ConfirmSucceeds
<1>6. CASE release_nonce(m) \/ requeue(m)
  BY <1>6 DEF release_nonce, requeue, OnceInv, NeverRequeued
<1>7. CASE release(m)
  <2>1. /\ pc[m] = "release" /\ pc' = [pc EXCEPT ![m] = "done"]
        /\ UNCHANGED <<mined, reverted, outcome>>
    BY <1>7 DEF release, nodeVars, OnceInv, NeverRequeued
  <2>2. QED
    BY <2>1, TaskEnds
<1>8. QED
  BY <1>1, <1>2, <1>3, <1>4, <1>5, <1>6, <1>7 DEF TaskStep

\* Every step of Sender is a step of Delivery or none.
LEMMA DeliveryStep ==
  ASSUME EthLimits, TypeOK, RetryBudget, QueueOwnsQueued, ChainInv, UniqueInv, PermitInv,
         OnceInv, ReportIsTrue, [Next]_vars
  PROVE  [D!Next]_(D!vars) /\ ReportIsTrue'
<1>1. ASSUME UNCHANGED <<mined, reverted, pc, outcome>>
      PROVE  [D!Next]_(D!vars) /\ ReportIsTrue'
  <2>1. Phase' = Phase /\ Executed' = Executed /\ Succeeded' = Succeeded
    BY <1>1 DEF Phase, Executed, Succeeded
  <2>2. ReportIsTrue'
    BY <1>1, <2>1 DEF ReportIsTrue
  <2>3. QED
    BY <2>1, <2>2 DEF D!vars
<1>2. CASE spawn
  BY <1>2, SpawnStarts DEF D!Next
<1>3. ASSUME NEW m \in Messages, TaskStep(m)
      PROVE  [D!Next]_(D!vars) /\ ReportIsTrue'
  BY <1>3, TaskDelivers DEF D!Next
<1>4. ASSUME NEW m \in Messages, add_message(m)
      PROVE  [D!Next]_(D!vars) /\ ReportIsTrue'
  BY <1>4, AddSubmits DEF D!Next
<1>5. CASE NodeStep
  BY <1>5, MineExecutes DEF D!Next
<1>6. CASE sync_fetch \/ sync_apply
  BY <1>1, <1>6 DEF sync_fetch, sync_apply, nodeVars, taskVars
<1>7. UNCHANGED <<nodeVars, taskVars>> => UNCHANGED <<mined, reverted, pc, outcome>>
  BY DEF nodeVars, taskVars
<1>8. QED
  BY <1>1, <1>2, <1>3, <1>4, <1>5, <1>6, <1>7, QuietStep DEF Next, RunStep, Environment

\* Sender with the Ethereum strategy implements Delivery, for any number of
\* messages and permits: process_next_message starts a message only when a slot
\* is free, a message is executed at most once and never before it was started,
\* it ends once, and success is reported only for what the chain has executed.
THEOREM SenderImplementsDelivery == ASSUME EthLimits PROVE Spec => ImplementsDelivery
<1>1. Init => D!Init /\ ReportIsTrue
  <2> SUFFICES ASSUME Init PROVE D!Init /\ ReportIsTrue
    OBVIOUS
  <2>1. Phase = [m \in Messages |-> "new"]
    BY Phases DEF Init, Phase
  <2>2. Executed = {} /\ Succeeded = {}
    BY DEF Init, NodeInit, Executed, Succeeded
  <2>3. ReportIsTrue
    BY DEF Init, ReportIsTrue
  <2>4. QED
    BY <2>1, <2>2, <2>3 DEF D!Init
<1>2. /\ TypeOK /\ RetryBudget /\ QueueOwnsQueued /\ ChainInv /\ UniqueInv /\ PermitInv
      /\ OnceInv /\ ReportIsTrue /\ [Next]_vars
      => [D!Next]_(D!vars) /\ ReportIsTrue'
  BY DeliveryStep
<1>3. Spec => []UniqueInv
  BY UniqueInvariant DEF EthLimits, SafeLimits
<1>4. Spec => []OnceInv
  BY OnceInvariant
<1>5. QED
  BY <1>1, <1>2, <1>3, <1>4, BasicInvariant, PermitInvariant, PTL
     DEF Spec, ImplementsDelivery, D!Spec
=============================================================================
