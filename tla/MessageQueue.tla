---------------------------- MODULE MessageQueue ----------------------------
(***************************************************************************)
(* Messages and the queue that orders them: crates/bulkmail/src/message.rs *)
(* and priority_queue.rs, under a clock that moves on (clock.rs).          *)
(*                                                                         *)
(* A caller creates a message, hands it to the queue some time later, and  *)
(* the sender pops it; after a dropped transaction it may be pushed once   *)
(* more.  The queue is ordered by the priority computed at the push.       *)
(***************************************************************************)
EXTENDS Integers

CONSTANTS
  Messages,
  MAX_PRIORITY,
  MAX_RETRIES,
  BLOCK_TIME_MS,
  DEADLINE_BOOST_NEAR_BLOCKS,
  DEADLINE_BOOST_FAR_BLOCKS,
  RequestedPriorities,   \* priorities that callers ask for
  Deadlines,             \* deadlines that callers set
  LastCreation,          \* bound: no message is created later
  LastTime               \* bound: the clock stops here

\* POINTS_PER_BLOCK is 1 and left out.  All of the arithmetic stays far below
\* the widths of u32 and u64.
ASSUME MessageQueueAssumption ==
  /\ MAX_PRIORITY \in Nat /\ MAX_PRIORITY >= 3
  /\ MAX_RETRIES \in Nat
  /\ BLOCK_TIME_MS \in Nat \ {0}
  /\ DEADLINE_BOOST_NEAR_BLOCKS \in Nat
  /\ DEADLINE_BOOST_FAR_BLOCKS \in Nat
  /\ DEADLINE_BOOST_NEAR_BLOCKS < DEADLINE_BOOST_FAR_BLOCKS
  /\ RequestedPriorities \subseteq Nat
  /\ Deadlines \subseteq Nat
  /\ LastCreation \in Nat
  /\ LastTime \in Nat

VARIABLES
  now_ms,      \* the clock
  message,     \* the fields of a message that the priority depends on
  place,       \* where the message is
  heap         \* PrioritizedMessage entries

vars == <<now_ms, message, place, heap>>

None == -1     \* Option::None, of a deadline and of a deadline factor

MessageFields ==
  [priority : 0 .. MAX_PRIORITY, deadline_ms : Deadlines \cup {None},
   created_at_ms : Nat, retry_count : Nat]

\* The type invariant.
TypeOK ==
  /\ now_ms \in Nat
  /\ message \in [Messages -> MessageFields]
  /\ place \in [Messages -> {"nowhere", "caller", "queue", "task", "sent"}]
  /\ heap \subseteq [message : Messages, effective_priority : Nat]

-----------------------------------------------------------------------------
(* message.rs *)

\* The boost between the two thresholds: linear from MAX_PRIORITY down to a
\* third of it.
LinearBoost(remaining_blocks) ==
  LET range == DEADLINE_BOOST_FAR_BLOCKS - DEADLINE_BOOST_NEAR_BLOCKS
      dist_from_near == remaining_blocks - DEADLINE_BOOST_NEAR_BLOCKS
      min_boost == MAX_PRIORITY \div 3
  IN MAX_PRIORITY - ((MAX_PRIORITY - min_boost) * dist_from_near) \div range

\* Mutant: the boost grows with the distance.
DeadlineFactorReversed(m, now) ==
  LET abs_deadline_ms == m.created_at_ms + m.deadline_ms
      remaining_blocks == (abs_deadline_ms - now) \div BLOCK_TIME_MS
  IN IF m.deadline_ms = None THEN None
     ELSE IF now >= abs_deadline_ms THEN 0
     ELSE IF remaining_blocks < DEADLINE_BOOST_NEAR_BLOCKS THEN MAX_PRIORITY \div 3
     ELSE IF remaining_blocks < DEADLINE_BOOST_FAR_BLOCKS THEN LinearBoost(remaining_blocks)
     ELSE None

deadline_factor(m, now) ==
  LET abs_deadline_ms == m.created_at_ms + m.deadline_ms
      remaining_blocks == (abs_deadline_ms - now) \div BLOCK_TIME_MS
  IN IF m.deadline_ms = None THEN None
     ELSE IF now >= abs_deadline_ms THEN 0
     ELSE IF remaining_blocks < DEADLINE_BOOST_NEAR_BLOCKS THEN MAX_PRIORITY
     ELSE IF remaining_blocks < DEADLINE_BOOST_FAR_BLOCKS THEN LinearBoost(remaining_blocks)
     ELSE None

\* now_ms.saturating_sub(created_at_ms), in blocks.
age_factor(m, now) ==
  IF now < m.created_at_ms THEN 0 ELSE (now - m.created_at_ms) \div BLOCK_TIME_MS

effective_priority(m, now) ==
  LET boost == deadline_factor(m, now) IN
    IF boost = 0 THEN 0
    ELSE m.priority + m.retry_count + age_factor(m, now) + (IF boost = None THEN 0 ELSE boost)

\* Mutant: the deadline itself still counts as in time.
IsExpiredLate(m, now) == m.deadline_ms # None /\ now > m.created_at_ms + m.deadline_ms

is_expired(m, now) == m.deadline_ms # None /\ now >= m.created_at_ms + m.deadline_ms

can_retry(m) == m.retry_count < MAX_RETRIES

-----------------------------------------------------------------------------
(* Actions *)

Init ==
  /\ now_ms = 0
  /\ message = [m \in Messages |->
                  [priority |-> 0, deadline_ms |-> None, created_at_ms |-> 0, retry_count |-> 0]]
  /\ place = [m \in Messages |-> "nowhere"]
  /\ heap = {}

\* Mutant: the priority is taken as the caller gave it.
Unclamped(p) == p

\* priority.min(MAX_PRIORITY).
Clamped(p) == IF p <= MAX_PRIORITY THEN p ELSE MAX_PRIORITY

\* Message::new.
new(m) ==
  /\ place[m] = "nowhere"
  /\ now_ms <= LastCreation
  /\ \E p \in RequestedPriorities, d \in Deadlines \cup {None} :
       message' = [message EXCEPT ![m] =
                     [priority |-> Clamped(p),
                      deadline_ms |-> d, created_at_ms |-> now_ms, retry_count |-> 0]]
  /\ place' = [place EXCEPT ![m] = "caller"]
  /\ UNCHANGED <<now_ms, heap>>

\* Mutant: every message gets the full deadline boost.
PushedPriorityBoosted(m) == message[m].priority + MAX_PRIORITY

PushedPriority(m) == effective_priority(message[m], now_ms)

\* PriorityQueue::push, by a caller.
push(m) ==
  /\ place[m] = "caller"
  /\ heap' = heap \cup {[message |-> m, effective_priority |-> PushedPriority(m)]}
  /\ place' = [place EXCEPT ![m] = "queue"]
  /\ UNCHANGED <<now_ms, message>>

\* Mutant: a min-heap.
PopLowest(e) == \A f \in heap : e.effective_priority <= f.effective_priority

PopHighest(e) == \A f \in heap : f.effective_priority <= e.effective_priority

\* PriorityQueue::pop; the order of equal entries is not specified.
pop ==
  \E e \in heap :
    /\ PopHighest(e)
    /\ heap' = heap \ {e}
    /\ place' = [place EXCEPT ![e.message] = "task"]
    /\ UNCHANGED <<now_ms, message>>

\* The task discards an expired message and sends any other one.
process_message(m) ==
  /\ place[m] = "task"
  /\ place' = [place EXCEPT ![m] = IF is_expired(message[m], now_ms) THEN "nowhere" ELSE "sent"]
  /\ UNCHANGED <<now_ms, message, heap>>

\* The transaction is dropped.  With retries left a strategy may requeue the
\* message, which then is where a caller's is before add_message.
increment_retry(m) ==
  /\ place[m] = "sent"
  /\ message' = [message EXCEPT ![m].retry_count = @ + 1]
  /\ place' = [place EXCEPT ![m] = IF can_retry(message'[m]) THEN "caller" ELSE "nowhere"]
  /\ UNCHANGED <<now_ms, heap>>

\* SystemClock::now_ms moves on; it does not step back.
Tick ==
  /\ now_ms < LastTime
  /\ now_ms' = now_ms + 1
  /\ UNCHANGED <<message, place, heap>>

Next ==
  \/ \E m \in Messages : new(m) \/ push(m) \/ process_message(m) \/ increment_retry(m)
  \/ pop
  \/ Tick

Spec == Init /\ [][Next]_vars

-----------------------------------------------------------------------------
(* Properties *)

Live == {m \in Messages : place[m] # "nowhere"}

Urgency(m) == effective_priority(message[m], now_ms)

\* effective_priority and is_expired, two separate computations, agree on what
\* has expired: an expired message counts 0, and any other one counts at least
\* its priority, retries and age; a boost that came out as 0 would be taken for
\* an expired deadline.
ExpiryAgrees ==
  \A m \in Live :
    IF is_expired(message[m], now_ms)
    THEN Urgency(m) = 0
    ELSE Urgency(m) >= message[m].priority + message[m].retry_count + age_factor(message[m], now_ms)

\* A message gets more urgent as time passes, through every threshold of its
\* deadline, until it has expired.
UrgencyNeverFalls ==
  [][\A m \in Live :
       now_ms' > now_ms /\ ~is_expired(message[m], now_ms') =>
         effective_priority(message[m], now_ms') >= Urgency(m)]_vars

\* The priority that the heap has frozen is never above the one its message has
\* now, unless the message has expired in the queue.
FrozenPriorityIsLowerBound ==
  \A e \in heap :
    ~is_expired(message[e.message], now_ms) => e.effective_priority <= Urgency(e.message)

\* How wrong the frozen order can get: when pop prefers a message that has not
\* expired, the one it passes over is at most one full deadline boost and its own
\* age more urgent.
InversionIsBounded ==
  \A e, f \in heap :
    PopHighest(e) /\ ~is_expired(message[e.message], now_ms) =>
      Urgency(f.message) <= Urgency(e.message) + MAX_PRIORITY + age_factor(message[f.message], now_ms)

-----------------------------------------------------------------------------
(* What the proofs in MessageQueueProofs strengthen these properties with. *)

\* The heap holds the messages that are queued, each of them once, and every
\* message was created in the past.
HeapHoldsQueued ==
  /\ \A e \in heap : place[e.message] = "queue"
  /\ \A e, f \in heap : e.message = f.message => e = f
  /\ \A m \in Messages : message[m].created_at_ms <= now_ms

\* A frozen priority counts at least the message's priority and retries.
FrozenPriorityCoversBase ==
  \A e \in heap :
    ~is_expired(message[e.message], now_ms) =>
      e.effective_priority >= message[e.message].priority + message[e.message].retry_count
=============================================================================
