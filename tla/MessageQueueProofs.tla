------------------------- MODULE MessageQueueProofs -------------------------
(***************************************************************************)
(* Proofs about MessageQueue, for every scale of priorities, block times,  *)
(* thresholds and deadlines, and any number of messages.                   *)
(***************************************************************************)
EXTENDS MessageQueue, TLAPS

-----------------------------------------------------------------------------
(* Lemmas about the arithmetic *)

\* A quotient is the integer it is squeezed to.
LEMMA DivBounds ==
  ASSUME NEW x \in Nat, NEW r \in Nat \ {0}
  PROVE  /\ x \div r \in Nat
         /\ r * (x \div r) <= x
         /\ x < r * (x \div r) + r
  OBVIOUS

\* Multiplication by a natural number is monotone.
LEMMA TimesMonotone ==
  ASSUME NEW a \in Nat, NEW b \in Nat, NEW c \in Nat, b >= c
  PROVE  a * b \in Nat /\ a * c \in Nat /\ a * b >= a * c
  <1> DEFINE d == b - c
  <1>1. d \in Nat /\ b = c + d
    OBVIOUS
  <1>2. a * d \in Nat /\ a * c \in Nat
    BY <1>1
  <1>3. a * b = a * c + a * d
    BY <1>1
  <1> QED
    BY <1>2, <1>3

\* Integer division is monotone in the dividend.
LEMMA DivMonotone ==
  ASSUME NEW x \in Nat, NEW y \in Nat, NEW r \in Nat \ {0}, x <= y
  PROVE  x \div r <= y \div r
  <1> DEFINE p == x \div r
             q == y \div r
  <1>1. p \in Nat /\ q \in Nat /\ r * p <= x /\ y < r * q + r
    BY DivBounds
  <1>2. SUFFICES ASSUME p >= q + 1 PROVE FALSE
    BY <1>1
  <1> HIDE DEF p, q
  <1>3. r * p >= r * (q + 1)
    BY <1>1, <1>2, TimesMonotone
  <1>4. r * (q + 1) = r * q + r
    BY <1>1
  <1>5. r * p \in Nat /\ r * q \in Nat
    BY <1>1
  <1> QED
    BY <1>1, <1>3, <1>4, <1>5

\* a * d \div r is at most a when d is at most r.
LEMMA ScaledDown ==
  ASSUME NEW a \in Nat, NEW d \in Nat, NEW r \in Nat \ {0}, d <= r
  PROVE  (a * d) \div r \in Nat /\ (a * d) \div r <= a
  <1>1. a * d \in Nat /\ a * r \in Nat /\ a * r >= a * d
    BY TimesMonotone
  <1>2. (a * d) \div r <= (a * r) \div r
    BY <1>1, DivMonotone
  <1>3. (a * r) \div r = a
    <2> DEFINE q == (a * r) \div r
    <2>1. q \in Nat /\ r * q <= a * r /\ a * r < r * q + r
      BY <1>1, DivBounds
    <2> HIDE DEF q
    <2>2. ~(q >= a + 1)
      <3> SUFFICES ASSUME q >= a + 1 PROVE FALSE
        OBVIOUS
      <3>1. r * q >= r * (a + 1)
        BY <2>1, TimesMonotone
      <3>2. r * (a + 1) = a * r + r
        OBVIOUS
      <3>3. r * q \in Nat
        BY <2>1
      <3> QED
        BY <1>1, <2>1, <3>1, <3>2, <3>3
    <2>3. ~(a >= q + 1)
      <3> SUFFICES ASSUME a >= q + 1 PROVE FALSE
        OBVIOUS
      <3>1. r * a >= r * (q + 1)
        BY <2>1, TimesMonotone
      <3>2. r * (q + 1) = r * q + r /\ r * a = a * r
        BY <2>1
      <3>3. r * q \in Nat
        BY <2>1
      <3> QED
        BY <1>1, <2>1, <3>1, <3>2, <3>3
    <2>4. q = a
      BY <2>1, <2>2, <2>3
    <2> QED
      BY <2>4 DEF q
  <1>4. (a * d) \div r \in Nat
    BY <1>1, DivBounds
  <1> QED
    BY <1>1, <1>2, <1>3, <1>4

-----------------------------------------------------------------------------
(* Lemmas about message.rs *)

\* Between the thresholds the boost stays between a third and all of
\* MAX_PRIORITY.
LEMMA BoostRange ==
  ASSUME NEW b \in Nat, DEADLINE_BOOST_NEAR_BLOCKS <= b, b < DEADLINE_BOOST_FAR_BLOCKS
  PROVE  LinearBoost(b) \in Nat /\ LinearBoost(b) >= 1 /\ LinearBoost(b) <= MAX_PRIORITY
  <1> USE MessageQueueAssumption
  <1> DEFINE range == DEADLINE_BOOST_FAR_BLOCKS - DEADLINE_BOOST_NEAR_BLOCKS
             dist == b - DEADLINE_BOOST_NEAR_BLOCKS
             a == MAX_PRIORITY - (MAX_PRIORITY \div 3)
  <1>1. range \in Nat \ {0} /\ dist \in Nat /\ dist <= range
    OBVIOUS
  <1>2. a \in Nat /\ a <= MAX_PRIORITY - 1
    OBVIOUS
  <1>3. LinearBoost(b) = MAX_PRIORITY - ((a * dist) \div range)
    BY DEF LinearBoost
  <1> HIDE DEF range, dist, a
  <1>4. (a * dist) \div range \in Nat /\ (a * dist) \div range <= a
    BY <1>1, <1>2, ScaledDown
  <1> QED
    BY <1>2, <1>3, <1>4

\* Fewer blocks left, more boost.
LEMMA BoostGrowsNearer ==
  ASSUME NEW b \in Nat, NEW c \in Nat,
         DEADLINE_BOOST_NEAR_BLOCKS <= c, c <= b, b < DEADLINE_BOOST_FAR_BLOCKS
  PROVE  LinearBoost(b) <= LinearBoost(c)
  <1> USE MessageQueueAssumption
  <1> DEFINE range == DEADLINE_BOOST_FAR_BLOCKS - DEADLINE_BOOST_NEAR_BLOCKS
             db == b - DEADLINE_BOOST_NEAR_BLOCKS
             dc == c - DEADLINE_BOOST_NEAR_BLOCKS
             a == MAX_PRIORITY - (MAX_PRIORITY \div 3)
  <1>1. range \in Nat \ {0} /\ db \in Nat /\ dc \in Nat /\ dc <= db /\ a \in Nat
    OBVIOUS
  <1>2. /\ LinearBoost(b) = MAX_PRIORITY - ((a * db) \div range)
        /\ LinearBoost(c) = MAX_PRIORITY - ((a * dc) \div range)
    BY DEF LinearBoost
  <1> HIDE DEF range, db, dc, a
  <1>3. a * db \in Nat /\ a * dc \in Nat /\ a * dc <= a * db
    BY <1>1, TimesMonotone
  <1>4. (a * dc) \div range <= (a * db) \div range
    BY <1>1, <1>3, DivMonotone
  <1>5. (a * dc) \div range \in Nat /\ (a * db) \div range \in Nat
    BY <1>1, <1>3, DivBounds
  <1> QED
    BY <1>2, <1>4, <1>5

\* The boost that effective_priority adds.
Boost(m, now) == IF deadline_factor(m, now) = None THEN 0 ELSE deadline_factor(m, now)

\* The blocks left until the deadline of m.
BlocksLeft(m, now) == (m.created_at_ms + m.deadline_ms - now) \div BLOCK_TIME_MS

\* What deadline_factor adds, by the blocks left.
LEMMA BoostCases ==
  ASSUME NEW m \in MessageFields, NEW now \in Nat, ~is_expired(m, now), m.deadline_ms # None
  PROVE  /\ BlocksLeft(m, now) \in Nat
         /\ BlocksLeft(m, now) < DEADLINE_BOOST_NEAR_BLOCKS =>
              deadline_factor(m, now) = MAX_PRIORITY
         /\ DEADLINE_BOOST_NEAR_BLOCKS <= BlocksLeft(m, now)
              /\ BlocksLeft(m, now) < DEADLINE_BOOST_FAR_BLOCKS =>
              deadline_factor(m, now) = LinearBoost(BlocksLeft(m, now))
         /\ DEADLINE_BOOST_FAR_BLOCKS <= BlocksLeft(m, now) =>
              deadline_factor(m, now) = None
  <1> USE MessageQueueAssumption
  <1>0. m.created_at_ms \in Nat /\ m.deadline_ms \in Nat
    BY DEF MessageFields
  <1>1. now < m.created_at_ms + m.deadline_ms
    BY <1>0 DEF is_expired
  <1>2. m.created_at_ms + m.deadline_ms - now \in Nat
    BY <1>0, <1>1
  <1>3. BlocksLeft(m, now) \in Nat
    BY <1>2, DivBounds DEF BlocksLeft
  <1>4. deadline_factor(m, now) =
          IF BlocksLeft(m, now) < DEADLINE_BOOST_NEAR_BLOCKS THEN MAX_PRIORITY
          ELSE IF BlocksLeft(m, now) < DEADLINE_BOOST_FAR_BLOCKS
          THEN LinearBoost(BlocksLeft(m, now)) ELSE None
    BY <1>0, <1>1 DEF deadline_factor, BlocksLeft
  <1> QED
    BY <1>3, <1>4

\* The factor of a message that has not expired is never 0 or above MAX_PRIORITY.
LEMMA FactorOfLive ==
  ASSUME NEW m \in MessageFields, NEW now \in Nat, ~is_expired(m, now)
  PROVE  /\ deadline_factor(m, now) # 0
         /\ Boost(m, now) \in Nat
         /\ Boost(m, now) <= MAX_PRIORITY
  <1> USE MessageQueueAssumption
  <1>1. CASE m.deadline_ms = None
    BY <1>1 DEF deadline_factor, Boost, None
  <1>2. CASE m.deadline_ms # None
    <2> DEFINE b == BlocksLeft(m, now)
    <2>1. CASE b < DEADLINE_BOOST_NEAR_BLOCKS
      BY <1>2, <2>1, BoostCases DEF Boost, None
    <2>2. CASE DEADLINE_BOOST_NEAR_BLOCKS <= b /\ b < DEADLINE_BOOST_FAR_BLOCKS
      <3>1. deadline_factor(m, now) = LinearBoost(b) /\ b \in Nat
        BY <1>2, <2>2, BoostCases
      <3>2. LinearBoost(b) \in Nat /\ LinearBoost(b) >= 1 /\ LinearBoost(b) <= MAX_PRIORITY
        BY <2>2, <3>1, BoostRange
      <3> QED
        BY <3>1, <3>2 DEF Boost, None
    <2>3. CASE DEADLINE_BOOST_FAR_BLOCKS <= b
      BY <1>2, <2>3, BoostCases DEF Boost, None
    <2>4. b \in Nat
      BY <1>2, BoostCases
    <2> QED
      BY <2>1, <2>2, <2>3, <2>4
  <1> QED
    BY <1>1, <1>2

\* Until a message expires its boost only grows.
LEMMA BoostGrows ==
  ASSUME NEW m \in MessageFields, NEW now \in Nat, NEW later \in Nat,
         now <= later, ~is_expired(m, later)
  PROVE  Boost(m, now) <= Boost(m, later)
  <1> USE MessageQueueAssumption
  <1>1. CASE m.deadline_ms = None
    BY <1>1 DEF deadline_factor, Boost
  <1>2. CASE m.deadline_ms # None
    <2> DEFINE b == BlocksLeft(m, now)
               c == BlocksLeft(m, later)
    <2>1. m.created_at_ms \in Nat /\ m.deadline_ms \in Nat
      BY <1>2 DEF MessageFields
    <2>2. ~is_expired(m, now)
      BY <1>2, <2>1 DEF is_expired
    <2>3. b \in Nat /\ c \in Nat
      BY <1>2, <2>2, BoostCases
    <2>4. c <= b
      <3>1. /\ m.created_at_ms + m.deadline_ms - later \in Nat
            /\ m.created_at_ms + m.deadline_ms - now \in Nat
            /\ m.created_at_ms + m.deadline_ms - later <= m.created_at_ms + m.deadline_ms - now
        BY <1>2, <2>1 DEF is_expired
      <3> QED
        BY <3>1, DivMonotone DEF BlocksLeft
    <2>5. CASE DEADLINE_BOOST_FAR_BLOCKS <= b
      <3>1. Boost(m, now) = 0
        BY <1>2, <2>2, <2>5, BoostCases DEF Boost
      <3> QED
        BY <3>1, FactorOfLive
    <2>6. CASE c < DEADLINE_BOOST_NEAR_BLOCKS
      <3>1. Boost(m, later) = MAX_PRIORITY
        BY <1>2, <2>6, BoostCases DEF Boost, None
      <3> QED
        BY <3>1, <2>2, FactorOfLive
    <2>7. CASE DEADLINE_BOOST_NEAR_BLOCKS <= c /\ b < DEADLINE_BOOST_FAR_BLOCKS
      <3>1. deadline_factor(m, now) = LinearBoost(b) /\ deadline_factor(m, later) = LinearBoost(c)
        BY <1>2, <2>2, <2>3, <2>4, <2>7, BoostCases
      <3>2. LinearBoost(b) <= LinearBoost(c)
        BY <2>3, <2>4, <2>7, BoostGrowsNearer
      <3>3. LinearBoost(b) >= 1 /\ LinearBoost(c) >= 1
        BY <2>3, <2>4, <2>7, BoostRange
      <3> QED
        BY <3>1, <3>2, <3>3 DEF Boost, None
    <2> QED
      BY <2>3, <2>5, <2>6, <2>7
  <1> QED
    BY <1>1, <1>2

\* Age is a natural number and only grows.
LEMMA AgeGrows ==
  ASSUME NEW m \in MessageFields, NEW now \in Nat, NEW later \in Nat, now <= later
  PROVE  /\ age_factor(m, now) \in Nat
         /\ age_factor(m, later) \in Nat
         /\ age_factor(m, now) <= age_factor(m, later)
  <1> USE MessageQueueAssumption
  <1>1. m.created_at_ms \in Nat
    BY DEF MessageFields
  <1>2. CASE now < m.created_at_ms
    BY <1>1, <1>2, DivBounds DEF age_factor
  <1>3. CASE now >= m.created_at_ms
    <2>1. /\ now - m.created_at_ms \in Nat /\ later - m.created_at_ms \in Nat
          /\ now - m.created_at_ms <= later - m.created_at_ms
      BY <1>1, <1>3
    <2> QED
      BY <1>1, <1>3, <2>1, DivBounds, DivMonotone DEF age_factor
  <1> QED
    BY <1>1, <1>2, <1>3

\* effective_priority of a message that has not expired is the sum of its parts.
LEMMA EffectiveOfLive ==
  ASSUME NEW m \in MessageFields, NEW now \in Nat, ~is_expired(m, now)
  PROVE  effective_priority(m, now) =
           m.priority + m.retry_count + age_factor(m, now) + Boost(m, now)
  BY FactorOfLive DEF effective_priority, Boost

\* effective_priority of an expired message is 0.
LEMMA EffectiveOfExpired ==
  ASSUME NEW m \in MessageFields, NEW now \in Nat, is_expired(m, now)
  PROVE  effective_priority(m, now) = 0
  BY DEF effective_priority, deadline_factor, is_expired

\* effective_priority is a natural number, as the u32 it is in the code.
LEMMA EffectiveType ==
  ASSUME NEW m \in MessageFields, NEW now \in Nat
  PROVE  effective_priority(m, now) \in Nat
  <1>1. m.priority \in Nat /\ m.retry_count \in Nat
    BY MessageQueueAssumption DEF MessageFields
  <1>2. CASE is_expired(m, now)
    BY <1>2, EffectiveOfExpired
  <1>3. CASE ~is_expired(m, now)
    <2>1. age_factor(m, now) \in Nat
      BY AgeGrows
    <2>2. Boost(m, now) \in Nat
      BY <1>3, FactorOfLive
    <2> QED
      BY <1>1, <1>3, <2>1, <2>2, EffectiveOfLive
  <1> QED
    BY <1>2, <1>3

\* Until a message expires it only gets more urgent.
LEMMA UrgencyGrows ==
  ASSUME NEW m \in MessageFields, NEW now \in Nat, NEW later \in Nat,
         now <= later, ~is_expired(m, later)
  PROVE  /\ ~is_expired(m, now)
         /\ effective_priority(m, now) <= effective_priority(m, later)
  <1>1. m.priority \in Nat /\ m.retry_count \in Nat /\ m.created_at_ms \in Nat
    BY MessageQueueAssumption DEF MessageFields
  <1>2. ~is_expired(m, now)
    <2>1. CASE m.deadline_ms = None
      BY <2>1 DEF is_expired
    <2>2. CASE m.deadline_ms # None
      <3>1. m.deadline_ms \in Nat
        BY <2>2, MessageQueueAssumption DEF MessageFields
      <3> QED
        BY <1>1, <2>2, <3>1 DEF is_expired
    <2> QED
      BY <2>1, <2>2
  <1>3. /\ age_factor(m, now) \in Nat /\ age_factor(m, later) \in Nat
        /\ age_factor(m, now) <= age_factor(m, later)
    BY AgeGrows
  <1>4. Boost(m, now) \in Nat /\ Boost(m, later) \in Nat
    BY <1>2, FactorOfLive
  <1>5. Boost(m, now) <= Boost(m, later)
    BY BoostGrows
  <1> QED
    BY <1>1, <1>2, <1>3, <1>4, <1>5, EffectiveOfLive

-----------------------------------------------------------------------------
(* The inductive invariant *)

IInv ==
  /\ TypeOK
  /\ HeapHoldsQueued
  /\ FrozenPriorityIsLowerBound
  /\ FrozenPriorityCoversBase

\* The invariant holds initially.
LEMMA IInvInit == Init => IInv
  BY MessageQueueAssumption
  DEF Init, IInv, TypeOK, HeapHoldsQueued, FrozenPriorityIsLowerBound,
      FrozenPriorityCoversBase, MessageFields

\* An action that leaves the clock alone, adds nothing to the heap and changes no
\* queued message keeps what is known of the heap.
LEMMA HeapKept ==
  ASSUME IInv, now_ms' = now_ms, heap' \subseteq heap,
         \A m \in Messages : place[m] = "queue" => message'[m] = message[m]
  PROVE  FrozenPriorityIsLowerBound' /\ FrozenPriorityCoversBase'
  BY DEF IInv, TypeOK, HeapHoldsQueued, FrozenPriorityIsLowerBound,
         FrozenPriorityCoversBase, Urgency

\* One step per action of the queue and its users.
LEMMA IInvNext == IInv /\ [Next]_vars => IInv'
  <1> SUFFICES ASSUME IInv, [Next]_vars PROVE IInv'
    OBVIOUS
  <1> USE MessageQueueAssumption
  <1>1. ASSUME NEW m \in Messages, new(m) PROVE IInv'
    <2>1. PICK p \in RequestedPriorities, d \in Deadlines \cup {None} :
            message' = [message EXCEPT ![m] =
                          [priority |-> Clamped(p),
                           deadline_ms |-> d, created_at_ms |-> now_ms, retry_count |-> 0]]
      BY <1>1 DEF new
    <2>2. /\ place[m] = "nowhere" /\ place' = [place EXCEPT ![m] = "caller"]
          /\ now_ms' = now_ms /\ heap' = heap
      BY <1>1 DEF new
    <2>3. TypeOK'
      <3>1. Clamped(p) \in 0 .. MAX_PRIORITY
        BY DEF Clamped
      <3> QED
        BY <2>1, <2>2, <3>1 DEF IInv, TypeOK, MessageFields
    <2>4. HeapHoldsQueued'
      BY <2>1, <2>2 DEF IInv, TypeOK, HeapHoldsQueued, MessageFields
    <2>5. \A k \in Messages : place[k] = "queue" => message'[k] = message[k]
      BY <2>1, <2>2 DEF IInv, TypeOK
    <2> QED
      BY <2>2, <2>3, <2>4, <2>5, HeapKept DEF IInv
  <1>2. ASSUME NEW m \in Messages, push(m) PROVE IInv'
    <2> DEFINE e == [message |-> m, effective_priority |-> Urgency(m)]
    <2>1. /\ place[m] = "caller" /\ place' = [place EXCEPT ![m] = "queue"]
          /\ now_ms' = now_ms /\ message' = message /\ heap' = heap \cup {e}
      BY <1>2 DEF push, PushedPriority, Urgency
    <2>2. message[m] \in MessageFields /\ now_ms \in Nat
      BY DEF IInv, TypeOK
    <2>3. Urgency(m) \in Nat
      BY <2>2, EffectiveType DEF Urgency
    <2>4. TypeOK'
      BY <2>1, <2>3 DEF IInv, TypeOK
    <2>5. HeapHoldsQueued'
      BY <2>1 DEF IInv, TypeOK, HeapHoldsQueued
    <2>6. FrozenPriorityIsLowerBound'
      BY <2>1, <2>3 DEF IInv, TypeOK, FrozenPriorityIsLowerBound, Urgency
    <2>7. ASSUME ~is_expired(message[m], now_ms)
          PROVE  Urgency(m) >= message[m].priority + message[m].retry_count
      <3>1. message[m].priority \in Nat /\ message[m].retry_count \in Nat
        BY <2>2 DEF MessageFields
      <3>2. age_factor(message[m], now_ms) \in Nat
        BY <2>2, AgeGrows
      <3>3. Boost(message[m], now_ms) \in Nat
        BY <2>2, <2>7, FactorOfLive
      <3> QED
        BY <2>2, <2>7, <3>1, <3>2, <3>3, EffectiveOfLive DEF Urgency
    <2>8. FrozenPriorityCoversBase'
      BY <2>1, <2>7 DEF IInv, TypeOK, FrozenPriorityCoversBase
    <2> QED
      BY <2>4, <2>5, <2>6, <2>8 DEF IInv
  <1>3. CASE pop
    <2>1. PICK e \in heap :
            /\ heap' = heap \ {e}
            /\ place' = [place EXCEPT ![e.message] = "task"]
            /\ now_ms' = now_ms /\ message' = message
      BY <1>3 DEF pop
    <2>2. TypeOK'
      BY <2>1 DEF IInv, TypeOK
    <2>3. \A f \in heap' : f.message # e.message
      BY <2>1 DEF IInv, HeapHoldsQueued
    <2>4. HeapHoldsQueued'
      BY <2>1, <2>3 DEF IInv, TypeOK, HeapHoldsQueued
    <2> QED
      BY <2>1, <2>2, <2>4, HeapKept DEF IInv
  <1>4. ASSUME NEW m \in Messages, process_message(m) PROVE IInv'
    <2>1. TypeOK'
      BY <1>4 DEF process_message, IInv, TypeOK
    <2>2. HeapHoldsQueued'
      BY <1>4 DEF process_message, IInv, TypeOK, HeapHoldsQueued
    <2> QED
      BY <1>4, <2>1, <2>2, HeapKept DEF IInv, process_message
  <1>5. ASSUME NEW m \in Messages, increment_retry(m) PROVE IInv'
    <2>1. /\ place[m] = "sent" /\ now_ms' = now_ms /\ heap' = heap
          /\ message' = [message EXCEPT ![m].retry_count = @ + 1]
      BY <1>5 DEF increment_retry
    <2>2. TypeOK'
      BY <1>5, <2>1 DEF increment_retry, IInv, TypeOK, MessageFields
    <2>3. HeapHoldsQueued'
      BY <1>5, <2>1 DEF increment_retry, IInv, TypeOK, HeapHoldsQueued, MessageFields
    <2>4. \A k \in Messages : place[k] = "queue" => message'[k] = message[k]
      BY <2>1 DEF IInv, TypeOK
    <2> QED
      BY <2>1, <2>2, <2>3, <2>4, HeapKept DEF IInv
  <1>6. CASE Tick
    <2>1. /\ now_ms \in Nat /\ now_ms' \in Nat /\ now_ms <= now_ms'
          /\ message' = message /\ place' = place /\ heap' = heap
      BY <1>6 DEF Tick, IInv, TypeOK
    <2>2. TypeOK'
      BY <2>1 DEF IInv, TypeOK
    <2>3. HeapHoldsQueued'
      BY <2>1 DEF IInv, TypeOK, HeapHoldsQueued, MessageFields
    <2>4. ASSUME NEW e \in heap, ~is_expired(message[e.message], now_ms')
          PROVE  /\ ~is_expired(message[e.message], now_ms)
                 /\ effective_priority(message[e.message], now_ms)
                      <= effective_priority(message[e.message], now_ms')
                 /\ effective_priority(message[e.message], now_ms) \in Nat
                 /\ effective_priority(message[e.message], now_ms') \in Nat
      <3>1. message[e.message] \in MessageFields
        BY DEF IInv, TypeOK
      <3> QED
        BY <2>1, <2>4, <3>1, UrgencyGrows, EffectiveType
    <2>5. FrozenPriorityIsLowerBound'
      BY <2>1, <2>4 DEF IInv, TypeOK, FrozenPriorityIsLowerBound, Urgency
    <2>6. FrozenPriorityCoversBase'
      BY <2>1, <2>4 DEF IInv, TypeOK, FrozenPriorityCoversBase
    <2> QED
      BY <2>2, <2>3, <2>5, <2>6 DEF IInv
  <1>7. CASE UNCHANGED vars
    BY <1>7 DEF vars, IInv, TypeOK, HeapHoldsQueued, FrozenPriorityIsLowerBound,
                FrozenPriorityCoversBase, Urgency
  <1> QED
    BY <1>1, <1>2, <1>3, <1>4, <1>5, <1>6, <1>7 DEF Next

-----------------------------------------------------------------------------
(* The theorems *)

\* The invariant holds in all reachable states.
LEMMA Invariance == Spec => []IInv
  <1> QED
    BY IInvInit, IInvNext, PTL DEF Spec

\* What effective_priority and is_expired compute agrees in every state.
LEMMA ExpiryAgreesHere ==
  ASSUME IInv
  PROVE  ExpiryAgrees
  <1> SUFFICES ASSUME NEW m \in Messages
               PROVE  IF is_expired(message[m], now_ms) THEN Urgency(m) = 0
                      ELSE Urgency(m) >= message[m].priority + message[m].retry_count
                                           + age_factor(message[m], now_ms)
    BY DEF ExpiryAgrees, Live
  <1>1. message[m] \in MessageFields /\ now_ms \in Nat
    BY DEF IInv, TypeOK
  <1>2. CASE is_expired(message[m], now_ms)
    BY <1>1, <1>2, EffectiveOfExpired DEF Urgency
  <1>3. CASE ~is_expired(message[m], now_ms)
    <2>1. message[m].priority \in Nat /\ message[m].retry_count \in Nat
      BY <1>1, MessageQueueAssumption DEF MessageFields
    <2>2. age_factor(message[m], now_ms) \in Nat
      BY <1>1, AgeGrows
    <2>3. Boost(message[m], now_ms) \in Nat
      BY <1>1, <1>3, FactorOfLive
    <2> QED
      BY <1>1, <1>3, <2>1, <2>2, <2>3, EffectiveOfLive DEF Urgency
  <1> QED
    BY <1>2, <1>3

\* A message passed over by pop is at most MAX_PRIORITY and its age more urgent
\* than the one popped.
LEMMA InversionBoundedHere ==
  ASSUME IInv
  PROVE  InversionIsBounded
  <1> SUFFICES ASSUME NEW e \in heap, NEW f \in heap,
                      PopHighest(e), ~is_expired(message[e.message], now_ms)
               PROVE  Urgency(f.message) <=
                        Urgency(e.message) + MAX_PRIORITY + age_factor(message[f.message], now_ms)
    BY DEF InversionIsBounded
  <1> DEFINE g == message[f.message]
  <1>1. /\ g \in MessageFields /\ message[e.message] \in MessageFields /\ now_ms \in Nat
        /\ e.effective_priority \in Nat /\ f.effective_priority \in Nat
    BY DEF IInv, TypeOK
  <1>2. Urgency(e.message) \in Nat /\ Urgency(e.message) >= f.effective_priority
    <2>1. e.effective_priority <= Urgency(e.message)
      BY DEF IInv, FrozenPriorityIsLowerBound
    <2>2. f.effective_priority <= e.effective_priority
      BY DEF PopHighest
    <2>3. Urgency(e.message) \in Nat
      BY <1>1, EffectiveType DEF Urgency
    <2> QED
      BY <1>1, <2>1, <2>2, <2>3
  <1>3. age_factor(g, now_ms) \in Nat
    BY <1>1, AgeGrows
  <1>4. CASE is_expired(g, now_ms)
    <2>1. Urgency(f.message) = 0
      BY <1>1, <1>4, EffectiveOfExpired DEF Urgency
    <2> HIDE DEF g
    <2> QED
      BY <1>2, <1>3, <2>1, MessageQueueAssumption DEF g
  <1>5. CASE ~is_expired(g, now_ms)
    <2>1. g.priority \in Nat /\ g.retry_count \in Nat
      BY <1>1, MessageQueueAssumption DEF MessageFields
    <2>2. Boost(g, now_ms) \in Nat /\ Boost(g, now_ms) <= MAX_PRIORITY
      BY <1>1, <1>5, FactorOfLive
    <2>3. Urgency(f.message) = g.priority + g.retry_count + age_factor(g, now_ms) + Boost(g, now_ms)
      BY <1>1, <1>5, EffectiveOfLive DEF Urgency
    <2>4. f.effective_priority >= g.priority + g.retry_count
      BY <1>5 DEF IInv, FrozenPriorityCoversBase
    <2> QED
      BY <1>1, <1>2, <1>3, <2>1, <2>2, <2>3, <2>4, MessageQueueAssumption
  <1> QED
    BY <1>4, <1>5

\* The messages and the heap are well typed: Message::new clamps, and every
\* frozen priority is a natural number.
THEOREM TypeCorrect == Spec => []TypeOK
  <1>1. IInv => TypeOK
    BY DEF IInv
  <1> QED
    BY <1>1, Invariance, PTL

\* effective_priority is 0 for exactly the reason is_expired gives, for every
\* block time, threshold and deadline.
THEOREM ExpiryAgreement == Spec => []ExpiryAgrees
  <1>1. IInv => ExpiryAgrees
    BY ExpiryAgreesHere
  <1> QED
    BY <1>1, Invariance, PTL

\* What PriorityQueue froze at the push underestimates a message until it
\* expires.
THEOREM FrozenIsLowerBound == Spec => []FrozenPriorityIsLowerBound
  <1>1. IInv => FrozenPriorityIsLowerBound
    BY DEF IInv
  <1> QED
    BY <1>1, Invariance, PTL

\* pop never prefers a message to one that is more urgent by more than a full
\* deadline boost and the age of the latter.
THEOREM InversionBound == Spec => []InversionIsBounded
  <1>1. IInv => InversionIsBounded
    BY InversionBoundedHere
  <1> QED
    BY <1>1, Invariance, PTL

\* effective_priority never falls while the clock moves on, up to the deadline.
THEOREM UrgencyMonotone == Spec => UrgencyNeverFalls
  <1>1. ASSUME IInv, [Next]_vars
        PROVE  [\A m \in Live :
                  now_ms' > now_ms /\ ~is_expired(message[m], now_ms') =>
                    effective_priority(message[m], now_ms') >= Urgency(m)]_vars
    <2> SUFFICES ASSUME NEW m \in Messages, now_ms' > now_ms,
                        ~is_expired(message[m], now_ms')
                 PROVE  effective_priority(message[m], now_ms') >= Urgency(m)
      BY DEF Live
    <2>1. now_ms \in Nat /\ message[m] \in MessageFields
      BY <1>1 DEF IInv, TypeOK
    <2>2. now_ms' \in Nat
      BY <1>1, IInvNext DEF IInv, TypeOK
    <2>3. /\ effective_priority(message[m], now_ms) <= effective_priority(message[m], now_ms')
          /\ effective_priority(message[m], now_ms) \in Nat
          /\ effective_priority(message[m], now_ms') \in Nat
      BY <2>1, <2>2, UrgencyGrows, EffectiveType
    <2> QED
      BY <2>3 DEF Urgency
  <1> QED
    BY <1>1, Invariance, PTL DEF Spec, UrgencyNeverFalls
=============================================================================
