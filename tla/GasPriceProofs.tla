--------------------------- MODULE GasPriceProofs ---------------------------
(***************************************************************************)
(* Proofs about GasPrice, for every number of transactions, every fee      *)
(* scale, every window and every set of priorities and times.              *)
(***************************************************************************)
EXTENDS GasPrice, TLAPS, WellFoundedInduction

-----------------------------------------------------------------------------
(* Lemmas about the arithmetic *)

\* Dividing by 100 undoes multiplying by at least 100.
LEMMA DivCovers ==
  ASSUME NEW x \in Nat, NEW y \in Nat, x >= 100 * y
  PROVE  x \div 100 \in Nat /\ x \div 100 >= y
  OBVIOUS

\* A product is at least its first factor times a lower bound of the second.
LEMMA TimesMonotone ==
  ASSUME NEW a \in Nat, NEW b \in Nat, NEW c \in Nat, b >= c
  PROVE  a * b \in Nat /\ a * b >= a * c
  <1> DEFINE d == b - c
  <1>1. d \in Nat /\ b = c + d
    OBVIOUS
  <1>2. a * d \in Nat
    BY <1>1
  <1>3. a * b = a * c + a * d
    BY <1>1
  <1>4. a * c \in Nat
    OBVIOUS
  <1> QED
    BY <1>2, <1>3, <1>4

\* The congestion level multiplies by one, two or three.
LEMMA MultiplierRange ==
  ASSUME NEW times
  PROVE  congestion_multiplier(times) \in {1, 2, 3}
  BY DEF congestion_multiplier

\* The priority adds between nothing and 100 percent.
LEMMA PercentRange ==
  ASSUME NEW p \in Nat
  PROVE  percent(AtMost(p, MAX_PRIORITY)) \in 0 .. 100
  BY DEF percent, AtMost, MAX_PRIORITY

\* A price is at least the estimate it is computed from, or the cap.
LEMMA PriceCoversBase ==
  ASSUME NEW base \in Nat, NEW multiplier \in {1, 2, 3}, NEW p \in Nat
  PROVE  /\ PriorityFee(base, multiplier, p) \in Nat
         /\ PriorityFee(base, multiplier, p) >= AtMost(base, MAX_PRIORITY_FEE)
         /\ PriorityFee(base, multiplier, p) <= MAX_PRIORITY_FEE
  <1> DEFINE q == 100 + percent(AtMost(p, MAX_PRIORITY))
             b == base * multiplier
  <1>1. q \in Nat /\ q >= 100
    BY PercentRange
  <1>2. b \in Nat /\ b >= base
    BY TimesMonotone
  <1> HIDE DEF q, b
  <1>3. b * q \in Nat /\ b * q >= b * 100
    BY <1>1, <1>2, TimesMonotone
  <1>4. b * q >= 100 * base
    BY <1>2, <1>3
  <1>5. (b * q) \div 100 \in Nat /\ (b * q) \div 100 >= base
    BY <1>3, <1>4, DivCovers
  <1>6. PriorityFee(base, multiplier, p) = AtMost((b * q) \div 100, MAX_PRIORITY_FEE)
    BY DEF PriorityFee, q, b
  <1> HIDE DEF PriorityFee
  <1> QED
    BY <1>5, <1>6, GasPriceAssumption DEF AtMost

\* A replacement never bids less.
LEMMA BumpRaises ==
  ASSUME NEW n \in Nat
  PROVE  bump_by_percent(n) \in Nat /\ bump_by_percent(n) >= n
  <1>1. n * GAS_PRICE_INCREASE_PERCENT \in Nat
    BY GasPriceAssumption
  <1>2. (n * GAS_PRICE_INCREASE_PERCENT) \div 100 \in Nat
    BY <1>1
  <1> QED
    BY <1>2 DEF bump_by_percent

\* The mean of two numbers is not below both.
LEMMA MeanBetween ==
  ASSUME NEW x \in Nat, NEW y \in Nat, NEW low \in Nat, x >= low, y >= low
  PROVE  (x + y) \div 2 \in Nat /\ (x + y) \div 2 >= low
  OBVIOUS

\* Recording a sample keeps the window within its limit.
LEMMA RecordType ==
  ASSUME NEW times \in Seq(Times), Len(times) <= CONFIRMATION_TIME_WINDOW, NEW x \in Times
  PROVE  /\ Record(times, x) \in Seq(Times)
         /\ Len(Record(times, x)) <= CONFIRMATION_TIME_WINDOW
  BY GasPriceAssumption DEF Record

-----------------------------------------------------------------------------
(* The inductive invariant *)

IInv == TypeOK /\ FeeFloor /\ ReadAboveFloor /\ FeeCoversRead

\* The invariant holds initially.
LEMMA IInvInit == Init => IInv
  BY GasPriceAssumption
  DEF Init, IInv, TypeOK, FeeFloor, ReadAboveFloor, FeeCoversRead, Priced, Steps

\* One step per operation of the fee manager.
LEMMA IInvNext == IInv /\ [Next]_vars => IInv'
  <1> SUFFICES ASSUME IInv, [Next]_vars PROVE IInv'
    OBVIOUS
  <1> USE GasPriceAssumption
  <1> USE DEF IInv, TypeOK, FeeFloor, ReadAboveFloor, FeeCoversRead, Priced, Steps
  <1>1. ASSUME NEW t \in Txs, calculate_priority_fee(t) PROVE IInv'
    BY <1>1 DEF calculate_priority_fee
  <1>2. ASSUME NEW t \in Txs, get_gas_price(t) PROVE IInv'
    <2>1. PICK p \in Priorities :
            fee' = [fee EXCEPT ![t] =
                      PriorityFee(base_priority_fee[t], congestion_multiplier(confirmation_times), p)]
      BY <1>2 DEF get_gas_price
    <2> DEFINE f == PriorityFee(base_priority_fee[t], congestion_multiplier(confirmation_times), p)
    <2>2. f \in Nat /\ f >= AtMost(base_priority_fee[t], MAX_PRIORITY_FEE)
      BY PriceCoversBase, MultiplierRange
    <2>3. fee' = [fee EXCEPT ![t] = f]
      BY <2>1
    <2> HIDE DEF f
    <2>4. base_priority_fee[t] \in Nat /\ base_priority_fee[t] >= INITIAL_PRIORITY_FEE
      BY <1>2 DEF get_gas_price
    <2>5. /\ AtMost(base_priority_fee[t], MAX_PRIORITY_FEE) \in Nat
          /\ AtMost(base_priority_fee[t], MAX_PRIORITY_FEE) >= INITIAL_PRIORITY_FEE
      BY <2>4 DEF AtMost
    <2>6. f >= INITIAL_PRIORITY_FEE
      BY <2>2, <2>5
    <2> QED
      BY <1>2, <2>2, <2>3, <2>6 DEF get_gas_price
  <1>3. ASSUME NEW t \in Txs, bump_fee(t) PROVE IInv'
    <2> DEFINE f == bump_by_percent(fee[t])
    <2>1. f \in Nat /\ f >= fee[t]
      BY BumpRaises
    <2>2. fee' = [fee EXCEPT ![t] = f]
      BY <1>3 DEF bump_fee
    <2> HIDE DEF f
    <2>3. AtMost(base_priority_fee[t], MAX_PRIORITY_FEE) \in Nat
      BY DEF AtMost
    <2> QED
      BY <1>3, <2>1, <2>2, <2>3 DEF bump_fee
  <1>4. ASSUME NEW t \in Txs, update_on_confirmation(t) PROVE IInv'
    <2>1. PICK x \in Times : confirmation_times' = Record(confirmation_times, x)
      BY <1>4 DEF update_on_confirmation
    <2>2. /\ confirmation_times' \in Seq(Times)
          /\ Len(confirmation_times') <= CONFIRMATION_TIME_WINDOW
      BY <2>1, RecordType
    <2> QED
      BY <1>4, <2>2 DEF update_on_confirmation
  <1>5. ASSUME NEW t \in Txs, blend_priority_fee(t) PROVE IInv'
    <2>1. Blend(fee[t]) \in Nat /\ Blend(fee[t]) >= INITIAL_PRIORITY_FEE
      BY <1>5, MeanBetween DEF Blend, blend_priority_fee
    <2> QED
      BY <1>5, <2>1 DEF blend_priority_fee
  <1>6. ASSUME NEW t \in Txs, give_up(t) PROVE IInv'
    BY <1>6 DEF give_up
  <1>7. CASE UNCHANGED vars
    BY <1>7 DEF vars, txVars
  <1> QED
    BY <1>1, <1>2, <1>3, <1>4, <1>5, <1>6, <1>7 DEF Next

\* A step that lowers the estimate is a confirmation that was priced from a
\* lower estimate, or starts from an estimate above the cap.
LEMMA RatchetStep ==
  ASSUME IInv, [Next]_vars, priority_fee' < priority_fee
  PROVE  \/ priority_fee > MAX_PRIORITY_FEE
         \/ \E t \in Txs : /\ step[t] = "blend" /\ step'[t] = "idle"
                         /\ base_priority_fee[t] < priority_fee
  <1> USE GasPriceAssumption
  <1> USE DEF IInv, TypeOK
  <1>1. PICK t \in Txs : blend_priority_fee(t)
    BY DEF Next, vars, calculate_priority_fee, get_gas_price, bump_fee,
           update_on_confirmation, give_up
  <1>2. ASSUME priority_fee <= MAX_PRIORITY_FEE, base_priority_fee[t] >= priority_fee
        PROVE  FALSE
    <2>1. fee[t] >= priority_fee
      BY <1>1, <1>2 DEF FeeCoversRead, Priced, AtMost, blend_priority_fee
    <2>2. Blend(fee[t]) >= priority_fee
      BY <2>1, MeanBetween DEF Blend
    <2> QED
      BY <1>1, <2>2 DEF blend_priority_fee, Blend
  <1>3. step[t] = "blend" /\ step'[t] = "idle"
    BY <1>1 DEF blend_priority_fee
  <1> QED
    BY <1>1, <1>2, <1>3

-----------------------------------------------------------------------------
(* The ceiling of the fees *)

\* Every set of natural numbers has a least element.
LEMMA LeastNatural ==
  ASSUME NEW S, S \subseteq Nat, S # {}
  PROVE  \E n \in S : \A m \in S : n <= m
  <1> DEFINE Less == {p \in Nat \X Nat : p[1] < p[2]}
  <1>1. Less = OpToRel(<, Nat)
    BY DEF OpToRel
  <1>2. IsWellFoundedOn(Less, Nat)
    BY Zenon, <1>1, NatLessThanWellFounded
  <1>3. \A x, y \in Nat : y < x => <<y, x>> \in Less
    OBVIOUS
  <1> HIDE DEF Less
  <1>4. PICK n \in S : \A m \in S : ~(<<m, n>> \in Less)
    BY Zenon, <1>2, WFMin
  <1>5. ASSUME NEW m \in S PROVE n <= m
    <2>1. n \in Nat /\ m \in Nat
      OBVIOUS
    <2>2. ~(m < n)
      BY Zenon, <1>3, <1>4, <2>1
    <2> QED
      BY <2>1, <2>2
  <1> QED
    BY Zenon, <1>5

\* Induction, for a set: one that holds 0 and goes on from each number below a
\* limit to the next holds all numbers up to the limit.
LEMMA UpTo ==
  ASSUME NEW limit \in Nat, NEW S, 0 \in S,
         \A k \in Nat : k < limit /\ k \in S => k + 1 \in S
  PROVE  \A k \in 0 .. limit : k \in S
  <1> DEFINE Missing == {k \in 0 .. limit : k \notin S}
  <1>1. SUFFICES ASSUME Missing # {} PROVE FALSE
    BY <1>1
  <1>2. Missing \subseteq Nat
    OBVIOUS
  <1>3. PICK n \in Missing : \A m \in Missing : n <= m
    BY Zenon, <1>1, <1>2, LeastNatural
  <1>4. n \in Nat /\ n <= limit /\ n \notin S /\ n # 0
    OBVIOUS
  <1>5. n - 1 \in Nat /\ n - 1 < limit /\ n - 1 \in 0 .. limit /\ ~(n <= n - 1)
        /\ (n - 1) + 1 = n
    BY <1>4
  <1>6. n - 1 \in S
    BY <1>3, <1>5
  <1>7. (n - 1) + 1 \in S
    BY <1>5, <1>6
  <1> QED
    BY <1>4, <1>5, <1>7

\* The recursive definition of Ceiling has a solution.
LEMMA CeilingExists ==
  \E f : f = [k \in 0 .. MaxBumps |->
                IF k = 0 THEN MAX_PRIORITY_FEE ELSE bump_by_percent(f[k - 1])]
  <1> DEFINE Solves(f, n) ==
               f = [k \in 0 .. n |->
                      IF k = 0 THEN MAX_PRIORITY_FEE ELSE bump_by_percent(f[k - 1])]
             Solvable == {n \in Nat : \E f : Solves(f, n)}
  <1>1. 0 \in Solvable
    <2>1. Solves([k \in 0 .. 0 |-> MAX_PRIORITY_FEE], 0)
      OBVIOUS
    <2> QED
      BY Zenon, <2>1
  <1>2. ASSUME NEW n \in Nat, n \in Solvable PROVE n + 1 \in Solvable
    <2>1. PICK f : Solves(f, n)
      BY Zenon, <1>2
    <2> DEFINE g == [k \in 0 .. n + 1 |->
                       IF k = 0 THEN MAX_PRIORITY_FEE ELSE bump_by_percent(f[k - 1])]
    <2>2. ASSUME NEW k \in 0 .. n + 1, k # 0 PROVE g[k - 1] = f[k - 1]
      <3>1. k - 1 \in 0 .. n /\ k - 1 \in 0 .. n + 1
        BY <2>2
      <3>2. f[k - 1] = IF k - 1 = 0 THEN MAX_PRIORITY_FEE ELSE bump_by_percent(f[(k - 1) - 1])
        BY Zenon, <2>1, <3>1
      <3>3. g[k - 1] = IF k - 1 = 0 THEN MAX_PRIORITY_FEE ELSE bump_by_percent(f[(k - 1) - 1])
        BY Zenon, <3>1
      <3> QED
        BY Zenon, <3>2, <3>3
    <2>3. Solves(g, n + 1)
      BY <2>2
    <2>4. n + 1 \in Nat
      OBVIOUS
    <2> QED
      BY Zenon, <2>3, <2>4
  <1> HIDE DEF Solvable
  <1>3. MaxBumps \in Nat
    BY GasPriceAssumption
  <1>4. MaxBumps \in 0 .. MaxBumps
    BY <1>3
  <1>5. \A k \in 0 .. MaxBumps : k \in Solvable
    BY Zenon, <1>1, <1>2, <1>3, UpTo
  <1>6. MaxBumps \in Solvable
    BY Zenon, <1>4, <1>5
  <1> QED
    BY Zenon, <1>6 DEF Solvable

\* So it computes what it says.
LEMMA CeilingStep ==
  ASSUME NEW k \in 0 .. MaxBumps
  PROVE  Ceiling[k] = IF k = 0 THEN MAX_PRIORITY_FEE ELSE bump_by_percent(Ceiling[k - 1])
  <1>1. Ceiling = [j \in 0 .. MaxBumps |->
                     IF j = 0 THEN MAX_PRIORITY_FEE ELSE bump_by_percent(Ceiling[j - 1])]
    BY Zenon, CeilingExists DEF Ceiling
  <1> QED
    BY Zenon, <1>1

\* bump_by_percent keeps the order of two fees.
LEMMA BumpMonotone ==
  ASSUME NEW x \in Nat, NEW y \in Nat, x <= y
  PROVE  bump_by_percent(x) <= bump_by_percent(y)
  <1> DEFINE a == x * GAS_PRICE_INCREASE_PERCENT
             b == y * GAS_PRICE_INCREASE_PERCENT
  <1>1. a \in Nat /\ b \in Nat /\ a <= b
    <2>1. GAS_PRICE_INCREASE_PERCENT \in Nat
      BY GasPriceAssumption
    <2>2. /\ GAS_PRICE_INCREASE_PERCENT * y >= GAS_PRICE_INCREASE_PERCENT * x
          /\ GAS_PRICE_INCREASE_PERCENT * y \in Nat
          /\ GAS_PRICE_INCREASE_PERCENT * x \in Nat
      BY <2>1, TimesMonotone
    <2>3. a = GAS_PRICE_INCREASE_PERCENT * x /\ b = GAS_PRICE_INCREASE_PERCENT * y
      BY <2>1
    <2> QED
      BY <2>2, <2>3
  <1> HIDE DEF a, b
  <1>2. a \div 100 \in Nat /\ b \div 100 \in Nat /\ a \div 100 <= b \div 100
    BY <1>1
  <1>3. x + a \div 100 <= y + b \div 100
    BY <1>2
  <1> QED
    BY <1>3 DEF bump_by_percent, a, b

\* Each replacement raises the ceiling, and none of them above the last.
LEMMA CeilingRises ==
  /\ \A k \in 0 .. MaxBumps : Ceiling[k] \in Nat /\ Ceiling[k] <= Ceiling[MaxBumps]
  /\ \A k \in 0 .. MaxBumps : k # MaxBumps => Ceiling[k + 1] = bump_by_percent(Ceiling[k])
  /\ Ceiling[0] = MAX_PRIORITY_FEE
  <1>1. MaxBumps \in Nat /\ 0 \in 0 .. MaxBumps /\ MaxBumps \in 0 .. MaxBumps
        /\ MAX_PRIORITY_FEE \in Nat
    BY GasPriceAssumption
  <1>2. Ceiling[0] = MAX_PRIORITY_FEE
    BY <1>1, CeilingStep
  <1>3. ASSUME NEW k \in Nat, k < MaxBumps
        PROVE  Ceiling[k + 1] = bump_by_percent(Ceiling[k])
    <2>1. k + 1 \in 0 .. MaxBumps /\ k + 1 # 0 /\ (k + 1) - 1 = k
      BY <1>1, <1>3
    <2>2. Ceiling[k + 1] =
            IF k + 1 = 0 THEN MAX_PRIORITY_FEE ELSE bump_by_percent(Ceiling[(k + 1) - 1])
      BY Zenon, <2>1, CeilingStep
    <2> QED
      BY Zenon, <2>1, <2>2
  <1> DEFINE Rising == {n \in Nat : Ceiling[n] \in Nat /\ \A k \in 0 .. n :
                                      Ceiling[k] \in Nat /\ Ceiling[k] <= Ceiling[n]}
  <1>4. 0 \in Rising
    BY <1>1, <1>2
  <1>5. ASSUME NEW n \in Nat, n < MaxBumps, n \in Rising PROVE n + 1 \in Rising
    <2>1. Ceiling[n + 1] \in Nat /\ Ceiling[n + 1] >= Ceiling[n]
      BY <1>3, <1>5, BumpRaises
    <2>2. ASSUME NEW k \in 0 .. n + 1 PROVE Ceiling[k] \in Nat /\ Ceiling[k] <= Ceiling[n + 1]
      <3>1. CASE k = n + 1
        BY <2>1, <3>1
      <3>2. CASE k \in 0 .. n
        <4>1. Ceiling[k] \in Nat /\ Ceiling[k] <= Ceiling[n] /\ Ceiling[n] \in Nat
          BY <1>5, <3>2
        <4> QED
          BY <2>1, <4>1
      <3> QED
        BY <3>1, <3>2
    <2>3. n + 1 \in Nat
      OBVIOUS
    <2> QED
      BY Zenon, <2>1, <2>2, <2>3
  <1>6. MaxBumps \in Rising
    <2> HIDE DEF Rising
    <2>1. \A k \in 0 .. MaxBumps : k \in Rising
      BY Zenon, <1>1, <1>4, <1>5, UpTo
    <2> QED
      BY Zenon, <1>1, <2>1
  <1>7. \A k \in 0 .. MaxBumps : Ceiling[k] \in Nat /\ Ceiling[k] <= Ceiling[MaxBumps]
    BY Zenon, <1>6
  <1>8. \A k \in 0 .. MaxBumps : k # MaxBumps => k \in Nat /\ k < MaxBumps
    BY <1>1
  <1> QED
    BY Zenon, <1>2, <1>3, <1>7, <1>8

\* One step per operation that touches a fee or the estimate.
LEMMA CeilingNext == IInv /\ FeeCeiling /\ [Next]_vars => FeeCeiling'
  <1> SUFFICES ASSUME IInv, FeeCeiling, [Next]_vars PROVE FeeCeiling'
    OBVIOUS
  <1> USE DEF IInv, TypeOK, Priced, Steps
  <1>0. MaxBumps \in Nat /\ Ceiling[MaxBumps] \in Nat
    <2>1. MaxBumps \in Nat
      BY GasPriceAssumption
    <2>2. MaxBumps \in 0 .. MaxBumps
      BY <2>1
    <2> QED
      BY Zenon, <2>1, <2>2, CeilingRises
  <1>1. ASSUME NEW t \in Txs, calculate_priority_fee(t) \/ update_on_confirmation(t) \/ give_up(t)
        PROVE  FeeCeiling'
    BY <1>1 DEF calculate_priority_fee, update_on_confirmation, give_up, FeeCeiling
  <1>2. ASSUME NEW t \in Txs, get_gas_price(t) PROVE FeeCeiling'
    <2>1. PICK p \in Priorities :
            fee' = [fee EXCEPT ![t] =
                      PriorityFee(base_priority_fee[t], congestion_multiplier(confirmation_times), p)]
      BY <1>2 DEF get_gas_price
    <2> DEFINE f == PriorityFee(base_priority_fee[t], congestion_multiplier(confirmation_times), p)
    <2>2. f <= Ceiling[0]
      BY PriceCoversBase, MultiplierRange, CeilingRises, GasPriceAssumption
    <2>3. fee' = [fee EXCEPT ![t] = f]
      BY <2>1
    <2> HIDE DEF f
    <2> QED
      BY <1>2, <2>2, <2>3 DEF get_gas_price, FeeCeiling
  <1>3. ASSUME NEW t \in Txs, bump_fee(t) PROVE FeeCeiling'
    <2>1. bumps[t] \in 0 .. MaxBumps /\ bumps[t] # MaxBumps /\ fee[t] \in Nat
      BY <1>0, <1>3 DEF bump_fee
    <2>2. fee[t] <= Ceiling[bumps[t]] /\ Ceiling[bumps[t]] \in Nat
      BY <1>3, <2>1, CeilingRises DEF bump_fee, FeeCeiling
    <2>3. Ceiling[bumps[t] + 1] = bump_by_percent(Ceiling[bumps[t]])
      BY Zenon, <2>1, CeilingRises
    <2>4. bump_by_percent(fee[t]) <= Ceiling[bumps[t] + 1]
      BY <2>1, <2>2, <2>3, BumpMonotone
    <2> DEFINE f == bump_by_percent(fee[t])
    <2>5. fee' = [fee EXCEPT ![t] = f] /\ bumps' = [bumps EXCEPT ![t] = bumps[t] + 1]
      BY <1>3 DEF bump_fee
    <2>6. f <= Ceiling[bumps[t] + 1]
      BY <2>4
    <2> HIDE DEF f
    <2> QED
      BY <1>3, <2>5, <2>6 DEF bump_fee, FeeCeiling
  <1>4. ASSUME NEW t \in Txs, blend_priority_fee(t) PROVE FeeCeiling'
    <2>1. bumps[t] \in 0 .. MaxBumps /\ fee[t] \in Nat /\ priority_fee \in Nat
      BY <1>4
    <2>2. Ceiling[bumps[t]] \in Nat /\ Ceiling[bumps[t]] <= Ceiling[MaxBumps]
      BY Zenon, <2>1, CeilingRises
    <2>3. fee[t] <= Ceiling[bumps[t]] /\ priority_fee <= Ceiling[MaxBumps]
      BY <1>4 DEF blend_priority_fee, FeeCeiling
    <2>4. Blend(fee[t]) <= Ceiling[MaxBumps]
      BY <1>0, <2>1, <2>2, <2>3 DEF Blend
    <2> QED
      BY <1>4, <2>4 DEF blend_priority_fee, FeeCeiling
  <1>5. CASE UNCHANGED vars
    BY <1>5 DEF vars, txVars, FeeCeiling
  <1> QED
    BY <1>1, <1>2, <1>3, <1>4, <1>5 DEF Next

-----------------------------------------------------------------------------
(* The theorems *)

\* The invariant holds in all reachable states.
LEMMA Invariance == Spec => []IInv
  <1> QED
    BY IInvInit, IInvNext, PTL DEF Spec

\* The state of GasPriceManager is well typed and its window never outgrows
\* CONFIRMATION_TIME_WINDOW.
THEOREM TypeCorrect == Spec => []TypeOK
  <1>1. IInv => TypeOK
    BY DEF IInv
  <1> QED
    BY <1>1, Invariance, PTL

\* get_gas_price, bump_fee and update_on_confirmation, interleaved in any way,
\* never take a fee or the estimate below INITIAL_PRIORITY_FEE.
THEOREM FloorHolds == Spec => []FeeFloor
  <1>1. IInv => FeeFloor
    BY DEF IInv
  <1> QED
    BY <1>1, Invariance, PTL

\* update_on_confirmation only lowers an estimate that has risen since the
\* confirmed transaction was priced, or one above the cap.
THEOREM RatchetHolds == Spec => EstimateIsARatchet
  <1>1. IInv /\ [Next]_vars =>
          [priority_fee' < priority_fee =>
             \/ priority_fee > MAX_PRIORITY_FEE
             \/ \E t \in Txs : /\ step[t] = "blend" /\ step'[t] = "idle"
                             /\ base_priority_fee[t] < priority_fee]_vars
    BY RatchetStep
  <1> QED
    BY <1>1, Invariance, PTL DEF Spec, EstimateIsARatchet

\* However often a transaction is replaced above MAX_PRIORITY_FEE and fed back
\* into the estimate, a fee stays within the bumps it has had above the cap, and
\* the estimate within MaxBumps of them: for every increase, cap and MaxBumps.
THEOREM CeilingHolds == Spec => []FeeCeiling
  <1>1. Init => FeeCeiling
    <2> SUFFICES ASSUME Init PROVE FeeCeiling
      OBVIOUS
    <2>1. MaxBumps \in Nat
      BY GasPriceAssumption
    <2>2. MAX_PRIORITY_FEE <= Ceiling[MaxBumps] /\ Ceiling[MaxBumps] \in Nat
      BY <2>1, CeilingRises
    <2>3. INITIAL_PRIORITY_FEE <= Ceiling[MaxBumps]
      BY <2>2, GasPriceAssumption
    <2> QED
      BY <2>3 DEF Init, FeeCeiling, Priced
  <1> QED
    BY <1>1, CeilingNext, Invariance, PTL DEF Spec
=============================================================================
