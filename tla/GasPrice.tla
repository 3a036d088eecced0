------------------------------ MODULE GasPrice ------------------------------
(***************************************************************************)
(* The fee manager: GasPriceManager of crates/bulkmail/src/gas_price.rs    *)
(* and the fee side of adapter/ethereum.rs.                                *)
(*                                                                         *)
(* The window of confirmation times and the running fee estimate are       *)
(* behind two mutexes; get_gas_price and update_on_confirmation each take  *)
(* both, one after the other, so the calls of different tasks interleave.  *)
(* A transaction is priced, sent, replaced at a higher fee some number of  *)
(* times, and confirmed or given up; its slot is then used by another one. *)
(* Fees are in wei and times in seconds, or in any other unit.             *)
(***************************************************************************)
EXTENDS Integers, SequencesExt

CONSTANTS
  Txs,                          \* transactions that are under way together
  MAX_PRIORITY_FEE,
  INITIAL_PRIORITY_FEE,
  INITIAL_BASE_FEE,
  CONFIRMATION_TIME_WINDOW,
  CONGESTION_THRESHOLD_LOW,
  CONGESTION_THRESHOLD_MEDIUM,
  GAS_PRICE_INCREASE_PERCENT,
  MaxBumps,                     \* replacements that send_and_watch asks for
  Priorities,                   \* effective priorities that occur
  Times                         \* confirmation times that occur

ASSUME GasPriceAssumption ==
  /\ INITIAL_PRIORITY_FEE \in Nat
  /\ MAX_PRIORITY_FEE \in Nat
  /\ INITIAL_PRIORITY_FEE <= MAX_PRIORITY_FEE
  /\ INITIAL_BASE_FEE \in Nat
  /\ CONFIRMATION_TIME_WINDOW \in Nat \ {0}
  /\ CONGESTION_THRESHOLD_LOW \in Nat
  /\ CONGESTION_THRESHOLD_MEDIUM \in Nat
  /\ GAS_PRICE_INCREASE_PERCENT \in Nat
  /\ MaxBumps \in Nat
  /\ Priorities \subseteq Nat
  /\ Times \subseteq Nat

VARIABLES
  confirmation_times,   \* the window, oldest first
  priority_fee,         \* the running estimate
  step,                 \* what a transaction's task does next
  base_priority_fee,    \* local of calculate_priority_fee: the estimate it read
  fee,                  \* EthFeeParams::priority_fee of the transaction
  bumps                 \* how often it has been replaced

txVars == <<step, base_priority_fee, fee, bumps>>
vars == <<confirmation_times, priority_fee, txVars>>

Steps == {"idle", "congestion", "sent", "blend"}

\* The type invariant; the window never outgrows its limit.
TypeOK ==
  /\ confirmation_times \in Seq(Times)
  /\ Len(confirmation_times) <= CONFIRMATION_TIME_WINDOW
  /\ priority_fee \in Nat
  /\ step \in [Txs -> Steps]
  /\ base_priority_fee \in [Txs -> Nat]
  /\ fee \in [Txs -> Nat]
  /\ bumps \in [Txs -> 0 .. MaxBumps]

\* GasPriceManager::new.
Init ==
  /\ confirmation_times = <<>>
  /\ priority_fee = INITIAL_PRIORITY_FEE
  /\ step = [t \in Txs |-> "idle"]
  /\ base_priority_fee = [t \in Txs |-> 0]
  /\ fee = [t \in Txs |-> 0]
  /\ bumps = [t \in Txs |-> 0]

-----------------------------------------------------------------------------
(* Pricing *)

MAX_PRIORITY == 100

\* x * 100 / y for y = 100, computed in f64 and truncated: 29, 57 and 58 come
\* out one too low.
percent(x) == IF x \in {29, 57, 58} THEN x - 1 ELSE x

\* analyze_network_congestion, as the multiplier its level converts to.
congestion_multiplier(times) ==
  LET avg_time == FoldSeq(LAMBDA x, y : x + y, 0, times) \div Len(times) IN
    IF times = <<>> THEN 2
    ELSE IF avg_time < CONGESTION_THRESHOLD_LOW THEN 1
    ELSE IF avg_time < CONGESTION_THRESHOLD_MEDIUM THEN 2
    ELSE 3

AtMost(x, limit) == IF x <= limit THEN x ELSE limit

\* Mutant: the percentage is a discount.
PriorityFeeDiscounted(base, multiplier, priority) ==
  AtMost((base * multiplier * (100 - percent(AtMost(priority, MAX_PRIORITY)))) \div 100,
         MAX_PRIORITY_FEE)

\* The arithmetic of calculate_priority_fee.
PriorityFee(base, multiplier, priority) ==
  AtMost((base * multiplier * (100 + percent(AtMost(priority, MAX_PRIORITY)))) \div 100,
         MAX_PRIORITY_FEE)

\* get_fee_params up to the lock of the window.
calculate_priority_fee(t) ==
  /\ step[t] = "idle"
  /\ base_priority_fee' = [base_priority_fee EXCEPT ![t] = priority_fee]
  /\ step' = [step EXCEPT ![t] = "congestion"]
  /\ UNCHANGED <<confirmation_times, priority_fee, fee, bumps>>

\* The rest of it; the estimate read before may be old by now.
get_gas_price(t) ==
  /\ step[t] = "congestion"
  /\ \E p \in Priorities :
       fee' = [fee EXCEPT ![t] =
                 PriorityFee(base_priority_fee[t], congestion_multiplier(confirmation_times), p)]
  /\ bumps' = [bumps EXCEPT ![t] = 0]
  /\ step' = [step EXCEPT ![t] = "sent"]
  /\ UNCHANGED <<confirmation_times, priority_fee, base_priority_fee>>

\* Mutant: the fee becomes a fifth of what it was.
BumpToPercent(n) == (n * GAS_PRICE_INCREASE_PERCENT) \div 100

bump_by_percent(n) == n + (n * GAS_PRICE_INCREASE_PERCENT) \div 100

\* The transaction is dropped and replaced.
bump_fee(t) ==
  /\ step[t] = "sent"
  /\ bumps[t] < MaxBumps
  /\ fee' = [fee EXCEPT ![t] = bump_by_percent(fee[t])]
  /\ bumps' = [bumps EXCEPT ![t] = @ + 1]
  /\ UNCHANGED <<confirmation_times, priority_fee, step, base_priority_fee>>

-----------------------------------------------------------------------------
(* Learning from confirmations *)

\* Mutant: the window is checked before the push.
RecordBeforeTrim(times, confirmation_time) ==
  IF Len(times) > CONFIRMATION_TIME_WINDOW
  THEN Append(Tail(times), confirmation_time)
  ELSE Append(times, confirmation_time)

\* push_back, then pop_front when there are too many.
Record(times, confirmation_time) ==
  LET pushed == Append(times, confirmation_time) IN
    IF Len(pushed) > CONFIRMATION_TIME_WINDOW THEN Tail(pushed) ELSE pushed

\* update_on_confirmation up to the drop of the first guard.
update_on_confirmation(t) ==
  /\ step[t] = "sent"
  /\ \E confirmation_time \in Times :
       confirmation_times' = Record(confirmation_times, confirmation_time)
  /\ step' = [step EXCEPT ![t] = "blend"]
  /\ UNCHANGED <<priority_fee, base_priority_fee, fee, bumps>>

\* Mutant: the transaction counts twice.
BlendTwice(used_priority_fee) == (priority_fee + 2 * used_priority_fee) \div 2

Blend(used_priority_fee) == (priority_fee + used_priority_fee) \div 2

\* The rest of it.  The slot is free again; its locals are forgotten.
blend_priority_fee(t) ==
  /\ step[t] = "blend"
  /\ priority_fee' = Blend(fee[t])
  /\ step' = [step EXCEPT ![t] = "idle"]
  /\ base_priority_fee' = [base_priority_fee EXCEPT ![t] = 0]
  /\ fee' = [fee EXCEPT ![t] = 0]
  /\ bumps' = [bumps EXCEPT ![t] = 0]
  /\ UNCHANGED confirmation_times

\* The transaction is given up: nothing is learnt from it.
give_up(t) ==
  /\ step[t] = "sent"
  /\ step' = [step EXCEPT ![t] = "idle"]
  /\ base_priority_fee' = [base_priority_fee EXCEPT ![t] = 0]
  /\ fee' = [fee EXCEPT ![t] = 0]
  /\ bumps' = [bumps EXCEPT ![t] = 0]
  /\ UNCHANGED <<confirmation_times, priority_fee>>

Next ==
  \E t \in Txs :
    \/ calculate_priority_fee(t) \/ get_gas_price(t) \/ bump_fee(t)
    \/ update_on_confirmation(t) \/ blend_priority_fee(t) \/ give_up(t)

Spec == Init /\ [][Next]_vars

-----------------------------------------------------------------------------
(* Properties *)

Priced(t) == step[t] \in {"sent", "blend"}

\* Neither stale reads, nor the rounding of three integer divisions, nor any
\* sequence of confirmations ever takes the estimate, or the fee of a
\* transaction that is sent, below INITIAL_PRIORITY_FEE.  The other side of it:
\* the estimate never adapts to a network cheaper than that.
FeeFloor ==
  /\ priority_fee >= INITIAL_PRIORITY_FEE
  /\ \A t \in Txs : Priced(t) => fee[t] >= INITIAL_PRIORITY_FEE

\* MAX_PRIORITY_FEE after k replacements.
Ceiling[k \in 0 .. MaxBumps] ==
  IF k = 0 THEN MAX_PRIORITY_FEE ELSE bump_by_percent(Ceiling[k - 1])

\* Replacements go beyond MAX_PRIORITY_FEE and are fed back into the estimate,
\* but the loop does not run away: a fee replaced k times stays within k bumps
\* of the cap, and the estimate within the last of these.
FeeCeiling ==
  /\ priority_fee <= Ceiling[MaxBumps]
  /\ \A t \in Txs : Priced(t) => fee[t] <= Ceiling[bumps[t]]

\* update_on_confirmation is a ratchet: a confirmation lowers the estimate only
\* if its transaction was priced from an older estimate that was lower, or if
\* the estimate was above the cap.
EstimateIsARatchet ==
  [][priority_fee' < priority_fee =>
       \/ priority_fee > MAX_PRIORITY_FEE
       \/ \E t \in Txs : /\ step[t] = "blend" /\ step'[t] = "idle"
                       /\ base_priority_fee[t] < priority_fee]_vars

-----------------------------------------------------------------------------
(* What the documents say and the code does otherwise. *)

\* ARCHITECTURE.md: the mempool requires replacement fees "at least 10% higher".
\* A replacement bids base fee plus priority fee, of which only the second is
\* raised.
ReplacementIsTenPercentHigher ==
  \A t \in Txs :
    step[t] = "sent" =>
      100 * (INITIAL_BASE_FEE + bump_by_percent(fee[t])) >= 110 * (INITIAL_BASE_FEE + fee[t])

-----------------------------------------------------------------------------
(* What the proofs in GasPriceProofs strengthen these properties with. *)

\* The estimate a task has read is not below the initial one.
ReadAboveFloor ==
  \A t \in Txs : step[t] # "idle" => base_priority_fee[t] >= INITIAL_PRIORITY_FEE

\* A transaction bids at least the estimate it was priced from, or the cap.
FeeCoversRead ==
  \A t \in Txs : Priced(t) => fee[t] >= AtMost(base_priority_fee[t], MAX_PRIORITY_FEE)
=============================================================================
