--------------------------- MODULE MempoolTracker ---------------------------
(***************************************************************************)
(* The mempool tracker of crates/mempooloracle/src/lib.rs: MempoolInner,   *)
(* driven by the events that the transport delivers, and the queries of    *)
(* MempoolHandle.                                                          *)
(*                                                                         *)
(* MempoolTracker::run applies one event at a time under the write lock,   *)
(* so an event is one step.  Two kinds of events come from independent     *)
(* tasks: a pending transaction may be announced any number of times and   *)
(* after it was mined; blocks come in order, but some are missed and the   *)
(* chain may fall back.                                                    *)
(*                                                                         *)
(* private_flow_ratio (an f64) and last_block_gas_limit only feed          *)
(* estimated_blocks_to_confirm; both, and the bookkeeping of gas used, are *)
(* left out.  Every transaction has one unit of gas.                       *)
(***************************************************************************)
EXTENDS Integers, SequencesExt, FiniteSetsExt

CONSTANTS
  Addresses,              \* numbers: the indexes break ties by address
  Nonces,                 \* bound: 0 .. some N
  MaxFees, Tips,          \* max_fee_per_gas, max_priority_fee_per_gas
  BaseFees,
  initial_base_fee, global_capacity, per_account_capacity,
  None,                   \* an empty slot
  MaxEvents               \* bound: events in a behaviour

ASSUME MempoolTrackerAssumption ==
  /\ Addresses \subseteq Nat
  /\ Nonces \subseteq Nat /\ \A n \in Nonces : 0 .. n \subseteq Nonces
  /\ MaxFees \subseteq Nat /\ Tips \subseteq Nat /\ BaseFees \subseteq Nat
  /\ initial_base_fee \in Nat
  /\ global_capacity \in Nat \ {0}
  /\ per_account_capacity \in Nat \ {0}
  /\ MaxEvents \in Nat

VARIABLES
  inner,           \* MempoolInner
  chain_nonce,     \* the accounts' nonces after the last block mined
  last_event,      \* what happened last
  events_left      \* events the bound still allows

vars == <<inner, chain_nonce, last_event, events_left>>

\* The id of a transaction is its hash: here, all of its fields.
PendingTx ==
  [sender : Addresses, nonce : Nonces, max_fee_per_gas : MaxFees,
   max_priority_fee_per_gas : Tips]

\* Keys of the two indexes, by max_fee_per_gas and by effective priority fee.
Keys == [fee : Nat, addr : Addresses, nonce : Nonces]

Key(fee, tx) == [fee |-> fee, addr |-> tx.sender, nonce |-> tx.nonce]

-----------------------------------------------------------------------------
(* MempoolInner *)

effective_priority_fee(i, tx) ==
  LET tip_left == tx.max_fee_per_gas - i.current_base_fee
  IN Min({tx.max_priority_fee_per_gas, IF tip_left < 0 THEN 0 ELSE tip_left})

\* The index of the slot that belongs to a nonce.
SlotIndex(q, nonce) == nonce - q.confirmed_nonce + 1

\* The slot of a queue that belongs to a nonce, if there is one.
SlotAt(q, nonce) ==
  LET k == SlotIndex(q, nonce)
  IN IF k \in DOMAIN q.slots THEN q.slots[k] ELSE None

\* The order of priority_queue: highest fee first, then address, then nonce.
Precedes(k, l) ==
  \/ k.fee > l.fee
  \/ k.fee = l.fee /\ k.addr < l.addr
  \/ k.fee = l.fee /\ k.addr = l.addr /\ k.nonce < l.nonce

First(keys) == CHOOSE k \in keys : \A l \in keys \ {k} : Precedes(k, l)

\* Mutant: the evicted transaction stays in its slot.
EvictIndexOnly(i) ==
  LET key == First(i.priority_queue)
      q == i.account_queues[key.addr]
      evicted == SlotAt(q, key.nonce)
      popped == [i EXCEPT !.priority_queue = @ \ {key}]
  IN IF evicted = None THEN popped
     ELSE [popped EXCEPT !.base_fee_eligibility = @ \ {Key(evicted.max_fee_per_gas, evicted)}]

\* The eviction in insert: pops the first key and empties the slot it names.
Evict(i) ==
  LET key == First(i.priority_queue)
      q == i.account_queues[key.addr]
      evicted == SlotAt(q, key.nonce)
      popped == [i EXCEPT !.priority_queue = @ \ {key}]
  IN IF evicted = None THEN popped
     ELSE [popped EXCEPT
             !.base_fee_eligibility = @ \ {Key(evicted.max_fee_per_gas, evicted)},
             !.account_queues[key.addr].slots[SlotIndex(q, key.nonce)] = None]

Nones(n) == [k \in 1 .. n |-> None]

\* Mutant: the slots are not shifted when the queue starts earlier.
ShiftedUnmoved(q, nonce) ==
  IF nonce >= q.confirmed_nonce THEN q ELSE [q EXCEPT !.confirmed_nonce = nonce]

\* The queue, made to start at a nonce below its confirmed_nonce.
Shifted(q, nonce) ==
  IF nonce >= q.confirmed_nonce THEN q
  ELSE [confirmed_nonce |-> nonce, slots |-> Nones(q.confirmed_nonce - nonce) \o q.slots]

\* Mutant: the check on the offset lets one slot too many pass.
OverCapacityLate(length, k) == length > per_account_capacity \/ k > per_account_capacity + 1

\* The two checks on the account: the length after prepending, the slot wanted.
OverCapacity(length, k) == length > per_account_capacity \/ k > per_account_capacity

\* The account's queue, found or created, and made to start early enough for tx.
QueueFor(i, tx) ==
  Shifted(IF tx.sender \in DOMAIN i.account_queues THEN i.account_queues[tx.sender]
          ELSE [confirmed_nonce |-> tx.nonce, slots |-> <<>>], tx.nonce)

\* The queue with tx in its slot, extended if it ends before.
Filled(q, tx) ==
  LET resized == q.slots \o Nones(SlotIndex(q, tx.nonce) - Len(q.slots))
  IN [q EXCEPT !.slots = [resized EXCEPT ![SlotIndex(q, tx.nonce)] = tx]]

\* The rest of insert: unless that takes more than per_account_capacity, fill the
\* slot and extend both indexes.
Place(i, tx) ==
  LET q == QueueFor(i, tx)
  IN IF OverCapacity(Len(q.slots), SlotIndex(q, tx.nonce)) THEN i
     ELSE [i EXCEPT
             !.account_queues = [a \in DOMAIN @ \cup {tx.sender} |->
                                   IF a = tx.sender THEN Filled(q, tx) ELSE @[a]],
             !.base_fee_eligibility = @ \cup {Key(tx.max_fee_per_gas, tx)},
             !.priority_queue = @ \cup {Key(effective_priority_fee(i, tx), tx)}]

insert(i, tx) ==
  IF Cardinality(i.base_fee_eligibility) < global_capacity THEN Place(i, tx)
  ELSE IF i.priority_queue = {} THEN i
  ELSE IF effective_priority_fee(i, tx) <= First(i.priority_queue).fee THEN i
  ELSE Place(Evict(i), tx)

\* A transaction that does not hold up the later ones of its sender.
Payable(i, tx) ==
  tx # None /\ tx.max_fee_per_gas >= i.current_base_fee /\ effective_priority_fee(i, tx) > 0

\* Mutant: the queue moves up to the last included transaction, not past it.
AdvancedTo(q, included_nonces) ==
  LET confirmed == Max({q.confirmed_nonce} \cup included_nonces)
      drain_count == confirmed - q.confirmed_nonce
  IN [confirmed_nonce |-> confirmed, slots |-> SubSeq(q.slots, drain_count + 1, Len(q.slots))]

\* Steps 2 and 3 of apply_block for one account: the slots of included
\* transactions are emptied, the queue moves past the last of them.
Advanced(q, included_nonces) ==
  LET confirmed == Max({q.confirmed_nonce} \cup {n + 1 : n \in included_nonces})
      emptied == [k \in DOMAIN q.slots |->
                    IF q.confirmed_nonce + k - 1 \in included_nonces THEN None ELSE q.slots[k]]
      drain_count == confirmed - q.confirmed_nonce
  IN [confirmed_nonce |-> confirmed,
      slots |-> IF drain_count < Len(emptied)
                THEN SubSeq(emptied, drain_count + 1, Len(emptied)) ELSE <<>>]

\* Mutant: a gap in the nonces is skipped.
RebuildOverGaps(i) ==
  {Key(effective_priority_fee(i, tx), tx) : tx \in
     UNION {{q.slots[k] : k \in {k \in DOMAIN q.slots :
               q.slots[k] # None /\ \A j \in 1 .. k : q.slots[j] = None \/ Payable(i, q.slots[j])}}
            : q \in {i.account_queues[a] : a \in DOMAIN i.account_queues}}}

\* Mutant: priority_queue is not cleared first.
RebuildUncleared(i) ==
  i.priority_queue \cup
  {Key(effective_priority_fee(i, tx), tx) : tx \in
     UNION {{q.slots[k] : k \in {k \in DOMAIN q.slots : \A j \in 1 .. k : Payable(i, q.slots[j])}}
            : q \in {i.account_queues[a] : a \in DOMAIN i.account_queues}}}

\* Step 5: the payable prefix of every account's queue.
Rebuild(i) ==
  {Key(effective_priority_fee(i, tx), tx) : tx \in
     UNION {{q.slots[k] : k \in {k \in DOMAIN q.slots : \A j \in 1 .. k : Payable(i, q.slots[j])}}
            : q \in {i.account_queues[a] : a \in DOMAIN i.account_queues}}}

\* The nonces of one account's transactions in a block.
NoncesOf(included, a) == {tx.nonce : tx \in {tx \in included : tx.sender = a}}

\* The slots that belong to transactions of the block.
Taken(i, included) ==
  (UNION {{SlotAt(i.account_queues[a], n) : n \in NoncesOf(included, a)}
          : a \in DOMAIN i.account_queues}) \ {None}

\* Steps 2 to 4: the queues move on, the transactions taken leave the index of
\* fees, and the base fee is the new one.
Moved(i, included, new_base_fee) ==
  [i EXCEPT
     !.account_queues = [a \in DOMAIN @ |-> Advanced(@[a], NoncesOf(included, a))],
     !.base_fee_eligibility = @ \ {Key(tx.max_fee_per_gas, tx) : tx \in Taken(i, included)},
     !.current_base_fee = new_base_fee]

\* apply_block.  included is the set of sender and nonce of the transactions in
\* the block; that step 2 also removes them from priority_queue is without
\* effect, as step 5 rebuilds it.
apply_block(i, included, new_base_fee) ==
  LET moved == Moved(i, included, new_base_fee)
  IN [moved EXCEPT !.priority_queue = Rebuild(moved)]

-----------------------------------------------------------------------------
(* MempoolHandle *)

\* The transactions in the slots: those find_tx_by_id can find.
Tracked(i) ==
  (UNION {Range(i.account_queues[a].slots) : a \in DOMAIN i.account_queues}) \ {None}

classify_transaction(i, tx) ==
  LET q == i.account_queues[tx.sender]
      offset == tx.nonce - q.confirmed_nonce
  IN IF \E k \in 1 .. offset : k \notin DOMAIN q.slots \/ ~Payable(i, q.slots[k])
     THEN "NonceBound"
     ELSE IF tx.max_fee_per_gas < i.current_base_fee THEN "BaseFeeInvalid"
     ELSE IF effective_priority_fee(i, tx) = 0 THEN "Unmarketable"
     ELSE "Marketable"

\* Gas of the transactions that priority_queue has before tx, one unit for each
\* key that still leads to a transaction.
gas_ahead(i, tx) ==
  Cardinality({k \in i.priority_queue :
                 /\ Precedes(k, Key(effective_priority_fee(i, tx), tx))
                 /\ SlotAt(i.account_queues[k.addr], k.nonce) # None})

-----------------------------------------------------------------------------
(* The specification *)

\* The type invariant; no account has more slots than per_account_capacity.
TypeOK ==
  /\ DOMAIN inner.account_queues \subseteq Addresses
  /\ \A a \in DOMAIN inner.account_queues :
       /\ inner.account_queues[a].confirmed_nonce \in Nat
       /\ Len(inner.account_queues[a].slots) <= per_account_capacity
       /\ Range(inner.account_queues[a].slots) \subseteq PendingTx \cup {None}
  /\ inner.base_fee_eligibility \subseteq Keys
  /\ inner.priority_queue \subseteq Keys
  /\ inner.current_base_fee \in Nat

\* from_channel, without initial transactions.
Init ==
  /\ inner = [account_queues |-> <<>>, base_fee_eligibility |-> {}, priority_queue |-> {},
              current_base_fee |-> initial_base_fee]
  /\ chain_nonce = [a \in Addresses |-> 0]
  /\ last_event = "start"
  /\ events_left = MaxEvents

Happens(event) ==
  /\ events_left > 0
  /\ events_left' = events_left - 1
  /\ last_event' = event

\* run: a pending transaction, new or old, is announced.
PendingTransaction ==
  /\ Happens("transaction")
  /\ \E tx \in PendingTx : inner' = insert(inner, tx)
  /\ UNCHANGED chain_nonce

\* The transactions between two vectors of account nonces.
Between(from, to) ==
  {tx \in [sender : Addresses, nonce : Nonces] :
     from[tx.sender] <= tx.nonce /\ tx.nonce < to[tx.sender]}

\* The chain moves on by a block with transactions that the tracker need not know.
Mined(to) == \A a \in Addresses : to[a] >= chain_nonce[a]

\* run: a block is announced.
NewBlock ==
  /\ Happens("block")
  /\ \E to \in [Addresses -> Nonces], fee \in BaseFees :
       /\ Mined(to)
       /\ inner' = apply_block(inner, Between(chain_nonce, to), fee)
       /\ chain_nonce' = to

\* The transport could not fetch the block: the tracker never hears of it.
MissedBlock ==
  /\ Happens("missed")
  /\ chain_nonce' \in {to \in [Addresses -> Nonces] : Mined(to) /\ to # chain_nonce}
  /\ UNCHANGED inner

\* The chain goes back to an earlier block; no event says so.
Reorg ==
  /\ Happens("reorg")
  /\ chain_nonce' \in {to \in [Addresses -> Nonces] :
        to # chain_nonce /\ \A a \in Addresses : to[a] <= chain_nonce[a]}
  /\ UNCHANGED inner

Next == PendingTransaction \/ NewBlock \/ MissedBlock \/ Reorg

Spec == Init /\ [][Next]_vars

-----------------------------------------------------------------------------
(* Properties *)

\* A slot holds the transaction of its account whose nonce is confirmed_nonce
\* plus the index, whatever is prepended by late announcements, drained by blocks
\* or skipped: all lookups and evictions go by this offset.
SlotsAligned ==
  \A a \in DOMAIN inner.account_queues :
    LET q == inner.account_queues[a] IN
      \A k \in DOMAIN q.slots :
        q.slots[k] # None => q.slots[k].sender = a /\ q.slots[k].nonce = q.confirmed_nonce + k - 1

\* Every tracked transaction counts towards global_capacity: it is in
\* base_fee_eligibility under the fee it was inserted with.
TrackedIsIndexed ==
  \A tx \in Tracked(inner) : Key(tx.max_fee_per_gas, tx) \in inner.base_fee_eligibility

\* The subtraction of u64 nonces in the eviction does not underflow: no key of
\* priority_queue, current or left behind, is below its account's confirmed_nonce.
KeysNotBelowConfirmed ==
  \A k \in inner.priority_queue :
    /\ k.addr \in DOMAIN inner.account_queues
    /\ k.nonce >= inner.account_queues[k.addr].confirmed_nonce

\* After a block the indexes of priority and the classification of single
\* transactions, which are computed separately, agree, and gas_ahead counts every
\* marketable transaction that comes first, once.
FreshAfterBlock ==
  LET marketable == {tx \in Tracked(inner) : classify_transaction(inner, tx) = "Marketable"}
      KeyOf(tx) == Key(effective_priority_fee(inner, tx), tx)
  IN last_event = "block" =>
       /\ inner.priority_queue = {KeyOf(tx) : tx \in marketable}
       /\ \A tx \in marketable :
            gas_ahead(inner, tx) =
              Cardinality({t \in marketable : Precedes(KeyOf(t), KeyOf(tx))})

\* After a block nothing is tracked that the block has overtaken: no transaction
\* of a sender in the block with a nonce up to the last one included.
OvertakenLeave ==
  [][last_event' = "block" =>
       \A tx \in Tracked(inner') :
         chain_nonce'[tx.sender] > chain_nonce[tx.sender] => tx.nonce >= chain_nonce'[tx.sender]]_vars

-----------------------------------------------------------------------------
(* What comments and tests say and the code does otherwise. *)

\* insert and its test: at capacity a transaction with a higher fee than the
\* worst one evicts that one.  The comparison is with the best one.
BetterThanWorstIsTracked ==
  \A tx \in PendingTx :
    /\ tx.sender \notin DOMAIN inner.account_queues
    /\ \E t \in Tracked(inner) : effective_priority_fee(inner, t) < effective_priority_fee(inner, tx)
    => tx \in Tracked(insert(inner, tx))

=============================================================================
