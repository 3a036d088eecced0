------------------------------ MODULE EthNode ------------------------------
(***************************************************************************)
(* The Ethereum node behind chain::ChainClient, as far as bulkmail can     *)
(* see it: the account's nonce, the pending transactions of the account,   *)
(* and the ones a block holds.  External: modelled from the calls that     *)
(* crates/bulkmail/src/chain.rs and adapter/ethereum.rs make and from the  *)
(* answers they distinguish.  There are no reorganisations.                *)
(***************************************************************************)
EXTENDS Naturals

CONSTANTS
  Messages,             \* the callers' messages, one model value for each
  Foreign,              \* stands for a transaction of an earlier process
  Leftover,             \* nonces an earlier process left in the mempool
  Attempts              \* how often a message may be signed and sent

VARIABLES
  account_nonce,        \* eth_getTransactionCount(address, latest)
  mempool,              \* pending transactions of the account
  mined,                \* transactions of the account that are in a block
  reverted              \* the ones among them whose receipt has status 0

nodeVars == <<account_nonce, mempool, mined, reverted>>

\* Two signings of a message differ in their fee, hence in their hash:
\* "attempt" tells them apart.
Tx == [nonce : Nat, msg : Messages \cup {Foreign}, attempt : Attempts]

NodeTypeOK ==
  /\ account_nonce \in Nat
  /\ mempool \subseteq Tx
  /\ mined \subseteq Tx
  /\ reverted \subseteq mined

NodeInit ==
  /\ account_nonce = 0
  /\ mempool = {[nonce |-> n, msg |-> Foreign, attempt |-> 0] : n \in Leftover}
  /\ mined = {}
  /\ reverted = {}

\* eth_sendRawTransaction succeeds.  A pending transaction of the same nonce
\* is replaced; a nonce the chain has consumed is always refused.
Accept(tx) ==
  /\ tx.nonce >= account_nonce
  /\ mempool' = {t \in mempool : t.nonce # tx.nonce} \cup {tx}
  /\ UNCHANGED <<account_nonce, mined, reverted>>

\* A block takes the account's next transaction, which succeeds or reverts.
Mine ==
  \E tx \in mempool :
    /\ tx.nonce = account_nonce
    /\ account_nonce' = account_nonce + 1
    /\ mempool' = mempool \ {tx}
    /\ mined' = mined \cup {tx}
    /\ reverted' \in {reverted, reverted \cup {tx}}

\* The node forgets a pending transaction.
Evict ==
  \E tx \in mempool :
    /\ mempool' = mempool \ {tx}
    /\ UNCHANGED <<account_nonce, mined, reverted>>
=============================================================================
