----------------------------- MODULE SolReplay -----------------------------
(***************************************************************************)
(* SolReplayProtection of adapter/solana.rs, the cache of a recent         *)
(* blockhash, driven by the slots that BlockFeed brings to Sender::run.    *)
(*                                                                         *)
(* A blockhash is named by the height of its block.  The node accepts it   *)
(* up to Validity blocks later.  The height that sync compares is read at  *)
(* the commitment of the client, which may be behind the latest block by   *)
(* CommitmentLag; the blockhash is read at "processed", which is not.      *)
(***************************************************************************)
EXTENDS BlockFeed

CONSTANTS
  Validity,                   \* 150 on Solana: blocks a blockhash is valid for
  BLOCKHASH_REFRESH_MARGIN,   \* 30 in the code
  CommitmentLag               \* how far get_block_height may be behind

ASSUME ReplayAssumption ==
  /\ Validity \in Nat
  /\ BLOCKHASH_REFRESH_MARGIN \in Nat
  /\ CommitmentLag \in Nat
  /\ BLOCKHASH_REFRESH_MARGIN < Validity

VARIABLES
  block_height,   \* of the chain, at "processed"
  state,          \* BlockhashState
  latest,         \* the answer of get_latest_blockhash, not yet stored
  read_at,        \* block_height when this sync read the height
  synced_at       \* history: read_at of the last sync that succeeded

solVars == <<block_height, state, latest, read_at, synced_at>>
vars == <<feedVars, solVars>>

\* get_latest_blockhash_with_commitment(processed)
get_latest_blockhash ==
  [hash |-> block_height, last_valid_block_height |-> block_height + Validity]

\* SolReplayProtection::new
Init ==
  /\ FeedInit
  /\ block_height = 0
  /\ state = get_latest_blockhash
  /\ latest = state
  /\ read_at = 0
  /\ synced_at = 0

\* A slot, which may be skipped: then there is no block.
Slot ==
  /\ Announce
  /\ block_height' \in IF adapter = "sol" THEN {block_height, block_height + 1} ELSE {block_height}
  /\ UNCHANGED <<state, latest, read_at, synced_at>>

\* Mutant: without the margin.
RefreshWhenExpired(current_height) == current_height >= state.last_valid_block_height

should_refresh(current_height) ==
  current_height + BLOCKHASH_REFRESH_MARGIN >= state.last_valid_block_height

\* get_block_height answers, and the answer is compared.
sync ==
  /\ loop = "sync"
  /\ adapter = "sol"
  /\ read_at' = block_height
  /\ \E current_height \in 0 .. block_height :
       /\ current_height + CommitmentLag >= block_height
       /\ IF should_refresh(current_height)
          THEN loop' = "latest" /\ UNCHANGED synced_at
          ELSE loop' = "recv" /\ synced_at' = read_at'
  /\ UNCHANGED <<adapter, nodeVars, forwarder, held, channel, received, late,
                 block_height, state, latest>>

\* get_latest_blockhash answers.
sync_latest ==
  /\ loop = "latest"
  /\ latest' = get_latest_blockhash
  /\ loop' = "store"
  /\ UNCHANGED <<adapter, nodeVars, forwarder, held, channel, received, late,
                 block_height, state, read_at, synced_at>>

\* The lock is granted.  Messages that are sent before get the old blockhash.
sync_store ==
  /\ loop = "store"
  /\ state' = latest
  /\ synced_at' = read_at
  /\ loop' = "recv"
  /\ UNCHANGED <<adapter, nodeVars, forwarder, held, channel, received, late,
                 block_height, latest, read_at>>

\* One of the two requests fails, and with it run().
sync_fails ==
  /\ loop \in {"sync", "latest"}
  /\ adapter = "sol"
  /\ Return
  /\ UNCHANGED solVars

\* The token of a message that is processed now.
next == state.hash

Sync == sync \/ sync_latest \/ sync_store \/ sync_fails

RunStep == (receive_block \/ subscription_closed \/ sync_nonce) /\ UNCHANGED solVars

Next ==
  \/ Slot
  \/ CloseSubscription /\ UNCHANGED solVars
  \/ \E k \in Forwarders : Forward(k) /\ UNCHANGED solVars
  \/ RunStep
  \/ Sync

Spec == Init /\ [][Next]_vars

\* The executor polls the forwarders and run(), and requests end.  The node owes
\* nothing.
FairSpec ==
  /\ Spec
  /\ \A k \in Forwarders : WF_vars(Forward(k) /\ UNCHANGED solVars)
  /\ WF_vars(RunStep \/ Sync)

-----------------------------------------------------------------------------
(* Properties *)

\* The type of the blockhash cache.
ReplayTypeOK ==
  /\ block_height \in Nat
  /\ state \in [hash : Nat, last_valid_block_height : Nat]
  /\ latest \in [hash : Nat, last_valid_block_height : Nat]
  /\ read_at \in Nat
  /\ synced_at \in Nat

\* The type invariant.
TypeOK == FeedTypeOK /\ ReplayTypeOK

\* A token is still valid when the chain has grown, since the last sync that
\* succeeded read the height, by no more than the refresh margin less what the
\* commitment of that reading may hide: also while a sync is between its two
\* requests, and after one has failed.  With a lag of the whole margin nothing is
\* left of the guarantee.
TokenValid ==
  block_height + CommitmentLag <= synced_at + BLOCKHASH_REFRESH_MARGIN =>
    block_height <= next + Validity

=============================================================================
