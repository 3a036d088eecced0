---------------------------- MODULE NonceManager ----------------------------
(***************************************************************************)
(* The nonce tracker of crates/bulkmail/src/nonce_manager.rs.              *)
(*                                                                         *)
(* NonceState is the pair of variables below.  It sits behind one mutex    *)
(* and no method awaits while it holds the guard, so every method is one   *)
(* atomic step.  The one exception, sync_nonce, awaits an RPC before it    *)
(* takes the lock; the module Sender models it as two steps.               *)
(***************************************************************************)
EXTENDS Naturals

CONSTANT Nonces         \* the u64 nonce space; a small interval for TLC

ASSUME NoncesAssumption == Nonces \subseteq Nat /\ 0 \in Nonces

VARIABLES
  current,              \* baseline: the last account nonce learnt
  in_flight             \* nonces that are assigned and not yet pruned

nonceVars == <<current, in_flight>>

NonceTypeOK ==
  /\ current \in Nat
  /\ in_flight \subseteq Nonces

\* NonceManager::new, given the nonce fetched from the chain.
new(current_nonce) ==
  /\ current = current_nonce
  /\ in_flight = {}

\* The while loop: n is where the walk from the baseline over the in-flight
\* nonces stops.
WalkStopsAt(n) ==
  /\ n >= current
  /\ n \notin in_flight
  /\ \A k \in Nonces : current <= k /\ k < n => k \in in_flight

\* Mutant: the assigned nonce is not reserved.
GetNextUnreserved(n) ==
  /\ WalkStopsAt(n)
  /\ UNCHANGED nonceVars

get_next_available_nonce(n) ==
  /\ WalkStopsAt(n)
  /\ in_flight' = in_flight \cup {n}
  /\ UNCHANGED current

mark_nonce_available(n) ==
  /\ in_flight' = in_flight \ {n}
  /\ UNCHANGED current

\* Mutant: the baseline is moved one past the value given.
UpdateCurrentPastIt(new_nonce) ==
  IF new_nonce > current
  THEN /\ current' = new_nonce + 1
       /\ in_flight' = {n \in in_flight : n > new_nonce}
  ELSE UNCHANGED nonceVars

\* A no-op unless the baseline advances; otherwise prunes below it.
update_current_nonce(new_nonce) ==
  IF new_nonce > current
  THEN /\ current' = new_nonce
       /\ in_flight' = {n \in in_flight : n >= new_nonce}
  ELSE UNCHANGED nonceVars
=============================================================================
