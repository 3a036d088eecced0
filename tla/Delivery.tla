------------------------------ MODULE Delivery ------------------------------
(***************************************************************************)
(* What bulkmail promises the callers of add_message, with no mention of   *)
(* nonces, permits, retries or the mempool.  Sender implements it.         *)
(***************************************************************************)
EXTENDS Naturals, FiniteSets

CONSTANTS
  Messages,
  Slots               \* how many messages may be worked on at a time

VARIABLES
  phase,              \* where a message is in its life
  executed,           \* messages with a successful transaction on the chain
  succeeded           \* messages whose task ended with a confirmation

vars == <<phase, executed, succeeded>>

Init ==
  /\ phase = [m \in Messages |-> "new"]
  /\ executed = {}
  /\ succeeded = {}

Submit(m) ==
  /\ phase[m] = "new"
  /\ phase' = [phase EXCEPT ![m] = "waiting"]
  /\ UNCHANGED <<executed, succeeded>>

Start(m) ==
  /\ phase[m] = "waiting"
  /\ Cardinality({k \in Messages : phase[k] = "active"}) < Slots
  /\ phase' = [phase EXCEPT ![m] = "active"]
  /\ UNCHANGED <<executed, succeeded>>

\* The chain executes a message that was started, once, even if its task has
\* given it up.
Execute(m) ==
  /\ phase[m] \in {"active", "ended"}
  /\ m \notin executed
  /\ executed' = executed \cup {m}
  /\ UNCHANGED <<phase, succeeded>>

EndWithSuccess(m) ==
  /\ phase[m] = "active"
  /\ m \in executed
  /\ phase' = [phase EXCEPT ![m] = "ended"]
  /\ succeeded' = succeeded \cup {m}
  /\ UNCHANGED executed

EndWithout(m) ==
  /\ phase[m] = "active"
  /\ phase' = [phase EXCEPT ![m] = "ended"]
  /\ UNCHANGED <<executed, succeeded>>

Next ==
  \E m \in Messages :
    Submit(m) \/ Start(m) \/ Execute(m) \/ EndWithSuccess(m) \/ EndWithout(m)

Spec == Init /\ [][Next]_vars
=============================================================================
