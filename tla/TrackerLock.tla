----------------------------- MODULE TrackerLock -----------------------------
(***************************************************************************)
(* The RwLock<MempoolInner> that MempoolTracker::run shares with the       *)
(* threads that query a MempoolHandle.  What the events do to the contents *)
(* is in MempoolTracker; here only their number matters.                   *)
(*                                                                         *)
(* The lock is std::sync::RwLock, whose documentation leaves the policy    *)
(* open.  CanRead is the policy of its futex implementation, the one used  *)
(* on Linux: a writer that waits holds back readers that arrive later,     *)
(* also a thread that already has a read guard.                            *)
(***************************************************************************)
EXTENDS Naturals

CONSTANTS
  Threads,      \* threads with a MempoolHandle
  Estimating,   \* those that call estimated_blocks_to_confirm, too
  MaxEvents     \* bound: events sent to the tracker

ASSUME TrackerLockAssumption == Estimating \subseteq Threads /\ MaxEvents \in Nat

VARIABLES
  tracker,      \* the thread in run: "recv", waiting for the lock, writing, or
                \* "ended"
  version,      \* events applied so far
  at,           \* where the query of a thread is
  seen          \* the version at which a thread took its first read guard

vars == <<tracker, version, at, seen>>

\* Mutant: estimated_blocks_to_confirm drops its guard before it calls gas_ahead.
GuardedUntilCall == {"single", "outer", "inner"}

\* The points of a query at which its thread has a read guard.
Guarded == {"single", "outer", "inner_wait", "inner"}

NoReader == \A t \in Threads : at[t] \notin Guarded

\* Mutant: readers come in beside a writer.
CanReadBesideWriter == tracker # "wait"

\* Mutant: readers overtake a writer that waits.
CanReadPastWaiter == tracker # "write"

\* RwLock::read gets the lock.
CanRead == tracker \notin {"wait", "write"}

Init ==
  /\ tracker = "recv"
  /\ version = 0
  /\ at = [t \in Threads |-> "idle"]
  /\ seen = [t \in Threads |-> 0]

-----------------------------------------------------------------------------
(* MempoolTracker::run *)

\* An event arrives and run asks for the write lock.
recv ==
  /\ tracker = "recv"
  /\ version < MaxEvents
  /\ tracker' = "wait"
  /\ UNCHANGED <<version, at, seen>>

write ==
  /\ tracker = "wait"
  /\ NoReader
  /\ tracker' = "write"
  /\ UNCHANGED <<version, at, seen>>

\* insert or apply_block; the guard is dropped at the end of the match arm.
apply ==
  /\ tracker = "write"
  /\ version' = version + 1
  /\ tracker' = "recv"
  /\ UNCHANGED <<at, seen>>

-----------------------------------------------------------------------------
(* MempoolHandle *)

Goto(t, point) == at' = [at EXCEPT ![t] = point]

\* Any query but estimated_blocks_to_confirm: one read guard.
query(t) ==
  /\ at[t] = "idle"
  /\ Goto(t, "single_wait")
  /\ UNCHANGED <<tracker, version, seen>>

estimated_blocks_to_confirm(t) ==
  /\ t \in Estimating
  /\ at[t] = "idle"
  /\ Goto(t, "outer_wait")
  /\ UNCHANGED <<tracker, version, seen>>

\* self.inner.read() at the start of a query.
read(t) ==
  /\ CanRead
  /\ \/ at[t] = "single_wait" /\ Goto(t, "single")
     \/ at[t] = "outer_wait" /\ Goto(t, "outer")
  /\ seen' = [seen EXCEPT ![t] = version]
  /\ UNCHANGED <<tracker, version>>

\* estimated_blocks_to_confirm has found its transaction and calls gas_ahead.
call_gas_ahead(t) ==
  /\ at[t] = "outer"
  /\ Goto(t, "inner_wait")
  /\ UNCHANGED <<tracker, version, seen>>

\* self.inner.read() in gas_ahead, called by estimated_blocks_to_confirm.
read_again(t) ==
  /\ CanRead
  /\ at[t] = "inner_wait"
  /\ Goto(t, "inner")
  /\ UNCHANGED <<tracker, version, seen>>

\* The query returns and drops its guards; from "outer" when there is no such
\* transaction.
return(t) ==
  /\ at[t] \in {"single", "outer", "inner"}
  /\ Goto(t, "idle")
  /\ seen' = [seen EXCEPT ![t] = 0]
  /\ UNCHANGED <<tracker, version>>

TrackerStep == recv \/ write \/ apply

\* recv finds the channel empty and all its senders dropped.
disconnected ==
  /\ tracker = "recv"
  /\ tracker' = "ended"
  /\ UNCHANGED <<version, at, seen>>

QueryStep(t) == read(t) \/ call_gas_ahead(t) \/ read_again(t) \/ return(t)

Next ==
  \/ TrackerStep
  \/ disconnected
  \/ \E t \in Threads : query(t) \/ estimated_blocks_to_confirm(t) \/ QueryStep(t)

Spec == Init /\ [][Next]_vars

\* A thread that can go on does.  Nobody has to start a query.
FairSpec == Spec /\ WF_vars(TrackerStep) /\ \A t \in Threads : WF_vars(QueryStep(t))

-----------------------------------------------------------------------------
(* Properties *)

\* The type invariant; readers and the writer are never in together.
TypeOK ==
  /\ tracker \in {"recv", "wait", "write", "ended"}
  /\ version \in 0 .. MaxEvents
  /\ at \in [Threads -> Guarded \cup {"idle", "single_wait", "outer_wait"}]
  /\ seen \in [Threads -> 0 .. MaxEvents]
  /\ tracker = "write" => NoReader

\* estimated_blocks_to_confirm combines a transaction and a gas_ahead that were
\* read under two guards: both are of the same state, no event comes between.
SameSnapshot == \A t \in Threads : at[t] = "inner" => seen[t] = version

\* The only way to get stuck: a thread asks for its second read guard behind the
\* writer, which waits for its first one.
Wedged == tracker = "wait" /\ \E t \in Threads : at[t] = "inner_wait"

\* An event that run has received is applied, however many queries are made, and
\* a query that was made returns, unless the lock is wedged: no other order of
\* guards, events and queries keeps anyone waiting for ever.
EveryoneProgresses ==
  /\ (tracker \in {"wait", "write"}) ~> (tracker = "recv" \/ Wedged)
  /\ \A t \in Threads : (at[t] # "idle") ~> (at[t] = "idle" \/ Wedged)

-----------------------------------------------------------------------------
(* What a comment says and the code does otherwise. *)

\* A query that was made returns: a MempoolHandle is one "which can be cloned and
\* shared across threads".  The second read of estimated_blocks_to_confirm can
\* wait for the writer while the writer waits for its first one.
EveryQueryReturns == \A t \in Threads : (at[t] # "idle") ~> (at[t] = "idle")
=============================================================================
