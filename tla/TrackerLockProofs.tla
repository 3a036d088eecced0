-------------------------- MODULE TrackerLockProofs --------------------------
(* Proofs about TrackerLock, for any threads and any number of events. *)
EXTENDS TrackerLock, TLAPS

\* What a thread has under a guard is current: a guard keeps the writer out from
\* the moment the thread first read.
GuardedIsCurrent == \A t \in Threads : at[t] \in Guarded => seen[t] = version

\* An event that was received is one of the MaxEvents and not yet applied.
ReceivedIsNew == tracker \in {"wait", "write"} => version < MaxEvents

IInv == TypeOK /\ GuardedIsCurrent /\ ReceivedIsNew

\* The invariant holds when nobody has asked anything yet.
LEMMA IInvInit == Init => IInv
  BY TrackerLockAssumption DEF Init, IInv, TypeOK, GuardedIsCurrent, ReceivedIsNew, NoReader, Guarded

\* Every step of the tracker and of a query keeps the invariant.  Only apply
\* changes version, and there is no reader then.
LEMMA IInvStep == IInv /\ [Next]_vars => IInv'
<1> SUFFICES ASSUME IInv, [Next]_vars PROVE IInv'
  OBVIOUS
<1> USE TrackerLockAssumption DEF IInv, TypeOK, GuardedIsCurrent, ReceivedIsNew, NoReader, Guarded
<1>1. CASE recv
  BY <1>1 DEF recv
<1>2. CASE write
  BY <1>2 DEF write
<1>3. CASE apply
  BY <1>3 DEF apply
<1>4. ASSUME NEW t \in Threads, query(t) PROVE IInv'
  BY <1>4 DEF query, Goto
<1>5. ASSUME NEW t \in Threads, estimated_blocks_to_confirm(t) PROVE IInv'
  BY <1>5 DEF estimated_blocks_to_confirm, Goto
<1>6. ASSUME NEW t \in Threads, read(t) PROVE IInv'
  BY <1>6 DEF read, CanRead, Goto
<1>7. ASSUME NEW t \in Threads, call_gas_ahead(t) PROVE IInv'
  BY <1>7 DEF call_gas_ahead, Goto
<1>8. ASSUME NEW t \in Threads, read_again(t) PROVE IInv'
  BY <1>8 DEF read_again, CanRead, Goto
<1>9. ASSUME NEW t \in Threads, return(t) PROVE IInv'
  BY <1>9 DEF return, Goto
<1>10. CASE disconnected
  BY <1>10 DEF disconnected
<1>11. CASE UNCHANGED vars
  BY <1>11 DEF vars
<1> QED
  BY <1>1, <1>2, <1>3, <1>4, <1>5, <1>6, <1>7, <1>8, <1>9, <1>10, <1>11
  DEF Next, TrackerStep, QueryStep

\* The invariant of the reachable states.
LEMMA Invariance == Spec => []IInv
  BY IInvInit, IInvStep, PTL DEF Spec

\* Readers and the writer are never in together, and all variables keep their
\* types.
THEOREM TypeCorrect == Spec => []TypeOK
<1>1. IInv => TypeOK
  BY DEF IInv
<1> QED
  BY <1>1, Invariance, PTL

\* estimated_blocks_to_confirm reads its transaction and its gas_ahead from the
\* same state, for any number of threads and events.
THEOREM SnapshotHolds == Spec => []SameSnapshot
<1>1. IInv => SameSnapshot
  BY DEF IInv, GuardedIsCurrent, SameSnapshot, Guarded
<1> QED
  BY <1>1, Invariance, PTL
=============================================================================
