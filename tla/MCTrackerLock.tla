---------------------------- MODULE MCTrackerLock ----------------------------
(* Instances of TrackerLock for TLC. *)
EXTENDS TrackerLock, TLC

CONSTANTS t1, t2, t3

TwoThreads == {t1, t2}
ThreeThreads == {t1, t2, t3}
NoThread == {}

Symm == Permutations(ThreeThreads)
=============================================================================
