--------------------------- MODULE MCMessageQueue ---------------------------
(* Instances of MessageQueue for TLC. *)
EXTENDS MessageQueue, TLC

CONSTANTS m1, m2

TwoMessages == {m1, m2}
Symm == Permutations(Messages)
=============================================================================
