------------------------------ MODULE MCSender ------------------------------
(* Instances of Sender for TLC. *)
EXTENDS Sender, TLC

CONSTANTS m1, m2

TwoMessages == {m1, m2}
OneMessage == {m1}
OneDeadline == {m1}
NonceRange == 0 .. 3
Attempts3 == 0 .. 3
Symm == Permutations(Messages)
=============================================================================
