----------------------------- MODULE MCGasPrice -----------------------------
(* Instances of GasPrice for TLC. *)
EXTENDS GasPrice

CONSTANTS t1, t2

OneTx == {t1}
TwoTxs == {t1, t2}
Symm == Permutations(Txs)
=============================================================================
