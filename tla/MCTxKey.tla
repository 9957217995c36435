------------------------------ MODULE MCTxKey -------------------------------
(***************************************************************************)
(* TxKey for TLC.  The blocks are coarse: the hang, the cutoff and the PTT *)
(* delay (300 ms, 20 s and 30 ms in the code) are one block each, which is *)
(* long enough for every step of the other threads to interrupt them.      *)
(***************************************************************************)
EXTENDS TxKey
=============================================================================
