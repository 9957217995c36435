---------------------------- MODULE MCTxProtect -----------------------------
(***************************************************************************)
(* TxProtect for TLC: a 100 W amplifier with its alarm at SWR 3.  The      *)
(* words are idle, 2 W (under the 5 % floor: the key-on ramp, whose        *)
(* reverse word is garbage) and 50 W, into a match, SWR 12 and nothing.    *)
(***************************************************************************)
EXTENDS TxProtect

MCFwd == {0, 20, 500}
MCRev == {0, 20, 361, 500}
=============================================================================
