------------------------------ MODULE MCP2Wire ------------------------------
(***************************************************************************)
(* P2Wire for TLC: two keyed states, one without the amplifier, one        *)
(* PureSignal setting and two frequencies.                                 *)
(***************************************************************************)
EXTENDS P2Wire

CONSTANTS barefoot, full, feedback, f1, f2
=============================================================================
