------------------------------- MODULE TxGate -------------------------------
(***************************************************************************)
(* The transmit safety gate (engine/tx_gate.c) as a pure decision.         *)
(*                                                                         *)
(* The C file keeps two statics, s_tripped and s_pre_high, and rewrites    *)
(* them while it evaluates a request.  Here they are the gate record g and *)
(* GateNext(g, in) is its value after tx_gate_evaluate(in); GateResult     *)
(* is what the call returns.  The modules that own a gate (TxProtect,      *)
(* TxKey) apply both in one step, as the C call does.                      *)
(*                                                                         *)
(* An input carries the coupler reading already compared with its limits:  *)
(* high (SWR at or over the alarm, above the 5 % power floor), open (the   *)
(* open-antenna test) and hot (die temperature over the limit).  TxMeter   *)
(* derives them from the coupler words.                                    *)
(***************************************************************************)
CONSTANTS
  AllowOob,     \* cfg.allow_oob: the operator permits keying out of band
  SwrProtect    \* cfg.swr_protect: the SWR / open-antenna protection is on

ASSUME GateAssumption == AllowOob \in BOOLEAN /\ SwrProtect \in BOOLEAN

GateState == [tripped : BOOLEAN, preHigh : BOOLEAN]

\* tx_gate_reset, and what a release leaves behind
GateOff == [tripped |-> FALSE, preHigh |-> FALSE]

GateInput == [mox : BOOLEAN, tune : BOOLEAN, inBand : BOOLEAN, high : BOOLEAN,
              open : BOOLEAN, hot : BOOLEAN, stale : BOOLEAN]

Want(in)   == in.mox \/ in.tune
BandOk(in) == in.inBand \/ AllowOob

\* Mutant: TUNE exempts nothing.
TripNowTuneCounts(in) == in.open \/ in.high

\* Open antenna trips whatever is keyed; high SWR only when TUNE is not held.
TripNow(in) == in.open \/ (in.high /\ ~in.tune)

\* Mutant: an edge run re-arms the filter.
FilterStepEdgeRearms(g, in) ==
  [tripped |-> g.tripped \/ (SwrProtect /\ g.preHigh /\ TripNow(in)),
   preHigh |-> SwrProtect /\ ~in.stale /\ TripNow(in)]

\* The two-consecutive-readings filter.  An evaluation without a fresh coupler
\* reading leaves it alone.
FilterStep(g, in) ==
  IF SwrProtect /\ ~in.stale
    THEN [tripped |-> g.tripped \/ (g.preHigh /\ TripNow(in)),
          preHigh |-> TripNow(in)]
    ELSE g

\* One over-temperature reading is enough.
ThermalStep(g, in) ==
  IF in.hot /\ ~in.stale THEN [g EXCEPT !.tripped = TRUE] ELSE g

\* The statics after an evaluation: a release clears them, an out-of-band
\* request does not touch them.
GateNext(g, in) ==
  IF ~Want(in) THEN GateOff
  ELSE IF ~BandOk(in) THEN g
  ELSE ThermalStep(FilterStep(g, in), in)

\* Mutant: an evaluation without a reading does not consult the latch.
GateResultEdgeIgnoresLatch(gNext, in) ==
  LET keyed == Want(in) /\ BandOk(in) /\ (in.stale \/ ~gNext.tripped)
  IN  [keyed   |-> keyed,
       mox     |-> keyed /\ in.mox,
       tune    |-> keyed /\ in.tune,
       allowed |-> BandOk(in),
       tripped |-> gNext.tripped]

\* What the call returns, given the statics it leaves.
GateResult(gNext, in) ==
  LET keyed == Want(in) /\ BandOk(in) /\ ~gNext.tripped
  IN  [keyed   |-> keyed,
       mox     |-> keyed /\ in.mox,
       tune    |-> keyed /\ in.tune,
       allowed |-> BandOk(in),
       tripped |-> gNext.tripped]

GateResults == [keyed : BOOLEAN, mox : BOOLEAN, tune : BOOLEAN,
                allowed : BOOLEAN, tripped : BOOLEAN]
=============================================================================
