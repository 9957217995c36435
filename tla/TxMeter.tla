------------------------------ MODULE TxMeter -------------------------------
(***************************************************************************)
(* The wattmeter (engine/tx_meter.c) and the reading limits of the gate    *)
(* (tx_gate.c).                                                            *)
(*                                                                         *)
(* Power and SWR are integers in tenths, the reflection coefficient is in  *)
(* hundredths; each division truncates, where the C code computes in       *)
(* doubles.  The wattmeter trim curve is the identity.  Of the meter's     *)
(* statics only the smoothed SWR outlives the slot that reads the coupler, *)
(* so swr stands for the meter and the words are arguments.                *)
(***************************************************************************)
EXTENDS Integers, FiniteSets

CONSTANTS
  PaWatts,    \* cfg.pa_watts in tenths of a watt; 0 selects the 100 W default
  SwrAlarm    \* cfg.swr_alarm in tenths

ASSUME MeterAssumption == PaWatts \in Nat /\ SwrAlarm \in Nat

\* An open line would make SWR infinite: gamma stops at 0.95.
GammaCap == 95

\* tx_meter_reset: SWR 1
MeterReset == 10

\* gamma = sqrt(rev / fwd), clamped: as many hundredths as have a square that fits.
Gamma(fwd, rev) ==
  Cardinality({g \in 1..GammaCap : g * g * fwd <= 10000 * rev})

\* Below 0.25 W there is nothing to measure and the reading counts as SWR 1.
RawSwr(fwd, rev) ==
  LET g == Gamma(fwd, rev)
  IN  IF 10 * fwd > 25 THEN (10 * (100 + g)) \div (100 - g) ELSE 10

\* The largest reading.
SwrCap == (10 * (100 + GammaCap)) \div (100 - GammaCap)

\* Mutant: the weights do not add up to one.
SmoothHeavy(swr, raw) == (7 * raw + 4 * swr) \div 10

\* One step of the smoothing.
Smooth(swr, raw) == (7 * raw + 3 * swr) \div 10

Rating == IF PaWatts > 0 THEN PaWatts ELSE 1000

AboveFloor(fwd)       == 20 * fwd >= Rating
HighSwr(swr, fwd)     == swr >= SwrAlarm /\ AboveFloor(fwd)
OpenAntenna(fwd, rev) == 10 * fwd > Rating /\ 100 * (fwd - rev) < Rating
=============================================================================
