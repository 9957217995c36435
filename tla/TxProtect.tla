------------------------------ MODULE TxProtect -----------------------------
(***************************************************************************)
(* The power-amplifier protection loop: the coupler words the radio        *)
(* reports, the wattmeter, the safety gate, and an operator who holds or   *)
(* releases MOX and TUNE.                                                  *)
(*                                                                         *)
(* Every 50 ms the transmit thread runs a slot (gate_slot in tx_run.c): it *)
(* takes the intents, the frequency and the two coupler words, feeds the   *)
(* meter and evaluates the gate.  A change of intent makes it run at once, *)
(* without a reading.  The listener stores the forward word of a status    *)
(* packet and then its reverse word while the slot loads them one by one,  *)
(* and a slot does not wait for a packet: the pair it loads may be new,    *)
(* torn or repeated, so it is any pair of Fwd and Rev words.  The operator *)
(* and the VFO move at any time.                                           *)
(*                                                                         *)
(* The record h is history: no guard reads it.  It says what the over has  *)
(* seen since the key was pressed, for the properties to speak about.      *)
(***************************************************************************)
EXTENDS TxGate, TxMeter

CONSTANTS
  Fwd, Rev,     \* forward and reverse power words, in tenths of a watt
  Thermal       \* the radio reports a die temperature (cfg.temp_limit_c > 0)

ASSUME ProtectAssumption ==
  Fwd \subseteq Nat /\ Rev \subseteq Nat /\ Thermal \in BOOLEAN

VARIABLES
  mox, tune,    \* s_want_mox, s_want_tune
  inBand,       \* the band plan's answer for the transmit frequency
  swr,          \* m_swr, the meter's smoothed SWR
  gate,         \* tx_gate.c's statics
  prevWant,     \* want of the last evaluation
  seen,         \* prev_intent: the fingerprint of the last evaluation
  out,          \* what the last evaluation returned
  h             \* history

operVars  == <<mox, tune, inBand>>
loopVars  == <<swr, gate, prevWant, seen, out>>
vars      == <<operVars, loopVars, h>>

\* The SWR of every pair of words a slot can load, computed once.
Raw == [f \in Fwd |-> [r \in Rev |-> RawSwr(f, r)]]

Readings == {"clean", "garbage", "bad"}

History ==
  [released : BOOLEAN,    \* every intent was low at some moment since the trip
   worst    : Readings,   \* this over's worst reading
   onlyTune : BOOLEAN,    \* this over held TUNE, and no reading was open
   hot      : BOOLEAN,    \* a reading of this over was too hot
   badRun   : 0..2,       \* consecutive MOX readings far over the alarm
   openRun  : 0..2]       \* consecutive open-antenna readings

TypeOK ==
  /\ mox \in BOOLEAN /\ tune \in BOOLEAN /\ inBand \in BOOLEAN
  /\ swr \in MeterReset..SwrCap
  /\ gate \in GateState
  /\ prevWant \in BOOLEAN
  /\ seen \in BOOLEAN \X BOOLEAN
  /\ out \in GateResults
  /\ h \in History

NewOver == [released |-> FALSE, worst |-> "clean", onlyTune |-> TRUE,
            hot |-> FALSE, badRun |-> 0, openRun |-> 0]

Init ==
  /\ mox = FALSE /\ tune = FALSE /\ inBand = TRUE
  /\ swr = MeterReset
  /\ gate = GateOff
  /\ prevWant = FALSE
  /\ seen = <<FALSE, FALSE>>
  /\ out = [keyed |-> FALSE, mox |-> FALSE, tune |-> FALSE, allowed |-> TRUE,
            tripped |-> FALSE]
  /\ h = NewOver

-----------------------------------------------------------------------------
(* The operator (tx_run_request) and the VFO (tx_run_set_freq).            *)

Request(m, t) ==
  /\ <<m, t>> # <<mox, tune>>
  /\ mox' = m /\ tune' = t
  /\ h' = [h EXCEPT !.released = @ \/ (gate.tripped /\ ~(m \/ t))]
  /\ UNCHANGED <<inBand, loopVars>>

Qsy ==
  /\ inBand' = ~inBand
  /\ UNCHANGED <<mox, tune, loopVars, h>>

-----------------------------------------------------------------------------
(* What an evaluation adds to the history of the over.                     *)

\* The reading itself, unsmoothed, against the limits.
BadReading(fwd, rev) ==
  OpenAntenna(fwd, rev) \/ (Raw[fwd][rev] >= SwrAlarm /\ AboveFloor(fwd))

Rate(fwd, rev) ==
  IF BadReading(fwd, rev) THEN "bad"
  ELSE IF Raw[fwd][rev] >= SwrAlarm THEN "garbage" ELSE "clean"

Worse(a, b) ==
  IF "bad" \in {a, b} THEN "bad"
  ELSE IF "garbage" \in {a, b} THEN "garbage" ELSE "clean"

\* One smoothing step from SWR 1 is enough for it to stay over the alarm.
FarOver(fwd, rev) == 7 * Raw[fwd][rev] >= 10 * SwrAlarm /\ AboveFloor(fwd)

UpTo2(n) == IF n = 2 THEN 2 ELSE n + 1

RecordIntent(o, in) ==
  IF Want(in) THEN [o EXCEPT !.onlyTune = @ /\ ~in.mox] ELSE NewOver

RecordReading(o, in, fwd, rev) ==
  LET rated == [o EXCEPT !.worst = Worse(@, Rate(fwd, rev))]
  IN  IF ~BandOk(in) THEN rated
      ELSE [rated EXCEPT
             !.onlyTune = @ /\ ~OpenAntenna(fwd, rev),
             !.hot      = @ \/ in.hot,
             !.badRun   = IF FarOver(fwd, rev) /\ in.mox /\ ~in.tune
                            THEN UpTo2(@) ELSE 0,
             !.openRun  = IF OpenAntenna(fwd, rev) THEN UpTo2(@) ELSE 0]

-----------------------------------------------------------------------------
(* The transmit thread.                                                    *)

want == mox \/ tune

\* Mutants: every intent edge starts an over; the meter outlives the over.
RisingWantAnyEdge == want /\ seen # <<mox, tune>>
SwrAtKept         == swr

\* A rising want starts the over on a clean latch and a clean meter.
RisingWant == want /\ ~prevWant
GateAt     == IF RisingWant THEN GateOff ELSE gate
SwrAt      == IF RisingWant THEN MeterReset ELSE swr
OverAt     == IF RisingWant THEN NewOver ELSE h

Evaluate(in) ==
  /\ gate' = GateNext(GateAt, in)
  /\ out' = GateResult(gate', in)
  /\ prevWant' = want
  /\ seen' = <<mox, tune>>

\* An intent edge: the gate runs at once and without a reading, so what it
\* is told of the meter does not count.
EdgeRun ==
  /\ seen # <<mox, tune>>
  /\ LET in == [mox |-> mox, tune |-> tune, inBand |-> inBand, high |-> FALSE,
                open |-> FALSE, hot |-> FALSE, stale |-> TRUE]
     IN  /\ Evaluate(in)
         /\ h' = RecordIntent(OverAt, in)
  /\ swr' = SwrAt
  /\ UNCHANGED operVars

\* The 50 ms slot, on the words and the temperature it loaded.
Slot(fwd, rev, hot) ==
  /\ swr' = Smooth(SwrAt, Raw[fwd][rev])
  /\ LET in == [mox |-> mox, tune |-> tune, inBand |-> inBand,
                high |-> HighSwr(swr', fwd), open |-> OpenAntenna(fwd, rev),
                hot |-> hot, stale |-> FALSE]
         o  == RecordIntent(OverAt, in)
     IN  /\ Evaluate(in)
         /\ h' = IF want THEN RecordReading(o, in, fwd, rev) ELSE o
  /\ UNCHANGED operVars

Next ==
  \/ \E m, t \in BOOLEAN : Request(m, t)
  \/ Qsy
  \/ EdgeRun
  \/ \E fwd \in Fwd, rev \in Rev, hot \in {FALSE, Thermal} :
       Slot(fwd, rev, hot)

Spec == Init /\ [][Next]_vars

-----------------------------------------------------------------------------
(* Properties.                                                             *)

\* A latched trip holds until the operator has let go of every intent at
\* least once since it fired: however MOX and TUNE are swapped meanwhile, the
\* exciter does not come back by itself (tx_gate.c, "latched until release").
LatchHeldUntilRelease ==
  [][gate.tripped /\ ~gate'.tripped => h.released]_vars

\* A latched trip is never keyed, whichever of MOX and TUNE is held.
TrippedIsUnkeyed == gate.tripped => ~out.keyed

\* An over whose every reading was below the alarm and not open never trips,
\* whatever the previous over left in the meter (the reset on a rising want).
CleanOverNeverTrips == ~h.hot /\ h.worst = "clean" => ~gate.tripped

\* Two consecutive MOX readings far enough over the alarm for one smoothing
\* step to carry it leave the exciter unkeyed, even across edge runs and an
\* excursion out of band between them.
SustainedMismatchUnkeys == SwrProtect /\ h.badRun = 2 => ~out.keyed

\* Two consecutive open-antenna readings leave the exciter unkeyed whatever
\* is held: TUNE does not exempt an open port.
OpenAntennaUnkeys == SwrProtect /\ h.openRun = 2 => ~out.keyed

\* An over that only ever held TUNE and saw no open antenna never trips, no
\* matter how bad the SWR is (tuning an ATU through a mismatch).
TuneToleratesMismatch == ~h.hot /\ h.onlyTune => ~gate.tripped

\* One over-temperature reading ends the over until the key is released.
HotOverStaysUnkeyed == h.hot => ~out.keyed

\* What the protection is for (tx_gate.c:49-95): each of the three dangers leaves the
\* exciter unkeyed, whatever intents, edge runs and QSYs came between its readings.
DangerUnkeys == SustainedMismatchUnkeys /\ OpenAntennaUnkeys /\ HotOverStaysUnkeyed

-----------------------------------------------------------------------------
(* What a comment says, and the code does not do.                          *)

\* tx_gate.c:78, a reading below the power floor must not "count toward the
\* 2-consecutive trip": some reading above the floor was bad before a trip.
GarbageNeverTrips == gate.tripped => h.worst = "bad"
=============================================================================
