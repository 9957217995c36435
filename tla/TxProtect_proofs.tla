--------------------------- MODULE TxProtect_proofs --------------------------
(***************************************************************************)
(* Proofs about the protection loop, for every amplifier, every alarm and  *)
(* every set of coupler words.                                             *)
(***************************************************************************)
EXTENDS TxProtect, FiniteSetTheorems, TLAPS

-----------------------------------------------------------------------------
(* The meter.                                                              *)

\* Quotients lie where they should.
LEMMA QuotientBounds ==
  ASSUME NEW a \in Nat, NEW b \in Nat \ {0}, NEW lo \in Nat, NEW hi \in Nat,
         lo * b <= a, a <= hi * b
  PROVE  a \div b \in lo..hi
<1> DEFINE q == a \div b
<1>1. q \in Int /\ b * q <= a /\ a < b * (q + 1)
  OBVIOUS
<1>2. b * lo < b * (q + 1)
  BY <1>1
<1>3. lo < q + 1
  BY <1>1, <1>2
<1>4. b * q <= b * hi
  BY <1>1
<1>5. q <= hi
  BY <1>1, <1>4
<1>6. QED
  BY <1>1, <1>3, <1>5

\* The reflection coefficient stays under its clamp.
LEMMA GammaType ==
  ASSUME NEW fwd \in Nat, NEW rev \in Nat
  PROVE  Gamma(fwd, rev) \in 0..GammaCap
<1> DEFINE Fits == {g \in 1..GammaCap : g * g * fwd <= 10000 * rev}
<1>1. /\ IsFiniteSet(1..GammaCap)
      /\ Cardinality(1..GammaCap) = IF 1 > GammaCap THEN 0 ELSE GammaCap - 1 + 1
  <2>1. 1 \in Int /\ GammaCap \in Int
    BY DEF GammaCap
  <2>2. QED
    BY <2>1, FS_Interval
<1>2. Fits \in SUBSET (1..GammaCap)
  OBVIOUS
<1> HIDE DEF Fits
<1>3. IsFiniteSet(Fits) /\ Cardinality(Fits) <= Cardinality(1..GammaCap)
  BY <1>1, <1>2, FS_Subset
<1>4. Cardinality(Fits) \in Nat
  BY <1>3, FS_CardinalityType
<1>5. Cardinality(Fits) \in 0..GammaCap
  BY <1>1, <1>3, <1>4 DEF GammaCap
<1>6. QED
  BY <1>5 DEF Gamma, Fits

\* So the SWR of a reading lies between 1 and that of the clamp.
LEMMA RawSwrType ==
  ASSUME NEW fwd \in Nat, NEW rev \in Nat
  PROVE  RawSwr(fwd, rev) \in MeterReset..SwrCap
<1>1. SwrCap = 390 /\ MeterReset = 10
  BY DEF SwrCap, GammaCap, MeterReset
<1>2. PICK g \in 0..95 : g = Gamma(fwd, rev)
  BY GammaType DEF GammaCap
<1>3. (10 * (100 + g)) \div (100 - g) \in 10..390
  BY QuotientBounds
<1>4. QED
  BY <1>1, <1>2, <1>3 DEF RawSwr

\* The smoothed SWR lies between the reading and the last one.
LEMMA SmoothBounds ==
  ASSUME NEW s \in Nat, NEW raw \in Nat, NEW lo \in Nat, NEW hi \in Nat,
         lo <= s, lo <= raw, s <= hi, raw <= hi
  PROVE  Smooth(s, raw) \in lo..hi
BY DEF Smooth

\* A reading that is far enough over the alarm carries the average.
LEMMA SmoothFarOver ==
  ASSUME NEW s \in Nat, NEW raw \in Nat, NEW alarm \in Nat, 7 * raw >= 10 * alarm
  PROVE  Smooth(s, raw) >= alarm
BY DEF Smooth

\* What a slot loads.
LEMMA RawType ==
  ASSUME NEW fwd \in Fwd, NEW rev \in Rev
  PROVE  Raw[fwd][rev] \in MeterReset..SwrCap
<1>1. Raw[fwd][rev] = RawSwr(fwd, rev)
  BY DEF Raw
<1>2. QED
  BY <1>1, RawSwrType, ProtectAssumption

-----------------------------------------------------------------------------
(* The gate and the history.                                               *)

\* An evaluation of the gate returns its statics and a result.
LEMMA GateTypes ==
  ASSUME NEW g \in GateState, NEW in \in GateInput
  PROVE  GateNext(g, in) \in GateState /\ GateResult(g, in) \in GateResults
<1>1. Want(in) \in BOOLEAN /\ BandOk(in) \in BOOLEAN /\ TripNow(in) \in BOOLEAN
  BY GateAssumption DEF Want, BandOk, TripNow, GateInput
<1>2. FilterStep(g, in) \in GateState
  BY <1>1 DEF FilterStep, GateState
<1>3. ThermalStep(FilterStep(g, in), in) \in GateState
  BY <1>2 DEF ThermalStep, GateState
<1>4. GateNext(g, in) \in GateState
  BY <1>3 DEF GateNext, GateOff, GateState
<1>5. GateResult(g, in) \in GateResults
  BY <1>1 DEF GateResult, GateResults, GateState, GateInput
<1>6. QED
  BY <1>4, <1>5

\* What an intent adds to the history of an over, field by field.
LEMMA IntentRecorded ==
  ASSUME NEW o \in History, NEW in \in GateInput
  PROVE  /\ RecordIntent(o, in) \in History
         /\ ~Want(in) => RecordIntent(o, in) = NewOver
         /\ Want(in) =>
              /\ RecordIntent(o, in).worst = o.worst
              /\ RecordIntent(o, in).hot = o.hot
              /\ RecordIntent(o, in).badRun = o.badRun
              /\ RecordIntent(o, in).openRun = o.openRun
              /\ RecordIntent(o, in).onlyTune => o.onlyTune /\ ~in.mox
<1> DEFINE only == o.onlyTune /\ ~in.mox
           r    == [o EXCEPT !.onlyTune = only]
<1>1. only \in BOOLEAN
  OBVIOUS
<1>2. only => o.onlyTune /\ ~in.mox
  OBVIOUS
<1> HIDE DEF only
<1>3. /\ r \in History /\ r.worst = o.worst /\ r.hot = o.hot
      /\ r.badRun = o.badRun /\ r.openRun = o.openRun /\ r.onlyTune = only
  BY <1>1 DEF History
<1>4. NewOver \in History
  BY DEF NewOver, History, Readings
<1>5. CASE Want(in)
  <2>1. RecordIntent(o, in) = r
    BY <1>5 DEF RecordIntent, only
  <2>2. QED
    BY <1>2, <1>3, <1>5, <2>1
<1>6. CASE ~Want(in)
  BY <1>4, <1>6 DEF RecordIntent
<1>7. QED
  BY <1>5, <1>6

\* What a reading adds to it, field by field.
LEMMA ReadingRecorded ==
  ASSUME NEW o \in History, NEW in \in GateInput, NEW fwd \in Fwd, NEW rev \in Rev
  PROVE  LET r == RecordReading(o, in, fwd, rev)
         IN  /\ r \in History
             /\ r.worst = Worse(o.worst, Rate(fwd, rev))
             /\ ~BandOk(in) => /\ r.onlyTune = o.onlyTune /\ r.hot = o.hot
                               /\ r.badRun = o.badRun /\ r.openRun = o.openRun
             /\ BandOk(in) =>
                  /\ r.onlyTune => o.onlyTune /\ ~OpenAntenna(fwd, rev)
                  /\ r.hot <=> o.hot \/ in.hot
                  /\ r.badRun = IF FarOver(fwd, rev) /\ in.mox /\ ~in.tune
                                  THEN UpTo2(o.badRun) ELSE 0
                  /\ r.openRun = IF OpenAntenna(fwd, rev) THEN UpTo2(o.openRun) ELSE 0
<1> DEFINE r     == RecordReading(o, in, fwd, rev)
           rated == [o EXCEPT !.worst = Worse(@, Rate(fwd, rev))]
           only  == rated.onlyTune /\ ~OpenAntenna(fwd, rev)
           hot   == rated.hot \/ in.hot
           bad   == IF FarOver(fwd, rev) /\ in.mox /\ ~in.tune
                      THEN UpTo2(rated.badRun) ELSE 0
           open  == IF OpenAntenna(fwd, rev) THEN UpTo2(rated.openRun) ELSE 0
           read  == [rated EXCEPT !.onlyTune = only, !.hot = hot,
                                  !.badRun = bad, !.openRun = open]
<1>1. Worse(o.worst, Rate(fwd, rev)) \in Readings
  BY DEF Worse, Readings
<1>2. /\ rated \in History /\ rated.worst = Worse(o.worst, Rate(fwd, rev))
      /\ rated.onlyTune = o.onlyTune /\ rated.hot = o.hot
      /\ rated.badRun = o.badRun /\ rated.openRun = o.openRun
  BY <1>1 DEF History
<1>3. r = IF ~BandOk(in) THEN rated ELSE read
  BY DEF RecordReading
<1> HIDE DEF rated, r
<1>4. bad \in 0..2 /\ open \in 0..2
  BY <1>2 DEF UpTo2, History
<1>5. only \in BOOLEAN /\ hot \in BOOLEAN
  OBVIOUS
<1>6. (only => o.onlyTune /\ ~OpenAntenna(fwd, rev)) /\ (hot <=> o.hot \/ in.hot)
  BY <1>2
<1>7. /\ bad = IF FarOver(fwd, rev) /\ in.mox /\ ~in.tune THEN UpTo2(o.badRun) ELSE 0
      /\ open = IF OpenAntenna(fwd, rev) THEN UpTo2(o.openRun) ELSE 0
  BY <1>2
<1> HIDE DEF only, hot, bad, open
<1>8. /\ read \in History /\ read.worst = rated.worst
      /\ read.onlyTune = only /\ read.hot = hot
      /\ read.badRun = bad /\ read.openRun = open
  BY <1>2, <1>4, <1>5 DEF History
<1> HIDE DEF read
<1>9. CASE BandOk(in)
  <2>1. r = read
    BY <1>3, <1>9
  <2>2. QED
    BY <1>2, <1>6, <1>7, <1>8, <1>9, <2>1 DEF r
<1>10. CASE ~BandOk(in)
  <2>1. r = rated
    BY <1>3, <1>10
  <2>2. QED
    BY <1>2, <1>10, <2>1 DEF r
<1>11. QED
  BY <1>9, <1>10

-----------------------------------------------------------------------------
(* Types.                                                                  *)

\* What an evaluation starts from.
LEMMA StartTypes ==
  ASSUME TypeOK
  PROVE  /\ GateAt \in GateState /\ OverAt \in History
         /\ SwrAt \in MeterReset..SwrCap
         /\ want \in BOOLEAN /\ <<mox, tune>> \in BOOLEAN \X BOOLEAN
<1>1. GateOff \in GateState /\ NewOver \in History /\ MeterReset \in MeterReset..SwrCap
  BY DEF GateOff, GateState, NewOver, History, Readings, MeterReset, SwrCap, GammaCap
<1>2. QED
  BY <1>1 DEF TypeOK, GateAt, OverAt, SwrAt, want

\* The inputs a run of the gate is evaluated on.
EdgeInput ==
  [mox |-> mox, tune |-> tune, inBand |-> inBand, high |-> FALSE,
   open |-> FALSE, hot |-> FALSE, stale |-> TRUE]

SlotInput(fwd, rev, hot) ==
  [mox |-> mox, tune |-> tune, inBand |-> inBand,
   high |-> HighSwr(swr', fwd), open |-> OpenAntenna(fwd, rev),
   hot |-> hot, stale |-> FALSE]

LEMMA InputTypes ==
  ASSUME TypeOK, NEW fwd \in Fwd, NEW rev \in Rev, NEW hot \in BOOLEAN
  PROVE  EdgeInput \in GateInput /\ SlotInput(fwd, rev, hot) \in GateInput
<1>1. HighSwr(swr', fwd) \in BOOLEAN /\ OpenAntenna(fwd, rev) \in BOOLEAN
  BY DEF HighSwr, OpenAntenna
<1>2. QED
  BY <1>1 DEF TypeOK, EdgeInput, SlotInput, GateInput

\* The meter after a slot.
LEMMA SlotSwr ==
  ASSUME TypeOK, NEW fwd \in Fwd, NEW rev \in Rev
  PROVE  /\ Raw[fwd][rev] \in Nat /\ Raw[fwd][rev] >= MeterReset /\ SwrAt \in Nat
         /\ Smooth(SwrAt, Raw[fwd][rev]) \in MeterReset..SwrCap
<1>1. MeterReset \in Nat /\ SwrCap \in Nat
  BY DEF MeterReset, SwrCap, GammaCap
<1>2. /\ SwrAt \in Nat /\ MeterReset <= SwrAt /\ SwrAt <= SwrCap
      /\ Raw[fwd][rev] \in Nat /\ MeterReset <= Raw[fwd][rev] /\ Raw[fwd][rev] <= SwrCap
  BY <1>1, StartTypes, RawType
<1>3. QED
  BY <1>1, <1>2, SmoothBounds

\* TypeOK holds in every reachable state of the protection loop
\* (tx_run.c gate_slot, tx_gate.c, tx_meter.c).
THEOREM TypeCorrect == Spec => []TypeOK
<1>1. Init => TypeOK
  <2> SUFFICES ASSUME Init PROVE TypeOK
    OBVIOUS
  <2>1. gate \in GateState /\ out \in GateResults /\ h \in History
    BY DEF Init, GateOff, GateState, GateResults, NewOver, History, Readings
  <2>2. swr \in MeterReset..SwrCap
    BY DEF Init, MeterReset, SwrCap, GammaCap
  <2>3. seen \in BOOLEAN \X BOOLEAN
    BY DEF Init
  <2>4. QED
    BY <2>1, <2>2, <2>3 DEF Init, TypeOK
<1>2. TypeOK /\ [Next]_vars => TypeOK'
  <2> SUFFICES ASSUME TypeOK, [Next]_vars PROVE TypeOK'
    OBVIOUS
  <2>1. ASSUME NEW m \in BOOLEAN, NEW t \in BOOLEAN, Request(m, t) PROVE TypeOK'
    <3> DEFINE released == h.released \/ (gate.tripped /\ ~(m \/ t))
    <3>1. released \in BOOLEAN
      OBVIOUS
    <3>2. h' = [h EXCEPT !.released = released]
      BY <2>1 DEF Request
    <3> HIDE DEF released
    <3>3. h' \in History
      BY <3>1, <3>2 DEF TypeOK, History
    <3>4. QED
      BY <2>1, <3>3 DEF TypeOK, Request, loopVars
  <2>2. CASE Qsy
    BY <2>2 DEF TypeOK, Qsy, loopVars
  <2>3. CASE EdgeRun
    <3>1. EdgeInput \in GateInput
      BY DEF TypeOK, EdgeInput, GateInput
    <3>2. /\ gate' = GateNext(GateAt, EdgeInput) /\ out' = GateResult(gate', EdgeInput)
          /\ h' = RecordIntent(OverAt, EdgeInput)
      BY <2>3 DEF EdgeRun, Evaluate, EdgeInput
    <3>3. gate' \in GateState /\ out' \in GateResults /\ h' \in History
      BY <3>1, <3>2, GateTypes, IntentRecorded, StartTypes
    <3>4. QED
      BY <2>3, <3>3, StartTypes DEF TypeOK, EdgeRun, Evaluate, operVars
  <2>4. ASSUME NEW fwd \in Fwd, NEW rev \in Rev, NEW hot \in {FALSE, Thermal},
               Slot(fwd, rev, hot)
        PROVE  TypeOK'
    <3> DEFINE in == SlotInput(fwd, rev, hot)
               o  == RecordIntent(OverAt, in)
    <3>1. in \in GateInput
      BY InputTypes, ProtectAssumption
    <3>2. /\ gate' = GateNext(GateAt, in) /\ out' = GateResult(gate', in)
          /\ h' = IF want THEN RecordReading(o, in, fwd, rev) ELSE o
      BY <2>4 DEF Slot, Evaluate, SlotInput
    <3> HIDE DEF in
    <3>3. gate' \in GateState /\ out' \in GateResults
      BY <3>1, <3>2, GateTypes, StartTypes
    <3>4. o \in History
      BY <3>1, IntentRecorded, StartTypes
    <3> HIDE DEF o
    <3>5. RecordReading(o, in, fwd, rev) \in History
      BY <3>1, <3>4, ReadingRecorded
    <3>6. h' \in History
      BY <3>2, <3>4, <3>5
    <3>7. swr' \in MeterReset..SwrCap
      BY <2>4, SlotSwr DEF Slot
    <3>8. QED
      BY <2>4, <3>3, <3>6, <3>7, StartTypes DEF TypeOK, Slot, Evaluate, operVars
  <2>5. CASE UNCHANGED vars
    BY <2>5 DEF TypeOK, vars, operVars, loopVars
  <2>6. QED
    BY <2>1, <2>2, <2>3, <2>4, <2>5 DEF Next
<1>3. QED
  BY <1>1, <1>2, PTL DEF Spec

-----------------------------------------------------------------------------
(* The inductive invariant.                                                *)

\* A run of consecutive readings and the two-reading filter: the first arms it
\* unless the gate tripped already, the second trips it.
RunSeen(g, run) == run >= 1 => (g.preHigh \/ g.tripped) /\ (run = 2 => g.tripped)

\* Gate, history and meter of an over that is being keyed belong together.
OverInv(g, o, s) ==
  /\ o.worst = "clean" => /\ ~g.preHigh /\ (~o.hot => ~g.tripped)
                          /\ s < SwrAlarm \/ s = MeterReset
  /\ o.onlyTune => ~g.preHigh /\ (~o.hot => ~g.tripped)
  /\ o.hot => g.tripped
  /\ SwrProtect => RunSeen(g, o.badRun) /\ RunSeen(g, o.openRun)

\* Between overs the latch is clear and the meter counts as reset; an over that
\* was evaluated keeps OverInv; a trip that no release was seen for still finds
\* the key held.
ProtectInv ==
  /\ TrippedIsUnkeyed
  /\ ~prevWant => gate = GateOff /\ OverInv(gate, h, MeterReset)
  /\ prevWant => OverInv(gate, h, swr)
  /\ gate.tripped /\ ~h.released => want /\ prevWant

\* A new over satisfies OverInv.
LEMMA NewOverInv == OverInv(GateOff, NewOver, MeterReset)
BY DEF OverInv, GateOff, NewOver, RunSeen

\* Whether it goes on or is new, the over a wanted evaluation starts from
\* satisfies OverInv.
LEMMA StartInv ==
  ASSUME TypeOK, ProtectInv, want
  PROVE  OverInv(GateAt, OverAt, SwrAt)
<1>1. CASE prevWant
  BY <1>1 DEF ProtectInv, GateAt, OverAt, SwrAt, RisingWant
<1>2. CASE ~prevWant
  BY <1>2, NewOverInv DEF GateAt, OverAt, SwrAt, RisingWant
<1>3. QED
  BY <1>1, <1>2

\* An evaluation without a reading moves nothing but the intent of the over.
LEMMA EdgeOver ==
  ASSUME NEW g \in GateState, NEW o \in History, NEW s, NEW in \in GateInput,
         in.stale, Want(in), OverInv(g, o, s)
  PROVE  GateNext(g, in) = g /\ OverInv(GateNext(g, in), RecordIntent(o, in), s)
<1>1. GateNext(g, in) = g
  BY DEF GateNext, FilterStep, ThermalStep
<1>2. QED
  BY <1>1, IntentRecorded DEF OverInv

\* What the gate does with a reading, part by part.
LEMMA ReadingGate ==
  ASSUME NEW g \in GateState, NEW in \in GateInput, ~in.stale, Want(in), BandOk(in)
  PROVE  /\ SwrProtect =>
              /\ GateNext(g, in).preHigh <=> TripNow(in)
              /\ GateNext(g, in).tripped
                   <=> g.tripped \/ (g.preHigh /\ TripNow(in)) \/ in.hot
         /\ ~SwrProtect =>
              /\ GateNext(g, in).preHigh <=> g.preHigh
              /\ GateNext(g, in).tripped <=> g.tripped \/ in.hot
<1> DEFINE f   == FilterStep(g, in)
           now == TripNow(in)
           trip == g.tripped \/ (g.preHigh /\ now)
<1>1. now \in BOOLEAN /\ trip \in BOOLEAN
  BY DEF TripNow
<1>2. GateNext(g, in) = IF in.hot THEN [f EXCEPT !.tripped = TRUE] ELSE f
  BY DEF GateNext, ThermalStep
<1>3. f = IF SwrProtect THEN [tripped |-> trip, preHigh |-> now] ELSE g
  BY DEF FilterStep
<1>4. trip <=> g.tripped \/ (g.preHigh /\ now)
  OBVIOUS
<1> HIDE DEF now, trip, f
<1>5. f \in GateState /\ (SwrProtect => (f.preHigh <=> now) /\ (f.tripped <=> trip))
  BY <1>1, <1>3 DEF GateState
<1>6. /\ GateNext(g, in).preHigh <=> f.preHigh
      /\ GateNext(g, in).tripped <=> f.tripped \/ in.hot
  BY <1>2, <1>5 DEF GateState
<1>7. QED
  BY <1>3, <1>4, <1>5, <1>6 DEF now

\* A clean reading keeps the average below the alarm.
LEMMA CleanSwr ==
  ASSUME TypeOK, NEW fwd \in Fwd, NEW rev \in Rev, Rate(fwd, rev) = "clean",
         SwrAt < SwrAlarm \/ SwrAt = MeterReset
  PROVE  /\ Smooth(SwrAt, Raw[fwd][rev]) < SwrAlarm
         /\ ~OpenAntenna(fwd, rev)
<1>1. Raw[fwd][rev] \in Nat /\ Raw[fwd][rev] >= MeterReset /\ SwrAt \in Nat
  BY SlotSwr
<1>2. ~OpenAntenna(fwd, rev) /\ ~(Raw[fwd][rev] >= SwrAlarm)
  BY DEF Rate, BadReading
<1>3. SwrAlarm \in Nat /\ MeterReset \in Nat
  BY MeterAssumption DEF MeterReset
<1>4. Raw[fwd][rev] <= SwrAlarm - 1 /\ SwrAt <= SwrAlarm - 1 /\ SwrAlarm - 1 \in Nat
  BY <1>1, <1>2, <1>3
<1>5. Smooth(SwrAt, Raw[fwd][rev]) \in 0..SwrAlarm - 1
  BY <1>1, <1>4, SmoothBounds
<1>6. QED
  BY <1>2, <1>3, <1>5

\* A slot's reading keeps gate, history and meter together.
LEMMA SlotOver ==
  ASSUME TypeOK, NEW fwd \in Fwd, NEW rev \in Rev, NEW hot \in {FALSE, Thermal},
         swr' = Smooth(SwrAt, Raw[fwd][rev]), want, OverInv(GateAt, OverAt, SwrAt)
  PROVE  LET in == SlotInput(fwd, rev, hot)
         IN  OverInv(GateNext(GateAt, in),
                     RecordReading(RecordIntent(OverAt, in), in, fwd, rev), swr')
<1> DEFINE in == SlotInput(fwd, rev, hot)
           g  == GateAt
           o  == RecordIntent(OverAt, in)
           g2 == GateNext(g, in)
           o2 == RecordReading(o, in, fwd, rev)
<1> SUFFICES OverInv(g2, o2, swr')
  OBVIOUS
<1>1. in \in GateInput /\ g \in GateState /\ OverAt \in History
  BY InputTypes, StartTypes, ProtectAssumption
<1>2. /\ ~in.stale /\ Want(in) /\ in.high = HighSwr(swr', fwd)
      /\ in.open = OpenAntenna(fwd, rev) /\ in.mox = mox /\ in.tune = tune
  BY DEF SlotInput, Want, want
<1>3. TripNow(in) <=> OpenAntenna(fwd, rev) \/ (HighSwr(swr', fwd) /\ ~in.tune)
  BY <1>2 DEF TripNow
<1> HIDE DEF in, g
<1>4. /\ o \in History /\ o.worst = OverAt.worst /\ o.hot = OverAt.hot
      /\ o.badRun = OverAt.badRun /\ o.openRun = OverAt.openRun
      /\ o.onlyTune => OverAt.onlyTune /\ ~in.mox
  BY <1>1, <1>2, IntentRecorded
<1> HIDE DEF o
<1>5. OverInv(g, o, SwrAt)
  BY <1>4 DEF OverInv, g
<1>6. /\ o2 \in History /\ o2.worst = Worse(o.worst, Rate(fwd, rev))
      /\ ~BandOk(in) => /\ o2.onlyTune = o.onlyTune /\ o2.hot = o.hot
                        /\ o2.badRun = o.badRun /\ o2.openRun = o.openRun
      /\ BandOk(in) =>
           /\ o2.onlyTune => o.onlyTune /\ ~OpenAntenna(fwd, rev)
           /\ o2.hot <=> o.hot \/ in.hot
           /\ o2.badRun = IF FarOver(fwd, rev) /\ in.mox /\ ~in.tune
                            THEN UpTo2(o.badRun) ELSE 0
           /\ o2.openRun = IF OpenAntenna(fwd, rev) THEN UpTo2(o.openRun) ELSE 0
  BY <1>1, <1>4, ReadingRecorded
<1>7. o2.worst = "clean" => o.worst = "clean" /\ Rate(fwd, rev) = "clean"
  BY <1>4, <1>6 DEF Worse, Rate, History, Readings
<1>8. o2.worst = "clean" => swr' < SwrAlarm /\ ~OpenAntenna(fwd, rev)
  BY <1>5, <1>7, CleanSwr DEF OverInv
<1>9. ~BandOk(in) => g2 = g
  BY <1>2 DEF GateNext
<1>10. BandOk(in) =>
        /\ SwrProtect =>
             /\ g2.preHigh <=> TripNow(in)
             /\ g2.tripped <=> g.tripped \/ (g.preHigh /\ TripNow(in)) \/ in.hot
        /\ ~SwrProtect =>
             /\ g2.preHigh <=> g.preHigh
             /\ g2.tripped <=> g.tripped \/ in.hot
  BY <1>1, <1>2, ReadingGate
<1> HIDE DEF g2, o2
<1>11. CASE ~BandOk(in)
  BY <1>5, <1>6, <1>7, <1>8, <1>9, <1>11 DEF OverInv
<1>12. CASE BandOk(in)
  <2>1. o2.worst = "clean" => ~TripNow(in)
    BY <1>3, <1>8, SlotSwr, MeterAssumption DEF HighSwr, MeterReset, SwrCap, GammaCap
  <2>2. o2.onlyTune => ~TripNow(in)
    BY <1>2, <1>3, <1>4, <1>6, <1>12 DEF Want
  <2>3. o2.worst = "clean" => ~g2.preHigh /\ (~o2.hot => ~g2.tripped)
    BY <1>5, <1>6, <1>7, <1>10, <1>12, <2>1, GateAssumption DEF OverInv
  <2>4. o2.onlyTune => ~g2.preHigh /\ (~o2.hot => ~g2.tripped)
    BY <1>5, <1>6, <1>10, <1>12, <2>2, GateAssumption DEF OverInv
  <2>5. o2.hot => g2.tripped
    BY <1>5, <1>6, <1>10, <1>12, GateAssumption DEF OverInv
  <2>6. FarOver(fwd, rev) /\ ~in.tune => TripNow(in)
    <3>1. FarOver(fwd, rev) => swr' >= SwrAlarm /\ AboveFloor(fwd)
      BY SlotSwr, SmoothFarOver, MeterAssumption DEF FarOver
    <3>2. QED
      BY <1>3, <3>1 DEF HighSwr
  <2>7. SwrProtect => RunSeen(g2, o2.badRun)
    BY <1>4, <1>5, <1>6, <1>10, <1>12, <2>6 DEF OverInv, RunSeen, UpTo2, History
  <2>8. SwrProtect => RunSeen(g2, o2.openRun)
    BY <1>3, <1>4, <1>5, <1>6, <1>10, <1>12 DEF OverInv, RunSeen, UpTo2, History
  <2>9. QED
    BY <1>8, <2>3, <2>4, <2>5, <2>7, <2>8 DEF OverInv
<1>13. QED
  BY <1>11, <1>12

-----------------------------------------------------------------------------
(* The invariant is inductive.                                             *)

\* No run of the gate keys a tripped exciter, and a release clears the latch.
LEMMA RunOutcome ==
  ASSUME NEW g \in GateState, NEW in \in GateInput
  PROVE  /\ g.tripped => ~GateResult(g, in).keyed
         /\ ~Want(in) => GateNext(g, in) = GateOff
BY DEF GateResult, GateNext

\* Every step keeps the invariant.
LEMMA StepKeepsProtectInv ==
  ASSUME TypeOK, ProtectInv, [Next]_vars
  PROVE  ProtectInv'
<1>1. ASSUME NEW m \in BOOLEAN, NEW t \in BOOLEAN, Request(m, t) PROVE ProtectInv'
  <2> DEFINE released == h.released \/ (gate.tripped /\ ~(m \/ t))
  <2>1. h' = [h EXCEPT !.released = released] /\ released \in BOOLEAN
    BY <1>1 DEF Request
  <2>2. released <=> h.released \/ (gate.tripped /\ ~(m \/ t))
    OBVIOUS
  <2> HIDE DEF released
  <2>3. /\ h'.worst = h.worst /\ h'.onlyTune = h.onlyTune /\ h'.hot = h.hot
        /\ h'.badRun = h.badRun /\ h'.openRun = h.openRun /\ h'.released = released
    BY <2>1 DEF TypeOK, History
  <2>4. UNCHANGED <<gate, swr, out, prevWant>> /\ mox' = m /\ tune' = t
    BY <1>1 DEF Request, loopVars
  <2>5. TrippedIsUnkeyed'
    BY <2>4 DEF ProtectInv, TrippedIsUnkeyed
  <2>6. ~prevWant' => gate' = GateOff /\ OverInv(gate', h', MeterReset)
    BY <2>3, <2>4 DEF ProtectInv, OverInv
  <2>7. prevWant' => OverInv(gate, h, swr)'
    BY <2>3, <2>4 DEF ProtectInv, OverInv
  <2>8. gate'.tripped /\ ~h'.released => want' /\ prevWant'
    BY <2>2, <2>3, <2>4 DEF ProtectInv, want
  <2>9. QED
    BY <2>5, <2>6, <2>7, <2>8 DEF ProtectInv
<1>2. CASE Qsy
  BY <1>2 DEF Qsy, loopVars, ProtectInv, TrippedIsUnkeyed, want
<1>3. CASE EdgeRun
  <2> DEFINE in == EdgeInput
  <2>1. /\ gate' = GateNext(GateAt, in) /\ out' = GateResult(gate', in)
        /\ h' = RecordIntent(OverAt, in) /\ swr' = SwrAt
        /\ prevWant' = want /\ UNCHANGED operVars
    BY <1>3 DEF EdgeRun, Evaluate, EdgeInput
  <2>2. /\ in \in GateInput /\ GateAt \in GateState /\ OverAt \in History
        /\ in.stale /\ (Want(in) <=> want)
    BY StartTypes DEF TypeOK, EdgeInput, GateInput, Want, want
  <2> HIDE DEF in
  <2>3. gate' \in GateState
    BY <2>1, <2>2, GateTypes
  <2>4. TrippedIsUnkeyed'
    BY <2>1, <2>2, <2>3, RunOutcome DEF TrippedIsUnkeyed
  <2>5. CASE want
    <3>1. OverInv(gate', h', swr')
      BY <2>1, <2>2, <2>5, StartInv, EdgeOver
    <3>2. QED
      BY <2>1, <2>4, <2>5, <3>1 DEF ProtectInv, operVars, want
  <2>6. CASE ~want
    <3>1. gate' = GateOff /\ h' = NewOver
      BY <2>1, <2>2, <2>6, RunOutcome, IntentRecorded
    <3>2. QED
      BY <2>1, <2>4, <2>6, <3>1, NewOverInv DEF ProtectInv, GateOff, MeterReset
  <2>7. QED
    BY <2>5, <2>6
<1>4. ASSUME NEW fwd \in Fwd, NEW rev \in Rev, NEW hot \in {FALSE, Thermal},
             Slot(fwd, rev, hot)
      PROVE  ProtectInv'
  <2> DEFINE in == SlotInput(fwd, rev, hot)
             o  == RecordIntent(OverAt, in)
  <2>1. /\ gate' = GateNext(GateAt, in) /\ out' = GateResult(gate', in)
        /\ h' = IF want THEN RecordReading(o, in, fwd, rev) ELSE o
        /\ swr' = Smooth(SwrAt, Raw[fwd][rev])
        /\ prevWant' = want /\ UNCHANGED operVars
    BY <1>4 DEF Slot, Evaluate, SlotInput
  <2>2. /\ in \in GateInput /\ GateAt \in GateState /\ OverAt \in History
        /\ (Want(in) <=> want)
    BY StartTypes, InputTypes, ProtectAssumption DEF SlotInput, Want, want
  <2>3. gate' \in GateState
    BY <2>1, <2>2, GateTypes
  <2>4. TrippedIsUnkeyed'
    BY <2>1, <2>2, <2>3, RunOutcome DEF TrippedIsUnkeyed
  <2>5. CASE want
    <3>1. OverInv(GateNext(GateAt, in), RecordReading(o, in, fwd, rev), swr')
      BY <2>1, <2>5, StartInv, SlotOver
    <3>2. OverInv(gate', h', swr')
      BY <2>1, <2>5, <3>1
    <3>3. QED
      BY <2>1, <2>4, <2>5, <3>2 DEF ProtectInv, operVars, want
  <2>6. CASE ~want
    <3>1. gate' = GateOff /\ h' = NewOver
      BY <2>1, <2>2, <2>6, RunOutcome, IntentRecorded
    <3>2. QED
      BY <2>1, <2>4, <2>6, <3>1, NewOverInv DEF ProtectInv, GateOff, MeterReset
  <2>7. QED
    BY <2>5, <2>6
<1>5. CASE UNCHANGED vars
  BY <1>5 DEF vars, operVars, loopVars, ProtectInv, TrippedIsUnkeyed, want
<1>6. QED
  BY <1>1, <1>2, <1>3, <1>4, <1>5 DEF Next

\* The invariant that carries every theorem below.
THEOREM Protected == Spec => []ProtectInv
<1>1. Init => ProtectInv
  BY NewOverInv DEF Init, ProtectInv, TrippedIsUnkeyed, GateOff, MeterReset
<1>2. TypeOK /\ ProtectInv /\ [Next]_vars => ProtectInv'
  BY StepKeepsProtectInv
<1>3. QED
  BY <1>1, <1>2, TypeCorrect, PTL DEF Spec

-----------------------------------------------------------------------------
(* What follows.                                                           *)

\* A latched trip is never keyed (tx_gate.c, the last lines of
\* tx_gate_evaluate).
THEOREM Unkeyed == Spec => []TrippedIsUnkeyed
<1>1. ProtectInv => TrippedIsUnkeyed
  BY DEF ProtectInv
<1>2. QED
  BY <1>1, Protected, PTL

\* A latched trip holds until every intent was low (tx_gate.c, "latched until
\* release"; tx_run.c resets the gate on a rising want only).
THEOREM Latched == Spec => LatchHeldUntilRelease
<1>1. TypeOK /\ ProtectInv /\ [Next]_vars
        => [gate.tripped /\ ~gate'.tripped => h.released]_vars
  <2> SUFFICES ASSUME TypeOK, ProtectInv, Next, gate.tripped, ~gate'.tripped,
                      ~h.released
               PROVE  FALSE
    BY DEF vars, loopVars, operVars
  <2>1. want /\ prevWant
    BY DEF ProtectInv
  <2>2. GateAt = gate
    BY <2>1 DEF GateAt, RisingWant
  <2>3. ASSUME NEW in \in GateInput, in.mox = mox, in.tune = tune
        PROVE  GateNext(gate, in).tripped
    BY <2>1, <2>3 DEF GateNext, ThermalStep, FilterStep, Want, want, TypeOK, GateState
  <2>4. CASE EdgeRun
    <3>1. gate' = GateNext(gate, EdgeInput)
      BY <2>2, <2>4 DEF EdgeRun, Evaluate, EdgeInput
    <3>2. EdgeInput \in GateInput /\ EdgeInput.mox = mox /\ EdgeInput.tune = tune
      BY DEF TypeOK, EdgeInput, GateInput
    <3>3. QED
      BY <2>3, <3>1, <3>2
  <2>5. ASSUME NEW fwd \in Fwd, NEW rev \in Rev, NEW hot \in {FALSE, Thermal},
               Slot(fwd, rev, hot)
        PROVE  FALSE
    <3> DEFINE in == SlotInput(fwd, rev, hot)
    <3>1. gate' = GateNext(gate, in)
      BY <2>2, <2>5 DEF Slot, Evaluate, SlotInput
    <3>2. in \in GateInput
      BY InputTypes, ProtectAssumption
    <3>3. in.mox = mox /\ in.tune = tune
      BY DEF SlotInput
    <3> HIDE DEF in
    <3>4. QED
      BY <2>3, <3>1, <3>2, <3>3
  <2>6. QED
    BY <2>4, <2>5 DEF Next, Request, Qsy, loopVars
<1>2. QED
  BY <1>1, Protected, TypeCorrect, PTL DEF Spec, LatchHeldUntilRelease

\* An over whose every reading was good never trips (tx_run.c: the reset of the
\* gate and the meter on a rising want).
THEOREM CleanOver == Spec => []CleanOverNeverTrips
<1>1. ProtectInv => CleanOverNeverTrips
  BY DEF ProtectInv, OverInv, CleanOverNeverTrips, GateOff
<1>2. QED
  BY <1>1, Protected, PTL

\* An over that only tunes and never sees an open antenna never trips
\* (tx_gate.c, the TUNE exemption).
THEOREM TuneTolerant == Spec => []TuneToleratesMismatch
<1>1. ProtectInv => TuneToleratesMismatch
  BY DEF ProtectInv, OverInv, TuneToleratesMismatch, GateOff
<1>2. QED
  BY <1>1, Protected, PTL

\* Two consecutive bad MOX readings, or two of an open antenna, and one too hot,
\* leave the exciter unkeyed (tx_gate.c, the two-reading filter and the thermal
\* trip), however edge runs and QSYs interleave.
THEOREM BadReadingsUnkey == Spec => []DangerUnkeys
<1>1. TypeOK /\ ProtectInv => DangerUnkeys
  <2> SUFFICES ASSUME TypeOK, ProtectInv
               PROVE  DangerUnkeys
    OBVIOUS
  <2>1. PICK s : OverInv(gate, h, s)
    BY DEF ProtectInv, TypeOK
  <2>2. TrippedIsUnkeyed
    BY DEF ProtectInv
  <2>3. QED
    BY <2>1, <2>2 DEF OverInv, RunSeen, TrippedIsUnkeyed, DangerUnkeys,
       SustainedMismatchUnkeys, OpenAntennaUnkeys, HotOverStaysUnkeyed, TypeOK, History
<1>2. QED
  BY <1>1, Protected, TypeCorrect, PTL

=============================================================================
