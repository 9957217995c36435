--------------------------------- MODULE Vfo ---------------------------------
(***************************************************************************)
(* Tuning, gui.c: the dial and its other VFO, the DDC centre with and      *)
(* without CTUN, the mode with its filter, and what each band remembers.   *)
(* A frequency can change from the wheel, a drag, a click, a band button   *)
(* or a TCI client; all of them go through engine_set_frequency.  The band *)
(* itself follows one frame later: band_apply runs from the frame tick,    *)
(* and brings back the mode and the drive the new band had.                *)
(*                                                                         *)
(* Frequencies are small numbers, a filter is its half width.              *)
(***************************************************************************)
EXTENDS Integers

CONSTANTS
  Dial,          \* frequencies the operator tunes to
  Bands,         \* the band table, as a function of the band to its frequencies
  Half, Margin,  \* half the DDC span as the preferences have it, and a fiftieth
  Modes, Wide,   \* modes, and the widths of their filters
  Watts,         \* drive settings
  VfoDisturb     \* bound: inputs

VfoAssumption ==
  /\ Dial \subseteq Nat \ {0} /\ DOMAIN Bands \subseteq Nat \ {0}
  /\ \A b \in DOMAIN Bands : Bands[b] \subseteq Dial /\ Bands[b] # {}
  /\ Half \in Nat /\ Margin \in Nat /\ {} \notin {Dial, Modes, Wide, Watts}
  /\ Wide \cup Watts \subseteq Nat /\ VfoDisturb \in Nat

VARIABLES
  app,           \* the fields of App named below
  engine,        \* what was pushed to the DDC, the demodulator and the transmitter
  onAir,         \* tx_run_keyed()
  inputs         \* how many inputs came

vars == <<app, engine, onAir, inputs>>

OutOfBand == 0

\* band_for_freq.
BandOf(f) == IF \E b \in DOMAIN Bands : f \in Bands[b]
             THEN CHOOSE b \in DOMAIN Bands : f \in Bands[b] ELSE OutOfBand

AppType ==
  [freq : Nat, ofreq : Nat, centre : Int, ctun : BOOLEAN,
   mode : Modes, omode : Modes, width : Wide, filter : [Modes -> Wide],
   band : DOMAIN Bands \cup {OutOfBand}, drive : Watts,
   bandFreq : [DOMAIN Bands -> Nat], bandMode : [DOMAIN Bands -> Modes],
   bandDrive : [DOMAIN Bands -> Watts]]

TypeOK ==
  /\ app \in AppType
  /\ engine \in [ddc : Int, offset : Int, width : Wide, tx : Nat]
  /\ onAir \in BOOLEAN /\ inputs \in 0..VfoDisturb

Init ==
  \E f \in Dial, w \in Wide, m \in Modes, d \in Watts :
    /\ BandOf(f) # OutOfBand
    /\ app = [freq |-> f, ofreq |-> f, centre |-> f, ctun |-> FALSE,
              mode |-> m, omode |-> m, width |-> w, filter |-> [n \in Modes |-> w],
              band |-> BandOf(f), drive |-> d,
              bandFreq |-> [b \in DOMAIN Bands |-> CHOOSE g \in Bands[b] : TRUE],
              bandMode |-> [b \in DOMAIN Bands |-> m], bandDrive |-> [b \in DOMAIN Bands |-> d]]
    /\ engine = [ddc |-> f, offset |-> 0, width |-> w, tx |-> f]
    /\ onAir = FALSE /\ inputs = 0

-----------------------------------------------------------------------------
(* The steps the handlers are put together from, each from one App to the  *)
(* next.                                                                   *)

Abs(n) == IF n < 0 THEN -n ELSE n

\* engine_set_frequency's centre: it follows the dial, or with CTUN only when the
\* dial leaves the room its passband has in the span (ctun_room).
Retuned(a) ==
  LET low  == a.centre - Half + Margin + a.width
      high == a.centre + Half - Margin - a.width
      far  == Abs(a.freq - a.centre) > Half
  IN  [a EXCEPT !.centre = IF ~a.ctun \/ far  THEN a.freq
                           ELSE IF a.freq < low  THEN @ - (low - a.freq)
                           ELSE IF a.freq > high THEN @ + (a.freq - high)
                           ELSE @]

\* on_mode_toggled: the mode is filed under the band, and brings its own filter.
ModeSet(a, m) ==
  [a EXCEPT !.mode = m, !.width = a.filter[m],
            !.bandMode = [b \in DOMAIN Bands |-> IF b = a.band THEN m ELSE @[b]]]

\* band_apply: the band of the dial, its drive, and its mode through the button.
BandApplied(a) ==
  LET b == BandOf(a.freq)
      in == [a EXCEPT !.band = b, !.drive = a.bandDrive[b]]
  IN  IF b = a.band THEN a
      ELSE IF b = OutOfBand THEN [a EXCEPT !.band = b]
      ELSE IF in.bandMode[b] # a.mode THEN ModeSet(in, in.bandMode[b]) ELSE in

\* tx_drive_store_band.
Kept(a) == [a EXCEPT !.bandDrive = [b \in DOMAIN Bands |-> IF b = a.band THEN a.drive ELSE @[b]]]

\* engine_push_rx, and the passband a mode or a filter change pushes.
Pushed(a) ==
  [engine EXCEPT !.ddc = a.centre, !.offset = IF a.ctun THEN a.freq - a.centre ELSE 0, !.width = a.width]

\* vfo_swap: the other VFO's frequency, its band, and last its own mode.
SwappedIn(a) ==
  LET a1 == Retuned([a EXCEPT !.freq = a.ofreq, !.ofreq = a.freq, !.omode = a.mode])
      a2 == BandApplied(a1)
  IN  IF a.omode # a2.mode THEN ModeSet(a2, a.omode) ELSE a2

\* Mutant: the mode first, then the band.
ModeSwappedFirst(a) ==
  LET a1 == Retuned([a EXCEPT !.freq = a.ofreq, !.ofreq = a.freq, !.omode = a.mode])
  IN  BandApplied(IF a.omode # a1.mode THEN ModeSet(a1, a.omode) ELSE a1)

\* The App after the A/B button.
Swapped(a) == SwappedIn(a)

-----------------------------------------------------------------------------
(* The handlers.                                                           *)

Input == inputs < VfoDisturb /\ inputs' = inputs + 1

\* Wheel, drag, click, spot and TCI vfo.
Tune(f) ==
  /\ Input /\ f # app.freq
  /\ app' = Retuned([app EXCEPT !.freq = f]) /\ engine' = Pushed(app')
  /\ UNCHANGED onAir

\* on_band_clicked.
BandButton(b) == Tune(app.bandFreq[b])

\* The drag with CTUN, TCI dds: engine_set_centre keeps the passband in the span.
SetCentre(c) ==
  /\ Input /\ app.ctun
  /\ LET low  == app.freq + app.width + Margin - Half
         high == app.freq - app.width - Margin + Half
         at   == IF c < low THEN low ELSE IF c > high THEN high ELSE c
     IN  app' = [app EXCEPT !.centre = IF at < 1 THEN 1 ELSE at]
  /\ engine' = Pushed(app') /\ UNCHANGED onAir

\* Mutant: CTUN off leaves the DDC where it was.
CtunKeepsCentre(on) == [app EXCEPT !.ctun = on]

\* ctun_set: off puts the DDC back on the dial.
CtunSet(on) == [app EXCEPT !.ctun = on, !.centre = IF on THEN @ ELSE app.freq]
Ctun(on) ==
  /\ Input /\ on # app.ctun /\ app' = CtunSet(on) /\ engine' = Pushed(app')
  /\ UNCHANGED onAir

\* The A/B button, refused on the air, and A=B.
Swap ==
  /\ Input /\ ~onAir
  /\ app' = Swapped(app) /\ engine' = [Pushed(app') EXCEPT !.tx = app'.freq]
  /\ UNCHANGED onAir
Copy ==
  /\ Input /\ app' = [app EXCEPT !.ofreq = app.freq, !.omode = app.mode]
  /\ UNCHANGED <<engine, onAir>>

\* TCI vfo:0,1: the other VFO is a memory.
OtherSet(f) ==
  /\ Input /\ app' = [app EXCEPT !.ofreq = f] /\ UNCHANGED <<engine, onAir>>

\* Mode button, key, TCI modulation.
ModeButton(m) ==
  /\ Input /\ m # app.mode
  /\ app' = ModeSet(app, m) /\ engine' = [engine EXCEPT !.width = app'.width]
  /\ UNCHANGED onAir

\* filter_select and filter_apply_var_edges remember the filter with the mode.
Filter(w) ==
  /\ Input /\ w # app.width
  /\ app' = [app EXCEPT !.width = w, !.filter[app.mode] = w]
  /\ engine' = [engine EXCEPT !.width = w] /\ UNCHANGED onAir

\* on_drive_changed, TCI drive.
Drive(d) ==
  /\ Input /\ d # app.drive /\ app' = Kept([app EXCEPT !.drive = d])
  /\ UNCHANGED <<engine, onAir>>

\* tick_cb: the band, the band's last frequency, the transmitter's frequency.
FrameTick ==
  /\ LET a == BandApplied(app)
     IN  /\ app' = IF a.band = OutOfBand THEN a ELSE [a EXCEPT !.bandFreq[a.band] = a.freq]
         /\ engine' = [engine EXCEPT !.width = a.width, !.tx = a.freq]
  /\ UNCHANGED <<onAir, inputs>>

\* The gate keys and unkeys.
Air == Input /\ onAir' = ~onAir /\ UNCHANGED <<app, engine>>

\* ps_apply on a Protocol 1 link: the stream restarts on the dial.
Relink == Input /\ engine' = [engine EXCEPT !.ddc = app.freq] /\ UNCHANGED <<app, onAir>>

Next ==
  \/ \E f \in Dial : Tune(f) \/ OtherSet(f) \/ SetCentre(f)
  \/ \E b \in DOMAIN Bands : BandButton(b)
  \/ \E on \in BOOLEAN : Ctun(on)
  \/ \E m \in Modes : ModeButton(m)
  \/ \E w \in Wide : Filter(w)
  \/ \E d \in Watts : Drive(d)
  \/ Swap \/ Copy \/ FrameTick \/ Air \/ Relink

Spec == Init /\ [][Next]_vars

-----------------------------------------------------------------------------
(* Properties.                                                             *)

\* "the DDC sits on app->centre, the demod on app->freq through the RXA shifter"
\* (engine_push_rx): without CTUN what is heard is the dial, whatever was touched.
DialIsHeard == ~app.ctun => engine.ddc + engine.offset = app.freq

\* A/B exchanges the two VFOs whole, frequency and mode, from any band into any
\* other and with a band change still waiting for its frame: pressed twice it
\* brings both back (vfo_swap's ordering trap).
BothVfos(a) == <<a.freq, a.mode, a.ofreq, a.omode>>
SwapIsUndoneByItself == BothVfos(Swapped(Swapped(app))) = BothVfos(app)

-----------------------------------------------------------------------------
(* What makes it so: an inductive invariant.                               *)

\* Without CTUN the DDC sits on the dial and the shifter rests, in the App and in the
\* engine both.
DialInv ==
  /\ app \in AppType
  /\ engine \in [ddc : Int, offset : Int, width : Wide, tx : Nat]
  /\ ~app.ctun => app.centre = app.freq /\ engine.ddc = app.freq /\ engine.offset = 0
=============================================================================
