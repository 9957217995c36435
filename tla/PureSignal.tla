----------------------------- MODULE PureSignal ------------------------------
(***************************************************************************)
(* The PureSignal runtime, ps.c.  Three threads meet in it: the GUI thread *)
(* arms and disarms it and sets the feedback attenuator (ps_set); the      *)
(* transmit thread hands over the key, parks it during TUNE and runs the   *)
(* auto-attenuator once per gate slot; the listener feeds blocks of        *)
(* feedback to WDSP's calibrator.  The calibrator itself is WDSP's: its    *)
(* state machine advances only while blocks are fed to it.                 *)
(*                                                                         *)
(* Levels are in dB: the level of an attempt is how far the coupler signal *)
(* is from the ideal 152.293 after the attenuator, so that f > 181 is more *)
(* than 1 dB, f <= 128 less than -1 dB and clipping more than 4 dB.        *)
(***************************************************************************)
EXTENDS Integers, Sequences

CONSTANTS
  MaxAtt,       \* 31, the range of the attenuator in dB
  Gains,        \* levels of the coupler signal before the attenuator
  Settings,     \* attenuator settings the operator chooses
  PsKeys,       \* what the exciter may be keyed as: "voice", "gen", "tune"
  StuckTicks,   \* 10, slots in reset before the watchdog re-arms
  BlockPairs,   \* 1024, feedback pairs in a block
  PsDisturb     \* bound: how often the operator touches PureSignal

PsAssumption ==
  /\ MaxAtt \in Nat /\ StuckTicks \in Nat \ {0} /\ BlockPairs \in Nat \ {0}
  /\ Settings \subseteq 0..MaxAtt /\ Gains \subseteq Int
  /\ PsKeys \subseteq {"voice", "gen", "tune"} /\ PsDisturb \in Nat

VARIABLES
  enable, att,  \* s_enable, s_att
  auto,         \* s_auto
  wire,         \* the attenuator of cfg_ps, or PsOff
  flow,         \* the radio streams the feedback pair
  key,          \* what the last gate slot keyed: "off" or one of PsKeys
  tuned,        \* s_tune, and prev of ps_tune
  keyed,        \* s_keyed
  over,         \* parity of the over, for the tags of the pairs
  fill,         \* the pairs of s_txacc up to s_fill, as the overs they come from
  slot,         \* where the transmit thread is in the slot
  gui,          \* where ps_set is, and its arguments
  tick,         \* statics of ps_auto_tick, and the values it read at its top
  cal,          \* WDSP's calibrator
  gain,         \* level of the coupler before the attenuator
  touched,      \* how often the operator has touched PureSignal
  h             \* history: a block of two overs reached the calibrator

guiVars  == <<gui, touched>>
keyVars  == <<key, tuned, keyed, over, slot>>
wireVars == <<wire, flow>>
vars     == <<enable, att, auto, wireVars, keyVars, fill, guiVars, tick, cal, gain, h>>

PsOff   == -1
NoLevel == -99
Min2(a, b) == IF a < b THEN a ELSE b
Clamp(x)   == IF x < 0 THEN 0 ELSE Min2(x, MaxAtt)

\* WDSP: state, pending requests, whether the correction is applied, whether an
\* attempt has been made since the tick last looked, and its level.
Cal(state, reset, automode) ==
  [state |-> state, reset |-> reset, automode |-> automode, correcting |-> FALSE,
   fresh |-> FALSE, level |-> NoLevel]

TypeOK ==
  /\ enable \in BOOLEAN /\ att \in 0..MaxAtt /\ auto \in BOOLEAN
  /\ wire \in {PsOff} \cup 0..MaxAtt /\ flow \in BOOLEAN
  /\ key \in {"off"} \cup PsKeys /\ tuned \in BOOLEAN /\ keyed \in BOOLEAN
  /\ over \in 0..1 /\ fill \in UNION {[1..n -> 0..1] : n \in 0..BlockPairs - 1}
  /\ slot \in {"idle", "retune", "key", "decide", "att"}
  /\ gui.at \in {"idle", "wireOn", "arm", "reset", "wireOff"}
  /\ tick.state \in 0..2 /\ tick.stuck \in 0..StuckTicks /\ tick.latched \in BOOLEAN
  /\ cal.state \in {"reset", "wait", "collect"} /\ gain \in Gains

GuiIdle == [at |-> "idle", att |-> 0, wasOn |-> FALSE]

Init ==
  /\ enable = FALSE /\ att = 0 /\ auto = TRUE /\ wire = PsOff /\ flow = FALSE
  /\ key = "off" /\ tuned = FALSE /\ keyed = FALSE /\ over = 0 /\ fill = <<>>
  /\ slot = "idle"
  /\ gui = GuiIdle /\ touched = 0
  /\ tick = [state |-> 0, stuck |-> 0, latched |-> FALSE, att |-> 0]
  /\ cal = Cal("reset", FALSE, FALSE) /\ gain \in Gains /\ h = [mixed |-> FALSE]

-----------------------------------------------------------------------------
(* The calibrator: SetPSControl and pscc.                                  *)

Control(c, reset, automode) == [c EXCEPT !.reset = reset, !.automode = automode]
Resume(c) == Control(c, FALSE, TRUE)

\* One block through pscc.  An attempt measures the level of this moment; whether
\* the fit is accepted, and so applied, is up to the signal.
Fed(c, mox, level) ==
  CASE c.state = "reset" ->
         {[c EXCEPT !.reset = FALSE, !.correcting = FALSE,
                    !.state = IF c.automode THEN "wait" ELSE "reset"]}
    [] c.state # "reset" /\ c.reset -> {[c EXCEPT !.state = "reset"]}
    [] c.state # "reset" /\ ~c.reset /\ ~mox -> {[c EXCEPT !.state = "wait"]}
    [] c.state = "wait" /\ ~c.reset /\ mox -> {[c EXCEPT !.state = "collect"]}
    [] OTHER -> {c} \cup
         {[c EXCEPT !.fresh = TRUE, !.level = level,
                    !.correcting = ok \/ c.correcting] : ok \in BOOLEAN}

\* Seven blocks of silence, which ps_set pumps by hand.
Pump(c) == [c EXCEPT !.reset = FALSE, !.correcting = FALSE,
                     !.state = IF c.automode THEN "wait" ELSE "reset"]

-----------------------------------------------------------------------------
(* The GUI thread: ps_set and ps_set_auto.                                 *)

Set(e, a) ==
  /\ gui.at = "idle" /\ touched < PsDisturb
  /\ enable' = e /\ att' = a
  /\ touched' = touched + 1
  /\ gui' = IF e THEN [at |-> "wireOn", att |-> a, wasOn |-> enable]
            ELSE [GuiIdle EXCEPT !.at = IF enable THEN "reset" ELSE "idle"]
  /\ UNCHANGED <<auto, wireVars, keyVars, fill, tick, cal, gain, h>>

\* Arming: the wire first, then the calibrator, from scratch on the edge only.
SetWire ==
  /\ gui.at = "wireOn"
  /\ wire' = gui.att
  /\ gui' = [gui EXCEPT !.at = "arm"]
  /\ UNCHANGED <<enable, att, auto, flow, keyVars, fill, touched, tick, cal, gain, h>>

Arm ==
  /\ gui.at = "arm"
  /\ cal' = Control(cal, ~gui.wasOn, TRUE)
  /\ gui' = GuiIdle
  /\ UNCHANGED <<enable, att, auto, wireVars, keyVars, fill, touched, tick, gain, h>>

\* Disarming: the reset needs blocks to take effect, while receiving they are
\* pumped; then the wire.
Disarm ==
  /\ gui.at = "reset"
  /\ cal' = LET c == Control(cal, TRUE, FALSE) IN IF keyed THEN c ELSE Pump(c)
  /\ gui' = [gui EXCEPT !.at = "wireOff"]
  /\ UNCHANGED <<enable, att, auto, wireVars, keyVars, fill, touched, tick, gain, h>>

ClearWire ==
  /\ gui.at = "wireOff"
  /\ wire' = PsOff
  /\ gui' = GuiIdle
  /\ UNCHANGED <<enable, att, auto, flow, keyVars, fill, touched, tick, cal, gain, h>>

SetAuto ==
  /\ gui.at = "idle" /\ touched < PsDisturb
  /\ auto' = ~auto /\ touched' = touched + 1
  /\ UNCHANGED <<enable, att, wireVars, keyVars, fill, gui, tick, cal, gain, h>>

-----------------------------------------------------------------------------
(* The transmit thread: the end of a gate slot.                            *)

\* The gate has decided.  On the unkey edge ps_key(0) comes first; then ps_tune
\* stores its edge and looks up whether PureSignal is on.
Slot(k) ==
  /\ slot = "idle"
  /\ key' = k
  /\ keyed' = (k # "off" /\ keyed)
  /\ tuned' = (k = "tune")
  /\ slot' = IF tuned' # tuned /\ enable THEN "retune" ELSE "key"
  /\ UNCHANGED <<enable, att, auto, wireVars, over, fill, guiVars, tick, cal, gain, h>>

Retune ==
  /\ slot = "retune"
  /\ cal' = IF tuned THEN Control(cal, TRUE, FALSE) ELSE Resume(cal)
  /\ slot' = "key"
  /\ UNCHANGED <<enable, att, auto, wireVars, key, tuned, keyed, over, fill, guiVars,
                 tick, gain, h>>

Wanted == key \notin {"off", "gen"}

\* Mutant: the half block of the last over is kept.
KeepsFill == fill

FreshFill == <<>>

\* ps_key, where a new over starts with an empty accumulator, and the top of
\* ps_auto_tick, which copies the setting under the lock.
Key ==
  /\ slot = "key"
  /\ keyed' = Wanted
  /\ IF Wanted /\ ~keyed THEN fill' = FreshFill /\ over' = 1 - over
                         ELSE UNCHANGED <<fill, over>>
  /\ IF enable /\ Wanted
       THEN tick' = [tick EXCEPT !.att = att] /\ slot' = "decide"
       ELSE tick' = [tick EXCEPT !.state = 0, !.stuck = 0, !.latched = FALSE] /\ slot' = "idle"
  /\ UNCHANGED <<enable, att, auto, wireVars, key, tuned, guiVars, cal, gain, h>>

\* The accept window is (128, 181]; a clipped level is unknowable: all the way up.
OutsideWindow(level, a) == level > 1 \/ (level < -1 /\ a > 0)

\* Mutant: the step goes the other way.
WrongWay(level, a) == Clamp(a - level)

Step(level, a) == Clamp(IF level > 4 THEN a + MaxAtt ELSE a + level)

\* Mutant: the watchdog looks at TUNE the wrong way round.
StuckInTune == cal.state = "reset" /\ tuned

\* The watchdog: a calibrator that sits in reset outside TUNE is re-armed.
Stuck == cal.state = "reset" /\ ~tuned

Rearms == Stuck /\ tick.stuck + 1 >= StuckTicks

\* The rest of ps_auto_tick, up to the store of a new attenuator.
Decide ==
  /\ slot = "decide"
  /\ LET c   == [(IF Rearms THEN Resume(cal) ELSE cal) EXCEPT !.fresh = FALSE]
         t   == [tick EXCEPT !.stuck = IF Rearms \/ ~Stuck THEN 0 ELSE @ + 1, !.att = 0]
         na  == Step(c.level, tick.att)
     IN \/ /\ ~tick.latched
           /\ tick' = [tick EXCEPT !.latched = TRUE, !.att = 0]
           /\ cal' = [cal EXCEPT !.fresh = FALSE]
           /\ slot' = "idle" /\ UNCHANGED att
        \/ /\ tick.latched /\ ~auto
           /\ tick' = [t EXCEPT !.state = 0] /\ cal' = c
           /\ slot' = "idle" /\ UNCHANGED att
        \/ /\ tick.latched /\ auto /\ t.state = 0
           /\ IF cal.fresh /\ c.level # NoLevel /\ OutsideWindow(c.level, tick.att)
                THEN /\ cal' = Control(c, TRUE, FALSE)
                     /\ IF na # tick.att
                          THEN /\ tick' = [t EXCEPT !.state = 1, !.att = na]
                               /\ att' = na /\ slot' = "att"
                          ELSE /\ tick' = [t EXCEPT !.state = 1]
                               /\ UNCHANGED att /\ slot' = "idle"
                ELSE cal' = c /\ tick' = t /\ slot' = "idle" /\ UNCHANGED att
        \/ /\ tick.latched /\ auto /\ t.state = 1
           /\ tick' = [t EXCEPT !.state = 2] /\ cal' = c
           /\ slot' = "idle" /\ UNCHANGED att
        \/ /\ tick.latched /\ auto /\ t.state = 2
           /\ tick' = [t EXCEPT !.state = 0] /\ cal' = Resume(c)
           /\ slot' = "idle" /\ UNCHANGED att
  /\ UNCHANGED <<enable, auto, wireVars, key, tuned, keyed, over, fill, guiVars, gain, h>>

\* The new attenuator goes on the wire.
PutAtt ==
  /\ slot = "att"
  /\ wire' = tick.att /\ tick' = [tick EXCEPT !.att = 0]
  /\ slot' = "idle"
  /\ UNCHANGED <<enable, att, auto, flow, key, tuned, keyed, over, fill, guiVars, cal,
                 gain, h>>

-----------------------------------------------------------------------------
(* The radio and the listener.                                             *)

\* The control plane delivers the setting: feedback flows during an over of a
\* radio that was told to send it.
RadioObeys ==
  /\ flow # (wire # PsOff /\ key # "off")
  /\ flow' = ~flow
  /\ UNCHANGED <<enable, att, auto, wire, keyVars, fill, guiVars, tick, cal, gain, h>>

\* feed_cb for one pair: dropped unless keyed; a full block goes to pscc.
Feedback ==
  /\ flow
  /\ IF ~keyed THEN UNCHANGED <<fill, cal, h>>
     ELSE LET block == Append(fill, over)
          IN IF Len(block) < BlockPairs
               THEN fill' = block /\ UNCHANGED <<cal, h>>
               ELSE /\ fill' = <<>>
                    /\ cal' \in Fed(cal, keyed, gain - (IF wire = PsOff THEN 0 ELSE wire))
                    /\ h' = [mixed |-> h.mixed \/ \E i \in 1..BlockPairs : block[i] # over]
  /\ UNCHANGED <<enable, att, auto, wireVars, keyVars, guiVars, tick, gain>>

-----------------------------------------------------------------------------
TxStep  == Retune \/ Key \/ Decide \/ PutAtt
GuiStep == SetWire \/ Arm \/ Disarm \/ ClearWire
AnySlot == \E k \in {"off"} \cup PsKeys : Slot(k)

Next ==
  \/ \E e \in BOOLEAN, a \in Settings : Set(e, a)
  \/ SetWire \/ Arm \/ Disarm \/ ClearWire \/ SetAuto
  \/ AnySlot
  \/ Retune \/ Key \/ Decide \/ PutAtt
  \/ RadioObeys \/ Feedback

Spec == Init /\ [][Next]_vars

\* A block that completes an attempt of the calibrator.
Attempt == Feedback /\ Len(fill) = BlockPairs - 1 /\ cal.state = "collect" /\ cal'.fresh

\* The threads run on and slots keep coming, the radio obeys and streams, and an
\* attempt that is possible again and again is made: a calibrator that never sees
\* a usable block has nothing to settle.
FairSpec ==
  /\ Spec
  /\ WF_vars(TxStep) /\ WF_vars(GuiStep) /\ WF_vars(AnySlot)
  /\ WF_vars(RadioObeys) /\ WF_vars(Feedback) /\ SF_vars(Attempt)

-----------------------------------------------------------------------------
(* Correctness.                                                            *)

\* A block handed to the calibrator holds the feedback of one over only: pairs
\* of a block left half full by an unkey never complete one of the next over
\* (feed_cb drops pairs while unkeyed, ps_key empties the accumulator).
NoMixedBlock == ~h.mixed

\* Feedback of an over that PureSignal is to correct.
CanCalibrate == enable /\ keyed /\ ~tuned /\ flow
SwitchedOff  == ~cal.automode

\* A calibrator that was switched off (by TUNE, by the attenuator's reset, by an
\* arming that crossed either) comes back in automatic mode while it has anything
\* to do: the watchdog of ps_auto_tick picks it up where no other step does.
CalibrationResumes == (CanCalibrate /\ SwitchedOff) ~> (SwitchedOff => ~CanCalibrate)

\* One long voice over with the automatic attenuator.
Steady == key = "voice" /\ keyed /\ enable /\ auto /\ gui.at = "idle" /\ flow

\* The wire carries the attenuator the tick will start from.
Agree   == wire = att \/ slot = "att"
Settled == ~OutsideWindow(gain - wire, att)

\* In a long over the automatic attenuator stops with a level inside the window,
\* whatever the operator, TUNE and the watchdog did before (ps_auto_tick).  The
\* premise Agree is needed: a ps_set that stores its attenuator before the tick
\* stores its own, and writes its wire after it, leaves the two apart for good.
AttenuatorSettles == <>[](Steady /\ Agree) => <>[]Settled
=============================================================================
