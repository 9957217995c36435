------------------------------- MODULE Receiver -------------------------------
(***************************************************************************)
(* The receiver as it is heard: the operator's settings (App in gui.c),    *)
(* what demod.c caches of them, what it has told the WDSP channel, and the *)
(* mute that the T/R switch puts over the audio.                           *)
(*                                                                         *)
(* Settings go from the App to the cache by the handlers and, once, by     *)
(* start_radio; from the cache to the channel by the apply functions,      *)
(* which each setter calls in an order of its own.  The mute is moved by   *)
(* two parties that never agree on a moment: the listener thread with each *)
(* IQ block (feed_cb), from the transmitter's keyed flag, and the frame    *)
(* tick, from the status the transmit thread publishes later.              *)
(***************************************************************************)
EXTENDS Integers

CONSTANTS
  Filters,       \* passband widths
  Offsets,       \* CTUN offsets
  Pitches,       \* CW and RTTY pitches
  Volumes,       \* AF volumes; 0 is the floor of the range
  Tops,          \* AGC-T
  Profiles, Flat,\* equalizer profiles, and the one without bands
  Plain,         \* settings that one WDSP call takes as they are
  RxDisturb      \* bound: inputs, key and unkey among them

ReceiverAssumption ==
  /\ Filters \cup Pitches \cup Volumes \cup Tops \subseteq Nat /\ Offsets \subseteq Int
  /\ 0 \in Volumes /\ Volumes # {0} /\ {} \notin {Filters, Pitches, Tops}
  /\ 0 \in Offsets /\ Flat \in Profiles /\ RxDisturb \in Nat

CwModes   == {"cwu", "cwl"}
DigiModes == {"digu", "rtty"}
RxModes   == {"usb", "am"} \cup CwModes \cup DigiModes
AgcModes  == {0, 3, 4}                        \* off, medium, fast
NrModes   == 0..4
Unset     == "unset"
\* agc_group_of.
GroupOf(m) == CASE m \in CwModes -> "cw" [] m = "am" -> "am" [] m \in DigiModes -> "digi" [] OTHER -> "ssb"
Groups     == {GroupOf(m) : m \in RxModes}

VARIABLES
  app,           \* the fields of App named below
  dem,           \* the caches of demod.c
  chan,          \* the WDSP channel
  ready, hasTx,  \* d_ready and tx_ready; neither before start_radio
  drag,          \* eq_apply_src: a dragged band waits for its push
  side,          \* eq_side: the page of the equalizer
  muted,         \* tci_muted
  owed,          \* history: settings that were changed or loaded and not pushed
  keyed, shown,  \* s_keyed_pub, and the status published at the end of a slot
  prev, armed,   \* feed_cb's rx_prev_keyed, and whether rx_unmute_at is set
  seen, settle,  \* the tick's tx_keyed_shown, and whether tx_settle_until is set
  mute, gain,    \* d_mute_target, and d_mute_gain in halves
  overtaken,     \* history: the tick opened the audio of a keyed listener
  moves          \* how many inputs came

settings == <<app, dem, chan, ready, hasTx, drag, side, muted, owed>>
switch   == <<keyed, shown, prev, armed, seen, settle, mute, gain, overtaken>>
vars     == <<settings, switch, moves>>

Setting ==
  [mode : RxModes, width : Filters, ctun : Offsets, cw : Pitches, rtty : Pitches, eqOn : BOOLEAN,
   eq : Profiles, volume : Volumes, agc : AgcModes, top : Tops, nr : NrModes, model : {0, 1},
   plain : [Plain -> BOOLEAN]]
Channel ==
  [mode : RxModes \cup {Unset}, shift : Int, pass : [at : Int, width : Nat], model : 0..3,
   eqRun : BOOLEAN, eq : Profiles \cup {Unset}, gain : Volumes, agc : AgcModes,
   top : Nat, running : SUBSET NrModes, plain : [Plain -> BOOLEAN]]

TypeOK ==
  /\ app.set \in Setting /\ app.filter \in [RxModes -> Filters] /\ app.agcBy \in [Groups -> AgcModes]
  /\ dem \in Setting /\ chan \in Channel
  /\ {ready, hasTx, drag, muted, keyed, shown, prev, armed, seen, settle, mute, overtaken} \subseteq BOOLEAN
  /\ side \in {"rx", "tx"} /\ owed \subseteq {"eq", "cw", "volume"}
  /\ gain \in 0..2 /\ moves \in 0..RxDisturb

\* demod.c's defaults and an App as its settings left it.
Defaults ==
  [mode |-> "usb", width |-> CHOOSE w \in Filters : TRUE, ctun |-> 0, cw |-> CHOOSE p \in Pitches : TRUE,
   rtty |-> CHOOSE p \in Pitches : TRUE, eqOn |-> FALSE, eq |-> Flat,
   volume |-> CHOOSE v \in Volumes : v > 0, agc |-> 3,
   top |-> CHOOSE t \in Tops : TRUE, nr |-> 0, model |-> 1, plain |-> [s \in Plain |-> FALSE]]

Init ==
  /\ \E p \in Pitches, e \in Profiles, m \in RxModes :
       app = [set |-> [Defaults EXCEPT !.cw = p, !.eq = e, !.eqOn = (e # Flat), !.mode = m],
              filter |-> [n \in RxModes |-> Defaults.width], agcBy |-> [g \in Groups |-> 3]]
  /\ dem = Defaults
  /\ chan = [mode |-> Unset, shift |-> 0, pass |-> [at |-> 0, width |-> 0], model |-> 0,
             eqRun |-> FALSE, eq |-> Unset, gain |-> 0, agc |-> 3, top |-> 0, running |-> {},
             plain |-> [s \in Plain |-> FALSE]]
  /\ ready = FALSE /\ hasTx = FALSE /\ drag = FALSE /\ side = "rx" /\ muted = FALSE /\ owed = {}
  /\ keyed = FALSE /\ shown = FALSE /\ prev = FALSE /\ armed = FALSE /\ seen = FALSE
  /\ settle = FALSE /\ mute = FALSE /\ gain = 2 /\ overtaken = FALSE /\ moves = 0

-----------------------------------------------------------------------------
(* The apply functions: the channel they leave, from the caches and the    *)
(* channel they find.                                                      *)

\* The sign of the BFO offset: upper CW down, lower CW and RTTY up.
Pitch(d) == CASE d.mode = "cwu" -> d.cw [] d.mode = "cwl" -> -d.cw [] d.mode = "rtty" -> -d.rtty [] OTHER -> 0
Passband(d, c) == [c EXCEPT !.shift = d.ctun - Pitch(d), !.pass = [at |-> Pitch(d), width |-> d.width]]

Nnr(d, c) == [c EXCEPT !.model = d.model + (IF d.mode \in CwModes THEN 2 ELSE 0)]

\* Off leaves the threshold as it is.
Agc(d, c) == [c EXCEPT !.agc = d.agc, !.top = IF d.agc = 0 THEN @ ELSE d.top]

\* The profile and the run flag are pushed on a change only; both are what was
\* last pushed, Unset in a fresh channel.
EqRuns(d) == d.eqOn /\ d.eq # Flat /\ d.mode \notin DigiModes
Eq(d, c)  == [c EXCEPT !.eq = d.eq, !.eqRun = EqRuns(d)]

Nr(d, c)  == [c EXCEPT !.running = {d.nr} \ {0}]

Mode(d, c) == [c EXCEPT !.mode = IF d.mode = "rtty" THEN "digu" ELSE d.mode]

\* Mutant: the noise reduction keeps the model of the mode before.
ModeAlone(d, c)   == Passband(d, Eq(d, Mode(d, c)))
\* demod_set_mode's order.
ModeApplied(d, c) == Passband(d, Eq(d, Mode(d, Nnr(d, c))))

\* demod_create.
Created(d, c) ==
  [Nr(d, Nnr(d, Agc(d, Passband(d, Eq(d, Mode(d, c)))))) EXCEPT !.gain = d.volume, !.plain = d.plain]

-----------------------------------------------------------------------------
(* start_radio.                                                            *)

\* The equalizer is handed over before it is read from the settings; the CW
\* pitch goes with the keyer's settings, and only to a radio that transmits.
Start(works, tx) ==
  LET a  == app.set
      d0 == [dem EXCEPT !.model = a.model, !.plain = a.plain, !.mode = a.mode, !.width = a.width,
                        !.volume = a.volume]
      d1 == [d0 EXCEPT !.agc = a.agc, !.top = a.top, !.nr = a.nr]
      d2 == [d1 EXCEPT !.rtty = a.rtty, !.cw = IF tx THEN a.cw ELSE @]
  IN  /\ chan.mode = Unset /\ moves = 0
      /\ ready' = works /\ hasTx' = tx /\ moves' = 1
      /\ dem' = IF works THEN d2 ELSE [dem EXCEPT !.model = a.model, !.plain = a.plain,
                                                  !.rtty = d2.rtty, !.cw = d2.cw]
      /\ chan' = IF works THEN Passband(d2, Nr(d2, Agc(d1, Created(d0, chan)))) ELSE chan
      /\ owed' = (IF a.eqOn \/ a.eq # Flat THEN {"eq"} ELSE {}) \cup (IF tx THEN {} ELSE {"cw"})
      /\ UNCHANGED <<app, drag, side, muted, switch>>

-----------------------------------------------------------------------------
(* The handlers of the main loop.                                          *)

Input == moves \in 1..(RxDisturb - 1) /\ moves' = moves + 1 /\ UNCHANGED <<ready, hasTx, side, switch>>

\* A setter of demod.c: it caches, and applies to a channel that is open.
Cache(d, applied) == dem' = d /\ chan' = IF ready THEN applied ELSE chan

\* on_mode_toggled: the AGC of the mode's group, then the mode with its filter.
ToMode(m) ==
  LET a    == app.set
      filed == [app.agcBy EXCEPT ![GroupOf(a.mode)] = a.agc]
      same == GroupOf(m) = GroupOf(a.mode)
      agc  == IF same THEN a.agc ELSE filed[GroupOf(m)]
      d1   == IF agc # a.agc THEN [dem EXCEPT !.agc = agc] ELSE dem
      c1   == IF agc # a.agc THEN Agc(d1, chan) ELSE chan
      d2   == [d1 EXCEPT !.mode = m, !.width = app.filter[m]]
  IN  /\ Input /\ m # a.mode
      /\ app' = [app EXCEPT !.set = [@ EXCEPT !.mode = m, !.width = app.filter[m], !.agc = agc],
                            !.agcBy = IF same THEN @ ELSE filed]
      /\ Cache(d2, ModeApplied(d2, c1))
      /\ UNCHANGED <<drag, muted, owed>>

\* filter_select and filter_apply_var_edges file it under the mode, tci_set_filter
\* does not.
Filter(w, filed) ==
  LET d == [dem EXCEPT !.width = w]
  IN  /\ Input /\ w # app.set.width
      /\ app' = [app EXCEPT !.set.width = w, !.filter[app.set.mode] = IF filed THEN w ELSE @]
      /\ Cache(d, Passband(d, chan)) /\ UNCHANGED <<drag, muted, owed>>

\* engine_push_rx.
DialTo(off) ==
  LET d == [dem EXCEPT !.ctun = off]
  IN  /\ Input /\ off # app.set.ctun /\ app' = [app EXCEPT !.set.ctun = off]
      /\ Cache(d, Passband(d, chan)) /\ UNCHANGED <<drag, muted, owed>>

\* on_pref_cw_pitch, and every other editor that ends in cw_push.
CwPush(p) ==
  LET d == [dem EXCEPT !.cw = p]
  IN  /\ Input /\ app' = [app EXCEPT !.set.cw = p]
      /\ Cache(d, Passband(d, chan)) /\ owed' = owed \ {"cw"} /\ UNCHANGED <<drag, muted>>

\* demod_set_rtty_pitch shifts a channel in RTTY only.
RttyPush(p) ==
  LET d == [dem EXCEPT !.rtty = p]
  IN  /\ Input /\ p # app.set.rtty /\ app' = [app EXCEPT !.set.rtty = p]
      /\ Cache(d, IF dem.mode = "rtty" THEN Passband(d, chan) ELSE chan)
      /\ UNCHANGED <<drag, muted, owed>>

\* eq_changed: an editor's, which pushes at once, or one of a drag.
EqPushed(a) == LET d == [dem EXCEPT !.eqOn = a.eqOn, !.eq = a.eq] IN Cache(d, Eq(d, chan))
EqEdit(on, p) ==
  /\ Input /\ side = "rx" /\ app' = [app EXCEPT !.set.eqOn = on, !.set.eq = p]
  /\ EqPushed([eqOn |-> on, eq |-> p]) /\ drag' = FALSE /\ owed' = owed \ {"eq"} /\ UNCHANGED muted
EqDrag(p) ==
  /\ Input /\ side = "rx" /\ p \notin {Flat, app.set.eq} /\ app.set.eq # Flat
  /\ app' = [app EXCEPT !.set.eq = p] /\ drag' = TRUE /\ owed' = owed \cup {"eq"}
  /\ UNCHANGED <<dem, chan, muted>>

\* eq_apply_cb pushes the page that is shown when it fires.
EqApply ==
  /\ drag /\ drag' = FALSE /\ app' = app
  /\ IF side = "rx" THEN EqPushed(app.set) /\ owed' = owed \ {"eq"} ELSE UNCHANGED <<dem, chan, owed>>
  /\ UNCHANGED <<ready, hasTx, side, muted, switch, moves>>
EqPage ==
  /\ moves \in 1..(RxDisturb - 1) /\ moves' = moves + 1 /\ side' = IF side = "rx" THEN "tx" ELSE "rx"
  /\ UNCHANGED <<app, dem, chan, ready, hasTx, drag, muted, owed, switch>>

\* An edit of the other page calls off what the drag had left to push.
TxEqEdit ==
  /\ Input /\ side = "tx" /\ drag /\ drag' = FALSE /\ UNCHANGED <<app, dem, chan, muted, owed>>

\* on_volume_changed does not look at the TCI mute; tci_set_volume does.
Heard(v) == LET d == [dem EXCEPT !.volume = v] IN Cache(d, [chan EXCEPT !.gain = v])
Volume(v) ==
  /\ Input /\ v # app.set.volume /\ app' = [app EXCEPT !.set.volume = v] /\ Heard(v)
  /\ owed' = owed \cup (IF muted THEN {"volume"} ELSE {}) /\ UNCHANGED <<drag, muted>>
TciVolume(v) ==
  /\ Input /\ v # app.set.volume /\ app' = [app EXCEPT !.set.volume = v]
  /\ IF muted THEN UNCHANGED <<dem, chan>> ELSE Heard(v)
  /\ UNCHANGED <<drag, muted, owed>>
TciMute(on) ==
  /\ Input /\ muted' = on /\ Heard(IF on THEN 0 ELSE app.set.volume)
  /\ owed' = owed \ {"volume"} /\ UNCHANGED <<app, drag>>

\* agc_select, agc_gain_set.
AgcSelect(m) ==
  LET d == [dem EXCEPT !.agc = m]
  IN  /\ Input /\ m # app.set.agc
      /\ app' = [app EXCEPT !.set.agc = m, !.agcBy[GroupOf(app.set.mode)] = m]
      /\ Cache(d, Agc(d, chan)) /\ UNCHANGED <<drag, muted, owed>>
AgcTop(t) ==
  LET d == [dem EXCEPT !.top = t]
  IN  /\ Input /\ t # app.set.top /\ app' = [app EXCEPT !.set.top = t]
      /\ Cache(d, IF d.agc > 0 THEN [chan EXCEPT !.top = t] ELSE chan)
      /\ UNCHANGED <<drag, muted, owed>>

\* on_nr_clicked, on_pref_nnr_model, and the settings one call takes.
NrNext ==
  LET d == [dem EXCEPT !.nr = (app.set.nr + 1) % 5]
  IN  /\ Input /\ app' = [app EXCEPT !.set.nr = d.nr]
      /\ Cache(d, Nr(d, chan)) /\ UNCHANGED <<drag, muted, owed>>
NnrModel ==
  LET d == [dem EXCEPT !.model = 1 - app.set.model]
  IN  /\ Input /\ app' = [app EXCEPT !.set.model = d.model]
      /\ Cache(d, Nnr(d, chan)) /\ UNCHANGED <<drag, muted, owed>>
Toggle(s) ==
  LET d == [dem EXCEPT !.plain[s] = ~app.set.plain[s]]
  IN  /\ Input /\ app' = [app EXCEPT !.set.plain[s] = ~@]
      /\ Cache(d, [chan EXCEPT !.plain = d.plain]) /\ UNCHANGED <<drag, muted, owed>>

-----------------------------------------------------------------------------
(* The T/R switch.                                                         *)

\* The transmit thread: the keyed flag at once, the status at the end of its slot.
Key ==
  /\ hasTx /\ moves \in 1..(RxDisturb - 1) /\ moves' = moves + 1 /\ keyed' = ~keyed
  /\ UNCHANGED <<settings, shown, prev, armed, seen, settle, mute, gain, overtaken>>
Publish ==
  /\ shown # keyed /\ shown' = keyed
  /\ UNCHANGED <<settings, keyed, prev, armed, seen, settle, mute, gain, overtaken, moves>>

\* Mutant: a key does not call off the opening of the over before.
StillArmed == armed \/ (keyed # prev /\ ~keyed)
\* What a key edge does to the time the audio opens again.
Rearmed    == IF keyed = prev THEN armed ELSE ~keyed

\* The gain of the block that demod_feed has ready, a step nearer to open or shut.
Faded(g, shut) == IF shut THEN (IF g = 0 THEN 0 ELSE g - 1) ELSE (IF g = 2 THEN 2 ELSE g + 1)

\* feed_cb, one IQ block: the edge, the opening when its time is there, and the
\* block of demod_feed, whose gain moves towards open or shut.
IqBlock ==
  /\ moves > 0 /\ prev' = keyed
  /\ \E fires \in BOOLEAN :
       /\ fires => armed /\ Rearmed
       /\ armed' = (Rearmed /\ ~fires)
       /\ mute' = (((mute \/ (keyed /\ ~prev))) /\ ~fires)
  /\ gain' = IF ready THEN Faded(gain, mute' \/ dem.volume = 0) ELSE gain
  /\ overtaken' = (overtaken /\ keyed = prev)
  /\ UNCHANGED <<settings, keyed, shown, seen, settle, moves>>

\* The frame tick's backstop.
Tick ==
  /\ moves > 0 /\ seen' = shown
  /\ \E fires \in BOOLEAN :
       /\ fires => settle /\ ~(shown /\ ~seen)
       /\ settle' = ((IF shown = seen THEN settle ELSE ~shown) /\ ~fires)
       /\ mute' = (mute /\ ~(fires /\ ready))
       /\ overtaken' = (overtaken \/ (fires /\ ready /\ prev))
  /\ UNCHANGED <<settings, keyed, shown, prev, armed, gain, moves>>

-----------------------------------------------------------------------------
Next ==
  \/ \E works, tx \in BOOLEAN : Start(works, tx)
  \/ \E m \in RxModes : ToMode(m)
  \/ \E w \in Filters, filed \in BOOLEAN : Filter(w, filed)
  \/ \E o \in Offsets : DialTo(o)
  \/ \E p \in Pitches : CwPush(p) \/ RttyPush(p)
  \/ \E on \in BOOLEAN, p \in Profiles : EqEdit(on, p)
  \/ \E p \in Profiles : EqDrag(p)
  \/ EqApply \/ EqPage \/ TxEqEdit
  \/ \E v \in Volumes : Volume(v) \/ TciVolume(v)
  \/ \E on \in BOOLEAN : TciMute(on)
  \/ \E m \in AgcModes : AgcSelect(m)
  \/ \E t \in Tops : AgcTop(t)
  \/ NrNext \/ NnrModel
  \/ \E s \in Plain : Toggle(s)
  \/ Key \/ Publish \/ IqBlock \/ Tick

-----------------------------------------------------------------------------
(* What is heard.                                                          *)

\* The operator's settings, less what start_radio and the handlers owe.
Known ==
  [app.set EXCEPT !.volume = IF "volume" \in owed THEN dem.volume ELSE IF muted THEN 0 ELSE @,
                  !.cw = IF "cw" \in owed THEN dem.cw ELSE @,
                  !.eq = IF "eq" \in owed THEN dem.eq ELSE @,
                  !.eqOn = IF "eq" \in owed THEN dem.eqOn ELSE @]

\* Whatever the order of the handlers, the receiver sounds as the App says: the
\* dial is heard at the pitch of its mode inside its passband, with the neural
\* model and the equalizer's bypass of that mode, the AGC of its group with the
\* threshold of the slider, one noise reduction, and the volume less a TCI mute.
\* Owed are the equalizer as it was saved and the CW pitch of a receive-only
\* radio, until they are touched, a drag of the equalizer until its push, and a TCI
\* mute the slider lifted (the setters of demod.c, start_radio).
HeardAsSet ==
  ready =>
    LET s == Known
    IN  /\ chan.pass = [at |-> Pitch(s), width |-> s.width] /\ chan.shift + Pitch(s) = s.ctun
        /\ chan.mode = "digu" <=> s.mode \in DigiModes
        /\ chan.model = s.model \/ s.mode \in CwModes
        /\ chan.model = s.model + 2 \/ s.mode \notin CwModes
        /\ chan.eqRun => s.mode \notin DigiModes /\ chan.eq = s.eq
        /\ (s.eqOn /\ s.eq # Flat /\ s.mode \notin DigiModes) => chan.eqRun
        /\ chan.agc = s.agc /\ s.agc = app.agcBy[GroupOf(s.mode)]
        /\ chan.agc > 0 => chan.top = s.top
        /\ chan.running = {s.nr} \ {0} /\ chan.gain = s.volume /\ chan.plain = s.plain

\* Once the listener has seen a key the receiver is shut for the whole over, unless
\* the tick's backstop of the over before comes late; once it has seen the end and
\* its settling time is over, it is open (feed_cb, the tick of gui.c).
AudioFollowsKey ==
  /\ prev /\ keyed /\ ~overtaken => mute
  /\ ~prev /\ ~keyed /\ ~armed => ~mute

Spec == Init /\ [][Next]_vars

-----------------------------------------------------------------------------
(* What makes it so: inductive invariants.                                 *)

\* What the listener saw last decides: after a key nothing is armed to open the audio,
\* after an unkey it is open or armed to open.
SwitchInv ==
  /\ prev => ~armed /\ (mute \/ overtaken)
  /\ ~prev /\ ~armed => ~mute

\* The channel is what its caches say.
Follows(d, c) ==
  /\ c.pass = [at |-> Pitch(d), width |-> d.width] /\ c.shift = d.ctun - Pitch(d)
  /\ c.mode = IF d.mode = "rtty" THEN "digu" ELSE d.mode
  /\ c.model = d.model + (IF d.mode \in CwModes THEN 2 ELSE 0)
  /\ c.eqRun = EqRuns(d) /\ c.eq = d.eq
  /\ c.agc = d.agc /\ (d.agc > 0 => c.top = d.top)
  /\ c.running = {d.nr} \ {0} /\ c.gain = d.volume /\ c.plain = d.plain

\* The caches are what is known of the settings.
Told(d, a) ==
  /\ d.mode = a.mode /\ d.width = a.width /\ d.ctun = a.ctun /\ d.rtty = a.rtty /\ d.agc = a.agc
  /\ d.top = a.top /\ d.nr = a.nr /\ d.model = a.model /\ d.plain = a.plain
  /\ "cw" \notin owed => d.cw = a.cw
  /\ "eq" \notin owed => d.eq = a.eq /\ d.eqOn = a.eqOn
  /\ "volume" \notin owed => d.volume = IF muted THEN 0 ELSE a.volume

Types ==
  /\ app \in [set : Setting, filter : [RxModes -> Filters], agcBy : [Groups -> AgcModes]]
  /\ dem \in Setting /\ chan \in Channel /\ ready \in BOOLEAN /\ muted \in BOOLEAN
  /\ moves \in Nat

\* The AGC's file is right for the mode that is on, and what start_radio leaves out it
\* finds as it wants it.
HeardInv ==
  /\ Types
  /\ app.set.agc = app.agcBy[GroupOf(app.set.mode)]
  /\ moves = 0 => ~ready /\ ~muted /\ ~drag /\ dem.ctun = app.set.ctun /\ dem.eq = Flat /\ ~dem.eqOn
  /\ ready => Told(dem, app.set) /\ Follows(dem, chan)
=============================================================================
