-------------------------------- MODULE TxKey -------------------------------
(***************************************************************************)
(* The keying loop: how an intent of the operator becomes a keyed exciter, *)
(* and how it ends (engine/tx_run.c, with the GUI's key buttons).          *)
(*                                                                         *)
(* The GUI main thread owns the buttons, the mode and the VFO, queues text *)
(* for the CW and RTTY generators, and on its frame tick pops the buttons  *)
(* of an over the engine refused, tripped or released.  The transmit       *)
(* thread produces one block of samples per iteration, in three steps that *)
(* the GUI and the radio interleave with:                                  *)
(*                                                                         *)
(*   Content  the break-in bookkeeping and the intent fingerprint;         *)
(*   Gate     gate_slot, on a 50 ms slot or at once on an intent edge;     *)
(*   Work     the link-loss release, the CW / RTTY cutoff and the feed.    *)
(*                                                                         *)
(* Time is counted in blocks: the hang time, the cutoff and the PTT delay  *)
(* are numbers of iterations.  A generator is the number of blocks of text *)
(* left and whether its envelope is raised; a block of the other sources   *)
(* leaves no state behind.  The coupler is an arbitrary over-limit bit per *)
(* slot (TxProtect models it).  The radio speaks protocol 2.  h is         *)
(* history, read by no guard.                                              *)
(***************************************************************************)
EXTENDS TxGate, Integers, Sequences

CONSTANTS
  Buttons,      \* the key buttons: a subset of {"mox", "tune", "tt"}
  Modes,        \* the modes the operator uses: "SSB" is voice, "CW", "RTTY"
  Hang,         \* the break-in hang time, in blocks
  Cutoff,       \* the longest generator over, in blocks
  PttDelay,     \* blocks of silence before a generator is pulled
  MaxText,      \* bound on the blocks one text takes
  MaxSends,     \* bound on the number of texts sent
  Bands,        \* the band plan's answers where the VFO goes, with TRUE
  Coupler       \* the over-limit bits a slot can read: a subset of BOOLEAN

Gens == Modes \cap {"CW", "RTTY"}

ASSUME KeyAssumption ==
  /\ Buttons \subseteq {"mox", "tune", "tt"}
  /\ "SSB" \in Modes /\ Modes \subseteq {"SSB", "CW", "RTTY"}
  /\ Hang \in Nat /\ Cutoff \in Nat \ {0} /\ PttDelay \in Nat
  /\ MaxText \in Nat /\ MaxSends \in Nat
  /\ TRUE \in Bands /\ Bands \subseteq BOOLEAN
  /\ Coupler \subseteq BOOLEAN

VARIABLES
  btn,        \* the toggle buttons
  todo,       \* pops of the frame tick still to do
  cfgMode,    \* s_cfg.mode
  sMode,      \* s_mode, stored after the configuration's lock is released
  inBand,     \* the band plan's answer for the transmit frequency
  sends,      \* texts sent so far
  pedal,      \* tlm_ptt: the footswitch level of the last status packet
  age,        \* of the last status packet: none yet, under 0.5 s, 1 s, older
  want,       \* s_want_mox, s_want_tune, s_want_tt
  gen,        \* the generators
  wantGen,    \* s_want_cw, s_want_rtty
  hang,       \* blocks until s_cw_hang_deadline
  pc,         \* the transmit thread's step; "slot" and "edge" run the gate
  intent,     \* prev_intent
  prevWant,   \* prev_want
  gate,       \* tx_gate.c's statics
  out,        \* the published status: what the gate returned
  feed,       \* the source of the blocks: keyed_mox, keyed_cw, keyed_rtty
  lost,       \* stale_since is set: this outage's release was done
  news,       \* link_release_seq: raised by the engine, published to the GUI
  over,       \* blocks since cw_key_on, rtty_key_on: the current one counts
  h           \* history

guiVars    == <<btn, todo, cfgMode, sMode, inBand, sends>>
radioVars  == <<pedal, age>>
gateVars   == <<intent, prevWant, gate, out, feed>>
threadVars == <<wantGen, hang, pc, gateVars, lost, over>>
vars == <<guiVars, radioVars, want, gen, threadVars, news, h>>

Rest == [left |-> 0, up |-> FALSE]

\* cw_gen_idle, rtty_gen_idle: nothing queued and the envelope at rest.
GenIdle(g) == gen[g] = Rest

\* cw_gen_flush, rtty_gen_flush: the envelope is left where it is.
Flush(x) == [x EXCEPT !.left = 0]

History ==
  [asked : BOOLEAN,          \* a key was pressed or a text sent since the
                             \* release of the last link loss
   only  : BOOLEAN,          \* the last gate run keyed a generator and saw
                             \* no other intent
   tail  : 0..(Hang + 1)]    \* blocks past the cutoff only a generator keyed,
                             \* since the last text was sent

TypeOK ==
  /\ btn \in [Buttons -> BOOLEAN] /\ want \in [Buttons -> BOOLEAN]
  /\ todo \in Seq(Buttons)
  /\ cfgMode \in Modes /\ sMode \in Modes
  /\ inBand \in Bands /\ pedal \in BOOLEAN
  /\ age \in {"none", "fresh", "late", "old"}
  /\ sends \in 0..MaxSends
  /\ gen \in [Gens -> [left : 0..(MaxText * MaxSends), up : BOOLEAN]]
  /\ wantGen \in [Gens -> BOOLEAN]
  /\ hang \in 0..Hang
  /\ pc \in {"content", "slot", "edge", "work"}
  /\ intent \in [Buttons -> BOOLEAN] \X [Gens -> BOOLEAN] \X BOOLEAN
  /\ prevWant \in BOOLEAN
  /\ gate \in GateState /\ out \in GateResults
  /\ feed \in {"zeros", "mic", "silence"} \cup Gens
  /\ lost \in BOOLEAN
  /\ news \in [raised : BOOLEAN, published : BOOLEAN]
  /\ over \in [Gens -> 0..(Cutoff + 2)]
  /\ h \in History

Init ==
  /\ btn = [b \in Buttons |-> FALSE] /\ want = [b \in Buttons |-> FALSE]
  /\ todo = <<>>
  /\ cfgMode = "SSB" /\ sMode = "SSB"
  /\ inBand = TRUE /\ sends = 0
  /\ pedal = FALSE /\ age = "none"
  /\ gen = [g \in Gens |-> Rest] /\ wantGen = [g \in Gens |-> FALSE]
  /\ hang = 0 /\ pc = "content"
  /\ intent = <<want, wantGen, FALSE>>
  /\ prevWant = FALSE /\ gate = GateOff
  /\ out = [keyed |-> FALSE, mox |-> FALSE, tune |-> FALSE, allowed |-> TRUE,
            tripped |-> FALSE]
  /\ feed = "zeros"
  /\ lost = FALSE /\ news = [raised |-> FALSE, published |-> FALSE]
  /\ over = [g \in Gens |-> 0]
  /\ h = [asked |-> FALSE, only |-> FALSE, tail |-> 0]

-----------------------------------------------------------------------------
(* The operator: GTK handlers, one after the other on the main thread.     *)

GuiIdle == todo = <<>> /\ cfgMode = sMode

\* What the handler of b writes once the buttons are bs: MOX and TUNE share
\* on_tx_key_toggled, which rewrites both intents from the buttons.
Handled(bs, b) ==
  [c \in Buttons |-> IF c = b \/ {b, c} = {"mox", "tune"} THEN bs[c] ELSE want[c]]

Press(b) ==
  /\ GuiIdle
  /\ btn' = [btn EXCEPT ![b] = ~@]
  /\ want' = Handled(btn', b)
  /\ h' = [h EXCEPT !.asked = TRUE]
  /\ UNCHANGED <<todo, cfgMode, sMode, inBand, sends, radioVars, gen,
                 threadVars, news>>

\* tx_run_set_cfg writes the mode under the lock ...
SetMode(m) ==
  /\ GuiIdle /\ m # cfgMode
  /\ cfgMode' = m
  /\ UNCHANGED <<btn, todo, sMode, inBand, sends, radioVars, want, gen,
                 threadVars, news, h>>

\* ... and the atomic copy after it.
PublishMode ==
  /\ cfgMode # sMode
  /\ sMode' = cfgMode
  /\ UNCHANGED <<btn, todo, cfgMode, inBand, sends, radioVars, want, gen,
                 threadVars, news, h>>

Qsy ==
  /\ GuiIdle
  /\ inBand' \in Bands \ {inBand}
  /\ UNCHANGED <<btn, todo, cfgMode, sMode, sends, radioVars, want, gen,
                 threadVars, news, h>>

\* A text of n blocks for the generator of the current mode.
Send(n) ==
  /\ GuiIdle /\ cfgMode \in Gens /\ sends < MaxSends
  /\ sends' = sends + 1
  /\ gen' = [gen EXCEPT ![cfgMode].left = @ + n]
  /\ h' = [h EXCEPT !.asked = TRUE, !.tail = 0]
  /\ UNCHANGED <<btn, todo, cfgMode, sMode, inBand, radioVars, want,
                 threadVars, news>>

\* Esc drops what both generators have queued.
Abort ==
  /\ GuiIdle
  /\ gen' = [g \in Gens |-> Flush(gen[g])]
  /\ UNCHANGED <<guiVars, radioVars, want, threadVars, news, h>>

\* One pop of a button there is, when it is needed.
Pops(b, needed) == IF b \in Buttons /\ needed THEN <<b>> ELSE <<>>

\* Mutant: the link loss does not pop MOX.
LinkLossPopsNotMox == Pops("tune", TRUE) \o Pops("tt", TRUE)

LinkLossPops == Pops("tune", TRUE) \o Pops("mox", TRUE) \o Pops("tt", TRUE)

\* The frame tick reads the published status once and decides what to pop.
FrameTick ==
  /\ GuiIdle
  /\ LET refused == out.tripped \/ ~out.allowed
     IN  todo' = Pops("tune", refused /\ btn["tune"]) \o Pops("tt", refused /\ btn["tt"])
                 \o (IF news.published THEN LinkLossPops ELSE <<>>)
  /\ news' = [news EXCEPT !.published = FALSE]
  /\ UNCHANGED <<btn, cfgMode, sMode, inBand, sends, radioVars, want, gen,
                 threadVars, h>>

\* One gtk_toggle_button_set_active(b, FALSE): the handler runs if it was lit.
Pop ==
  /\ todo # <<>>
  /\ LET b == Head(todo)
     IN  IF btn[b]
           THEN /\ btn' = [btn EXCEPT ![b] = FALSE]
                /\ want' = Handled(btn', b)
           ELSE UNCHANGED <<btn, want>>
  /\ todo' = Tail(todo)
  /\ UNCHANGED <<cfgMode, sMode, inBand, sends, radioVars, gen, threadVars,
                 news, h>>

-----------------------------------------------------------------------------
(* The radio.                                                              *)

Status(p) ==
  /\ <<p, "fresh">> # <<pedal, age>>
  /\ pedal' = p /\ age' = "fresh"
  /\ UNCHANGED <<guiVars, want, gen, threadVars, news, h>>

\* No packet for half a second, for a second: an outage.
Silence ==
  /\ age \in {"fresh", "late"}
  /\ age' = IF age = "fresh" THEN "late" ELSE "old"
  /\ UNCHANGED <<guiVars, pedal, want, gen, threadVars, news, h>>

-----------------------------------------------------------------------------
(* The transmit thread.                                                    *)

\* Mutant: an envelope still up is no content.
HangWhileQueued ==
  IF sMode = "CW" /\ gen["CW"].left > 0 THEN Hang
  ELSE IF hang > 0 THEN hang - 1 ELSE 0

\* CW text, or an envelope still up, extends the hang; otherwise it runs out.
HangAfter ==
  IF sMode = "CW" /\ ~GenIdle("CW") THEN Hang
  ELSE IF hang > 0 THEN hang - 1 ELSE 0

\* Break-in: CW holds the key through the hang, RTTY only while it has content.
WantGenAfter ==
  [g \in Gens |->
    sMode = g /\ (IF g = "CW" THEN HangAfter > 0 ELSE ~GenIdle(g))]

\* s is set when 50 ms passed since the last slot.  The fingerprint holds the
\* pedal's level, not whether it counts.
Content(s) ==
  /\ pc = "content"
  /\ hang' = HangAfter
  /\ wantGen' = WantGenAfter
  /\ intent' = <<want, wantGen', pedal>>
  /\ pc' = IF s THEN "slot" ELSE IF intent' # intent THEN "edge" ELSE "work"
  /\ UNCHANGED <<guiVars, radioVars, want, gen, prevWant, gate, out, feed,
                 lost, over, news, h>>

Wants(b) == b \in Buttons /\ want[b]

\* Mutant: the pedal counts as long as its last level was high.
PedalKeysStale == cfgMode = "SSB" /\ pedal

\* The pedal counts in a voice mode, while status packets arrive.
PedalKeys == cfgMode = "SSB" /\ pedal /\ age = "fresh"

WantMox ==
  \/ Wants("mox")
  \/ PedalKeys
  \/ Wants("tt") /\ sMode \notin Gens
  \/ sMode \in Gens /\ wantGen[sMode]

WantKey == WantMox \/ Wants("tune")

GateAt == IF WantKey /\ ~prevWant THEN GateOff ELSE gate

\* The generators key on the MOX bit of the result alone, TUNE or not.
FeedOf(r) ==
  IF ~r.keyed THEN "zeros"
  ELSE IF ~r.mox THEN "silence"
  ELSE IF sMode \in Gens THEN sMode ELSE "mic"

GateRun(high) ==
  /\ pc \in {"slot", "edge"} /\ (high => pc = "slot")
  /\ LET in == [mox |-> WantMox, tune |-> Wants("tune"), inBand |-> inBand,
                high |-> high, open |-> FALSE, hot |-> FALSE, stale |-> pc = "edge"]
     IN  /\ gate' = GateNext(GateAt, in)
         /\ out' = GateResult(gate', in)
  /\ prevWant' = WantKey
  /\ feed' = FeedOf(out')
  /\ news' = [raised |-> FALSE, published |-> news.published \/ news.raised]
  /\ pc' = "work"
  /\ h' = [h EXCEPT !.only = feed' \in Gens /\ ~PedalKeys /\ \A b \in Buttons : ~want[b]]
  /\ UNCHANGED <<guiVars, radioVars, want, gen, wantGen, hang, intent,
                 lost, over>>

\* More than a second without a status packet while keyed.
LinkStale == out.keyed /\ age = "old"
LinkLost  == LinkStale /\ ~lost

OverAfter ==
  [g \in Gens |-> IF feed # g THEN 0
                  ELSE IF over[g] = Cutoff + 2 THEN over[g] ELSE over[g] + 1]

\* The generators whose over is longer than the cutoff.
PastCutoff == {g \in Gens : OverAfter[g] > Cutoff + 1}

\* Mutants: the cutoff does not flush; the link loss does not.
FlushedOnLinkLoss(g) == IF LinkLost THEN Flush(gen[g]) ELSE gen[g]
FlushedAtCutoff(g)   == IF g \in PastCutoff THEN Flush(gen[g]) ELSE gen[g]

FlushedAt(g) == IF LinkLost \/ g \in PastCutoff THEN Flush(gen[g]) ELSE gen[g]

\* One block: text leaves the envelope anywhere, an empty queue brings it down.
Pulled(x) ==
  IF x.left = 0 THEN {Rest} ELSE {[left |-> x.left - 1, up |-> u] : u \in BOOLEAN}

\* The generator that is pulled, if any: zeros until the T/R relay has settled.
Pulls(g) == feed = g /\ OverAfter[g] > PttDelay

GenAfter(g) == IF Pulls(g) THEN Pulled(FlushedAt(g)) ELSE {FlushedAt(g)}

\* Mutant: the link loss keeps the intents.
ReleasedNot == want

Released == [b \in Buttons |-> FALSE]

TailAfter ==
  IF ~(h.only /\ feed \in PastCutoff) THEN 0
  ELSE IF h.tail = Hang + 1 THEN h.tail ELSE h.tail + 1

Work ==
  /\ pc = "work"
  /\ lost' = LinkStale
  /\ want' = IF LinkLost THEN Released ELSE want
  /\ news' = [news EXCEPT !.raised = @ \/ LinkLost]
  /\ over' = OverAfter
  /\ gen' \in {f \in [Gens -> UNION {GenAfter(g) : g \in Gens}] :
                 \A g \in Gens : f[g] \in GenAfter(g)}
  /\ pc' = "content"
  /\ h' = [h EXCEPT !.asked = @ /\ ~LinkLost, !.tail = TailAfter]
  /\ UNCHANGED <<guiVars, radioVars, wantGen, hang, gateVars>>

Next ==
  \/ \E b \in Buttons : Press(b)
  \/ \E m \in Modes : SetMode(m)
  \/ PublishMode
  \/ Qsy
  \/ \E n \in 1..MaxText : Send(n)
  \/ Abort
  \/ FrameTick
  \/ Pop
  \/ \E p \in BOOLEAN : Status(p)
  \/ Silence
  \/ \E s \in BOOLEAN : Content(s)
  \/ \E high \in Coupler : GateRun(high)
  \/ Work

Spec == Init /\ [][Next]_vars

-----------------------------------------------------------------------------
(* Safety.                                                                 *)

\* Whenever the main thread has done its pops, the engine's intents are what
\* the buttons show: no key is held that is not lit, and none is lit in vain.
ButtonsShowIntents ==
  GuiIdle /\ ~news.raised /\ ~news.published => want = btn

\* In an outage nothing but a new press or a new text keys: once the GUI has
\* caught up no intent is left and no text is queued, on the engine's side.  Until
\* then the pop of a refused TUNE may write MOX back from its button (on_tick).
OutageLeavesNothing ==
  lost /\ ~h.asked /\ GuiIdle /\ ~news.raised /\ ~news.published
    => /\ \A b \in Buttons : ~want[b]
       /\ \A g \in Gens : gen[g].left = 0

\* The 20 s cutoff ends a generator's over: past it, the exciter stays keyed
\* for the hang time (RTTY: one block) and no longer, unless a new text is sent
\* or another intent holds the key.
CutoffBoundsTheOver == h.tail <= Hang \/ h.tail = 1

-----------------------------------------------------------------------------
(* Liveness.  The transmit thread keeps looping and its loop outruns the   *)
(* 50 ms slot; the main thread finishes what it started.  The operator,    *)
(* the radio and the frame tick owe nothing.                               *)

Fairness ==
  /\ SF_vars(Content(TRUE))
  /\ WF_vars(\E high \in Coupler : GateRun(high))
  /\ WF_vars(Work)
  /\ WF_vars(PublishMode)
  /\ WF_vars(Pop)

FairSpec == Spec /\ Fairness

\* Text queued in its mode is keyed to its end: once the mode stays, the
\* frequency is in band and nothing trips, the generator keeps coming to rest,
\* whatever else is pressed and whatever the link does.
QueuedTextIsSent ==
  \A g \in Gens :
    <>[](sMode = g /\ cfgMode = g /\ inBand /\ ~gate.tripped) => []<>GenIdle(g)

\* When every button is off, the generators are idle and the pedal is up, or
\* its level is one of a radio gone silent, the exciter ends up unkeyed and the
\* trip latch clear, for good.
NothingAsked ==
  /\ todo = <<>> /\ \A b \in Buttons : ~btn[b]
  /\ \A g \in Gens : GenIdle(g)
  /\ ~pedal \/ age # "fresh"

ReleaseEndsTheOver == <>[]NothingAsked => <>[](~out.keyed /\ ~gate.tripped)

\* The over that lost its radio ends while the radio is still gone, unless the
\* operator asks again.
OutageEndsTheOver ==
  (lost /\ ~h.asked) ~> (~out.keyed \/ h.asked \/ age # "old")

-----------------------------------------------------------------------------
(* What comments say, and the code does not do.                            *)

\* gui.c:6202, a text "would sit in the generator and key unexpectedly when the
\* operator later switches to CW": it sits in no generator but the mode's own.
TextSitsInItsModeOnly == GuiIdle => \A g \in Gens : gen[g].left > 0 => sMode = g
=============================================================================
