------------------------------- MODULE Startup -------------------------------
(***************************************************************************)
(* What the program remembers from one session to the next: start_radio    *)
(* reads the configuration file, finds the radio and applies what it read, *)
(* the preferences handlers change the App and ask for a save a second     *)
(* later (schedule_save), main saves once more when the run loop ends.     *)
(* The transmit calibration is kept per radio, in a group of the file      *)
(* named by the radio's profile; everything else is shared.                *)
(*                                                                         *)
(* The settings are represented by one of each way they are treated:       *)
(* plain (restored before the radio is looked for), mode (with the         *)
(* one-time migration of an old seed), filter (the filter memory, restored *)
(* after the radio was found) and cal.                                     *)
(***************************************************************************)
EXTENDS Naturals

CONSTANTS
  Radios,       \* radios of the house, each of a model of its own
  G2E,          \* of them, the one with the first profile
  Values,       \* what an operator sets a setting to
  OldSeed,      \* of them, the mode an earlier build gave a band unasked
  StartDisturb  \* bound: changes by the operator

\* cfg_group of the radio's profile: the first profile has the group that was there
\* before there were others, and it stands for no radio.
Legacy   == "tx"
Group(r) == IF r = G2E THEN Legacy ELSE r
Groups   == {Group(r) : r \in Radios} \cup {Legacy}

Absent  == "absent"   \* a key that is not in the file
Zero    == "zero"     \* what memset leaves in the App
Default == "default"  \* built in
Safe    == "safe"     \* PA off, 1 W

Off      == "off"        \* no session
NotFound == "not found"  \* discovery found nothing it may use
Failed   == "failed"     \* the radio was found, its link did not open

StartAssumption ==
  /\ Radios \cap {Legacy, Off, NotFound, Failed} = {}
  /\ OldSeed \in Values
  /\ Values \cap {Absent, Zero, Default, Safe} = {} /\ StartDisturb \in Nat

VARIABLES
  file,      \* the configuration file
  app,       \* the App of this session
  radio,     \* the radio that is on, or the reason why none is
  timer,     \* a save is scheduled
  chosen,    \* what the operator last chose, as the file must have it
  unsaved,   \* and with the changes of this session
  changes

vars == <<file, app, radio, timer, chosen, unsaved, changes>>

Shared   == {"plain", "mode", "filter"}
Setting  == Values \cup {Zero, Default}
CalOf    == Values \cup {Safe, Default}
Choices  == [shared : [Shared -> Setting], cal : [Groups -> CalOf]]

TypeOK ==
  /\ file \in [shared : [Shared -> Setting], marked : BOOLEAN, cal : [Groups -> CalOf \cup {Absent}]]
  /\ app \in [shared : [Shared -> Setting], cal : CalOf, group : Groups]
  /\ radio \in Radios \cup {Off, NotFound, Failed}
  /\ timer \in BOOLEAN /\ chosen \in Choices /\ unsaved \in Choices
  /\ changes \in 0..StartDisturb

NoApp == [shared |-> [s \in Shared |-> Zero], cal |-> Default, group |-> Legacy]

\* The calibration a radio starts with when its group is not in the file.
FirstCal(g) == IF g = Legacy THEN Default ELSE Safe

\* No file, or one of an earlier build: no marker, and a mode that nobody chose.
Init ==
  /\ \E m \in {Default, OldSeed} :
       file = [shared |-> [s \in Shared |-> IF s = "mode" THEN m ELSE Default],
               marked |-> FALSE, cal |-> [g \in Groups |-> Absent]]
  /\ app = NoApp /\ radio = Off /\ timer = FALSE
  /\ chosen = [shared |-> [s \in Shared |-> Default], cal |-> [g \in Groups |-> FirstCal(g)]]
  /\ unsaved = chosen /\ changes = 0

-----------------------------------------------------------------------------
(* Reading.                                                                *)

\* Mutant: a radio without a group of its own starts with what the first one has.
Inherited(g) == IF file.cal[g] # Absent THEN file.cal[g]
                ELSE IF file.cal[Legacy] # Absent THEN file.cal[Legacy] ELSE Default

\* settings_load and settings_load_txdev, over the profile's own defaults.
LoadedCal(g) == IF file.cal[g] # Absent THEN file.cal[g] ELSE FirstCal(g)

\* seed_lsb_migrates: the old seed in an unmarked file was nobody's choice, in a marked
\* one it is the operator's.
Migrated(mode, marked) == IF ~marked /\ mode = OldSeed THEN Default ELSE mode

\* settings_load: the file's value of every key it has, over the default.
Loaded == file.shared

\* start_radio up to the discovery: everything but the filters, and the calibration
\* of the first radio.
Early ==
  [shared |-> [s \in Shared |-> CASE s = "filter" -> Zero
                                  [] s = "mode"   -> Migrated(Loaded[s], file.marked)
                                  [] OTHER        -> Loaded[s]],
   cal |-> LoadedCal(Legacy), group |-> Legacy]

\* And after it: the profile of the radio, its calibration, the filters.
Late(r) ==
  [Early EXCEPT !.shared["filter"] = Loaded["filter"],
                !.cal = LoadedCal(Group(r)), !.group = Group(r)]

\* start_radio finds nothing it may use: the window opens all the same.
StartNotFound ==
  /\ radio = Off
  /\ radio' = NotFound /\ app' = Early
  /\ UNCHANGED <<file, timer, chosen, unsaved, changes>>

\* Or a radio, whose link may not open.
StartFound(r, opens) ==
  /\ radio = Off
  /\ radio' = IF opens THEN r ELSE Failed
  /\ app' = Late(r)
  /\ UNCHANGED <<file, timer, chosen, unsaved, changes>>

-----------------------------------------------------------------------------
(* The session.                                                            *)

\* A handler of the main window, the preferences or the TCI server: the App,
\* and a save in a second.
Change(s, v) ==
  /\ radio # Off /\ changes < StartDisturb /\ app.shared[s] # v
  /\ app' = [app EXCEPT !.shared[s] = v]
  /\ timer' = TRUE
  /\ unsaved' = [unsaved EXCEPT !.shared[s] = v]
  /\ changes' = changes + 1
  /\ UNCHANGED <<file, radio, chosen>>

\* Drive, PA calibration, wattmeter trim, PureSignal's attenuator.
Calibrate(v) ==
  /\ radio # Off /\ changes < StartDisturb /\ app.cal # v
  /\ app' = [app EXCEPT !.cal = v]
  /\ timer' = TRUE
  /\ unsaved' = [unsaved EXCEPT !.cal[app.group] = v]
  /\ changes' = changes + 1
  /\ UNCHANGED <<file, radio, chosen>>

\* app_to_settings and settings_save: all of the App, the calibration in the group of
\* the radio; the other groups of the file are kept.
Written ==
  [file EXCEPT !.shared = app.shared, !.marked = TRUE, !.cal[app.group] = app.cal]

\* do_save_cb, which does not try again when it cannot write.
Save(works) ==
  /\ timer
  /\ timer' = FALSE
  /\ IF works THEN file' = Written /\ chosen' = unsaved ELSE UNCHANGED <<file, chosen>>
  /\ UNCHANGED <<app, radio, unsaved, changes>>

\* The run loop ends, also for do_restart: main saves and takes everything down.
Quit ==
  /\ radio # Off
  /\ file' = Written /\ chosen' = unsaved
  /\ radio' = Off /\ app' = NoApp /\ timer' = FALSE
  /\ UNCHANGED <<unsaved, changes>>

\* A crash: what was not saved is lost.
Crash ==
  /\ radio # Off
  /\ unsaved' = chosen
  /\ radio' = Off /\ app' = NoApp /\ timer' = FALSE
  /\ UNCHANGED <<file, chosen, changes>>

Next ==
  \/ StartNotFound
  \/ \E r \in Radios, opens \in BOOLEAN : StartFound(r, opens)
  \/ \E s \in Shared, v \in Values : Change(s, v)
  \/ \E v \in Values : Calibrate(v)
  \/ \E works \in BOOLEAN : Save(works)
  \/ Quit \/ Crash

Spec == Init /\ [][Next]_vars

-----------------------------------------------------------------------------
(* Correctness.                                                            *)

IsOn == radio \in Radios

\* A radio comes back as the operator left it: with the calibration made on it, or
\* the safe one, and never with another radio's; in the mode last chosen, which the
\* migration of the old seed does not touch (gui.c:455-460); and all this over starts
\* that found no radio, writes that failed and crashes (tx_cal_from_settings,
\* settings_save).
SettingsReturn ==
  IsOn => /\ app.cal = unsaved.cal[Group(radio)]
          /\ \A s \in {"plain", "mode"} : app.shared[s] = unsaved.shared[s]

\* The same of the filters, as settings.h:3-4 says of the operating state and
\* gui.c:7379 of the failure paths.
FiltersReturn == IsOn => app.shared["filter"] = unsaved.shared["filter"]

-----------------------------------------------------------------------------
(* What makes it so: an inductive invariant.                               *)

Types ==
  /\ file \in [shared : [Shared -> Setting], marked : BOOLEAN, cal : [Groups -> CalOf \cup {Absent}]]
  /\ app \in [shared : [Shared -> Setting], cal : CalOf, group : Groups]
  /\ radio \in Radios \cup {Off, NotFound, Failed}
  /\ timer \in BOOLEAN /\ chosen \in Choices /\ unsaved \in Choices

\* The next start reads from the file what was last chosen; in a session the App is
\* what was chosen with what was changed since, and the calibration of every group
\* but the App's is as the file has it.
ReturnInv ==
  /\ Types
  /\ chosen.shared["plain"] = file.shared["plain"]
  /\ chosen.shared["mode"] = Migrated(file.shared["mode"], file.marked)
  /\ \A g \in Groups : chosen.cal[g] = LoadedCal(g)
  /\ radio = Off => unsaved = chosen /\ ~timer
  /\ radio # Off =>
       /\ \A s \in {"plain", "mode"} : app.shared[s] = unsaved.shared[s]
       /\ app.cal = unsaved.cal[app.group]
       /\ \A g \in Groups \ {app.group} : unsaved.cal[g] = chosen.cal[g]
  /\ IsOn => app.group = Group(radio)
=============================================================================
