------------------------------ MODULE TciClients ------------------------------
(***************************************************************************)
(* What the clients of the TCI server know of the radio, tci_server.c.  A  *)
(* client is told everything when it connects.  From then on it learns of  *)
(* a change in two ways: every command that sets something is answered to  *)
(* all clients with what the radio made of it, and a reporter polls the    *)
(* application, every 500 ms and at once when the frequency changes, and   *)
(* announces what differs from its last look.  The reporter's last look    *)
(* knows nothing of the answers.                                           *)
(*                                                                         *)
(* All this runs in the main loop, one handler at a time.  A client's      *)
(* messages are queued for the service thread in their order, so that what *)
(* a client will believe of an item is what was queued for it last: that   *)
(* is what the model keeps.                                                *)
(***************************************************************************)
EXTENDS Integers, FiniteSets

CONSTANTS
  Guests,        \* the client table
  Tunings,       \* frequencies
  HalfSpan,      \* half the DDC span: a dial beyond it recentres under CTUN
  Margin,        \* its edge, where the dial pins and takes the centre along
  Emissions, Widths, \* modes and passbands
  Polled,        \* settings of which the reporter keeps the last value
  Stored,        \* settings without a backend, kept by the echo table
  Amounts,       \* values of both
  Nothing,       \* no value: what a client knows before it is told
  ClientsDisturb \* bound: inputs

Tuning == {"dds", "if", "vfo", "vfo_b"}
Fixed  == Tuning \cup {"modulation", "rx_filter_band", "trx"}

ClientsAssumption ==
  /\ Tunings \subseteq Nat \ {0} /\ HalfSpan \in Nat /\ Margin \in 0..HalfSpan /\ ClientsDisturb \in Nat
  /\ {} \notin {Guests, Tunings, Emissions, Widths, Amounts} /\ Polled \cap Stored = {}
  /\ Fixed \cap (Polled \cup Stored) = {}

VARIABLES
  run,           \* s_run
  app,           \* the application, as the ops read it
  echo,          \* s_echo
  last,          \* s_last: what the reporter saw, or NotYet
  cli,           \* s_cli: inuse, and the handshakes still to come
  told,          \* what was queued last for each client of each item
  aside,         \* history: items announced as the reporter has not seen them
  stirs          \* how many inputs came

vars == <<run, app, echo, last, cli, told, aside, stirs>>

NotYet  == [valid |-> FALSE]

Watched == Fixed \cup Polled
Items   == Watched \cup Stored

\* The value of an item: tci_get_freq, centre, freq_b, tci_get_mode and the like.
Reading(a, i) ==
  CASE i = "dds"            -> a.centre
    [] i = "if"             -> a.freq - a.centre
    [] i = "vfo"            -> a.freq
    [] i = "vfo_b"          -> IF a.ofreq > 0 THEN a.ofreq ELSE a.freq
    [] i = "modulation"     -> a.mode
    [] i = "rx_filter_band" -> a.width
    [] i = "trx"            -> a.keyed
    [] OTHER                -> a.set[i]

Value(i) == IF i \in Stored THEN echo[i] ELSE Reading(app, i)

Empty == [inuse |-> FALSE, hellos |-> 0]

TypeOK ==
  /\ run \in BOOLEAN /\ stirs \in 0..ClientsDisturb
  /\ app \in [freq : Int, ofreq : Tunings \cup {0}, centre : Int, ctun : BOOLEAN,
              mode : Emissions, width : Widths, keyed : BOOLEAN, set : [Polled -> Amounts]]
  /\ echo \in [Stored -> Amounts]
  /\ last = NotYet \/ DOMAIN last = DOMAIN app
  /\ cli \in [Guests -> [inuse : BOOLEAN, hellos : 0..ClientsDisturb]]
  /\ DOMAIN told = Guests /\ \A c \in Guests : DOMAIN told[c] = Items
  /\ aside \subseteq Watched

Init ==
  /\ run = TRUE /\ last = NotYet /\ stirs = 0 /\ aside = {}
  /\ \E f \in Tunings, m \in Emissions, w \in Widths, v \in Amounts :
       /\ app = [freq |-> f, ofreq |-> 0, centre |-> f, ctun |-> FALSE, mode |-> m,
                 width |-> w, keyed |-> FALSE, set |-> [i \in Polled |-> v]]
       /\ echo = [i \in Stored |-> v]
  /\ cli = [c \in Guests |-> Empty] /\ told = [c \in Guests |-> [i \in Items |-> Nothing]]

-----------------------------------------------------------------------------
(* Telling.                                                                *)

\* tci_broadcast, items from the application a and the echo table e: cli_send drops
\* what is for a slot without a client.
Broadcast(t, items, a, e) ==
  [c \in Guests |-> [i \in Items |->
     IF cli[c].inuse /\ i \in items THEN IF i \in Stored THEN e[i] ELSE Reading(a, i)
     ELSE t[c][i]]]

\* Mutant: the offset is taken for the dial's, which with CTUN the centre moves too.
NewsOfTheDial(l, a) ==
  IF l = NotYet THEN Watched
  ELSE {i \in Watched : IF i = "if" THEN l.freq # a.freq ELSE Reading(l, i) # Reading(a, i)}

\* What differs from the last look, all of it at the first one.
News(l, a) == IF l = NotYet THEN Watched ELSE {i \in Watched : Reading(l, i) # Reading(a, i)}

\* tci_reporter sees the application as a.
Look(a) ==
  told' = Broadcast(told, News(last, a), a, echo) /\ last' = a /\ aside' = aside \ News(last, a)

\* The answer of a command, or a greeting, which tells the reporter nothing.
Unseen(items, a) == items \cap News(last, a)
Answer(items, a, e) ==
  /\ told' = Broadcast(told, items, a, e)
  /\ aside' = (aside \ items) \cup Unseen(items, a) /\ UNCHANGED last

\* A reporter's look from inside a command, then its answer.
LookAndAnswer(items, a) ==
  /\ told' = Broadcast(told, News(last, a) \cup items, a, echo)
  /\ last' = a /\ aside' = aside \ (News(last, a) \cup items)

-----------------------------------------------------------------------------
(* The application.  Tuning goes through engine_push_rx, whichever handler *)
(* it comes from, and that runs the reporter.                              *)

Within(n, lo, hi) == IF n < lo THEN lo ELSE IF n > hi THEN hi ELSE n

\* The centre nearest to c with which f is in the span, ctun_room.
Holding(c, f) == Within(c, f - (HalfSpan - Margin), f + (HalfSpan - Margin))

\* engine_set_frequency: with CTUN the centre stays while the dial has room.
Tuned(f) ==
  [app EXCEPT !.freq = f,
              !.centre = IF app.ctun /\ f - @ \in -HalfSpan..HalfSpan THEN Holding(@, f) ELSE f]

\* engine_set_centre keeps the dial in the span.
Centred(a, c) == [a EXCEPT !.centre = LET h == Holding(c, a.freq) IN IF h < 1 THEN 1 ELSE h]

\* tci_set_centre: without CTUN it is the dial that moves; with it, both do.
DdsSet(c) ==
  IF app.ctun
  THEN LET f == c + app.freq - app.centre
       IN  Centred([app EXCEPT !.freq = IF f > 0 THEN f ELSE 1], c)
  ELSE Tuned(c)

\* on_mode_toggled brings the filter its mode had last.
ModeSet(m, w) == IF m = app.mode THEN app ELSE [app EXCEPT !.mode = m, !.width = w]

Stir == stirs < ClientsDisturb /\ stirs' = stirs + 1

\* What the operator, or the transmit thread, changes without a word.
Silently(a) == app' = a /\ a # app /\ UNCHANGED <<last, told, aside>>

\* What the operator tunes: the application changes, and the reporter looks.
Aloud(a) == app' = a /\ IF run THEN Look(a) ELSE UNCHANGED <<last, told, aside>>

OperatorTunes ==
  /\ Stir /\ UNCHANGED <<run, echo, cli>>
  /\ \/ \E f \in Tunings : Aloud(Tuned(f))
     \/ app.ctun /\ \E c \in Tunings : Aloud(Centred(app, c))
     \/ Aloud([app EXCEPT !.ofreq = app.freq])
     \/ Aloud([app EXCEPT !.ctun = ~@, !.centre = IF app.ctun THEN app.freq ELSE @])

\* vfo_swap: both VFOs, and last the mode of the other one.
OperatorSwaps(m, w) ==
  /\ Stir /\ ~app.keyed /\ UNCHANGED <<run, echo, cli>>
  /\ LET f == IF app.ofreq > 0 THEN app.ofreq ELSE app.freq
     IN  Aloud([Tuned(f) EXCEPT !.ofreq = app.freq, !.mode = m,
                                !.width = IF m = app.mode THEN @ ELSE w])

OperatorSets ==
  /\ Stir /\ UNCHANGED <<run, echo, cli>>
  /\ \/ \E m \in Emissions, w \in Widths : Silently(ModeSet(m, w))
     \/ \E w \in Widths : Silently([app EXCEPT !.width = w])
     \/ \E i \in Polled, v \in Amounts : Silently([app EXCEPT !.set[i] = v])

\* The transmit thread keys or unkeys: MOX, TUNE, text or the pedal.
KeyFollows ==
  /\ Stir /\ Silently([app EXCEPT !.keyed = ~@]) /\ UNCHANGED <<run, echo, cli>>

\* The 500 ms timer.
Reporter == run /\ Look(app) /\ UNCHANGED <<run, app, echo, cli, stirs>>

-----------------------------------------------------------------------------
(* Connections.                                                            *)

\* LWS_CALLBACK_ESTABLISHED: the slot is in use at once, the handshake waits for the
\* main loop.
Established(c) ==
  /\ run /\ Stir /\ ~cli[c].inuse
  /\ cli' = [cli EXCEPT ![c] = [inuse |-> TRUE, hellos |-> @.hellos + 1]]
  /\ told' = [told EXCEPT ![c] = [i \in Items |-> Nothing]]
  /\ UNCHANGED <<run, app, echo, last, aside>>

\* send_initial_idle, unless the slot has no client by now: the whole state.
SendInitial(c) ==
  /\ cli[c].hellos > 0 /\ cli' = [cli EXCEPT ![c].hellos = @ - 1]
  /\ IF run /\ cli[c].inuse
     THEN /\ told' = [told EXCEPT ![c] = [i \in Items |-> Value(i)]]
          /\ aside' = aside \cup Unseen(Watched, app)
     ELSE UNCHANGED <<told, aside>>
  /\ UNCHANGED <<run, app, echo, last, stirs>>

Closed(c) ==
  /\ run /\ cli[c].inuse /\ cli' = [cli EXCEPT ![c].inuse = FALSE]
  /\ UNCHANGED <<run, app, echo, last, told, aside, stirs>>

\* tci_server_stop, and tci_server_start with a reporter and an echo table that start anew.
Stop ==
  /\ run /\ Stir /\ run' = FALSE
  /\ cli' = [c \in Guests |-> [cli[c] EXCEPT !.inuse = FALSE]]
  /\ UNCHANGED <<app, echo, last, told, aside>>

Start(dflt) ==
  /\ ~run /\ run' = TRUE /\ last' = NotYet /\ echo' = [i \in Stored |-> dflt]
  /\ aside' = {}
  /\ UNCHANGED <<app, cli, told, stirs>>

-----------------------------------------------------------------------------
(* Commands, tci_exec.                                                     *)

\* Some client sent a command, and its slot is in use.
Commanded == run /\ Stir /\ (\E c \in Guests : cli[c].inuse) /\ UNCHANGED <<run, cli>>

\* vfo, channel 0, and dds.
VfoOrDds ==
  /\ Commanded /\ UNCHANGED echo
  /\ \E f \in Tunings : \E a \in {Tuned(f), DdsSet(f)} :
       app' = a /\ LookAndAnswer({"dds", "if", "vfo"}, a)

\* if: the dial at an offset from the centre, nothing when it is there.
IfOffset(f) ==
  /\ Commanded /\ UNCHANGED echo
  /\ IF f = app.freq THEN Answer({"if", "vfo"}, app, echo) /\ UNCHANGED app
     ELSE app' = Tuned(f) /\ LookAndAnswer({"if", "vfo"}, Tuned(f))

\* vfo, channel 1.
VfoB(f) ==
  /\ Commanded /\ UNCHANGED echo
  /\ LET a == [app EXCEPT !.ofreq = f] IN app' = a /\ LookAndAnswer({"vfo_b"}, a)

\* modulation; a mode the radio has not leaves things as they are and is answered too.
Modulation ==
  /\ Commanded /\ UNCHANGED echo
  /\ \E m \in Emissions, w \in Widths : \E a \in {app, ModeSet(m, w)} :
       app' = a /\ Answer({"modulation"}, a, echo)

FilterBand(w) ==
  /\ Commanded /\ UNCHANGED echo
  /\ LET a == [app EXCEPT !.width = w] IN app' = a /\ Answer({"rx_filter_band"}, a, echo)

\* drive, tune_drive, volume, mute, cw_macros_speed and tune.
Setting(i, v) ==
  /\ Commanded /\ UNCHANGED echo
  /\ LET a == [app EXCEPT !.set[i] = v] IN app' = a /\ Answer({i}, a, echo)

\* trx answers with the key of this moment: the transmit thread follows later.
Trx == Commanded /\ UNCHANGED <<app, echo>> /\ Answer({"trx"}, app, echo)

\* echo_exec.
EchoExec(i, v) ==
  /\ Commanded /\ UNCHANGED app
  /\ echo' = [echo EXCEPT ![i] = v] /\ Answer({i}, app, echo')

-----------------------------------------------------------------------------
Next ==
  \/ OperatorTunes \/ OperatorSets \/ (\E m \in Emissions, w \in Widths : OperatorSwaps(m, w))
  \/ KeyFollows \/ Reporter \/ Stop \/ (\E v \in Amounts : Start(v))
  \/ \E c \in Guests : Established(c) \/ SendInitial(c) \/ Closed(c)
  \/ VfoOrDds \/ Modulation \/ Trx
  \/ \E f \in Tunings : IfOffset(f) \/ VfoB(f)
  \/ \E w \in Widths : FilterBand(w)
  \/ \E i \in Polled, v \in Amounts : Setting(i, v)
  \/ \E i \in Stored, v \in Amounts : EchoExec(i, v)

Spec == Init /\ [][Next]_vars

-----------------------------------------------------------------------------
\* A client that was greeted knows every item as it is, or the reporter is about to say
\* it; dial, centre and offset it knows always.  The one thing it may be wrong on is what
\* was changed back between an announcement and the reporter's look, which compares with
\* its last look and not with what was announced (docs/TCI-SCOPE.md:151).
ClientsKnow ==
  \A c \in Guests : run /\ cli[c].inuse /\ cli[c].hellos = 0 =>
    \A i \in Items :
      \/ told[c][i] = Value(i)
      \/ i \in Watched \ Tuning /\ i \in News(last, app) \cup aside

-----------------------------------------------------------------------------
(* What makes it so: an inductive invariant.                               *)

App == [freq : Int, ofreq : Int, centre : Int, ctun : BOOLEAN, mode : Emissions, width : Widths,
        keyed : BOOLEAN, set : [Polled -> Amounts]]

Types ==
  /\ app \in App /\ (last = NotYet \/ last \in App) /\ run \in BOOLEAN
  /\ cli \in [Guests -> [inuse : BOOLEAN, hellos : Nat]] /\ DOMAIN told = Guests
  /\ DOMAIN echo = Stored

\* Without a server there are no clients.
ServedOnly == ~run => \A c \in Guests : ~cli[c].inuse

\* The reporter is never behind on the tuning.
TuningIsSeen ==
  run /\ last # NotYet => \A i \in Tuning : Reading(last, i) = Reading(app, i) /\ i \notin aside

\* A client that was greeted knows the tuning and the echo table, and of the rest what
\* the reporter saw last, but for what is announced aside.
Greeted(c) == run /\ cli[c].inuse /\ cli[c].hellos = 0
Knows(c) ==
  /\ \A i \in Stored : told[c][i] = echo[i]
  /\ \A i \in Tuning : told[c][i] = Reading(app, i)
  /\ \A i \in Watched : last = NotYet \/ i \in aside \/ told[c][i] = Reading(last, i)

KnowInv == Types /\ ServedOnly /\ TuningIsSeen /\ \A c \in Guests : Greeted(c) => Knows(c)
=============================================================================
