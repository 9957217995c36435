------------------------------ MODULE TciServer ------------------------------
(***************************************************************************)
(* The TCI server, tci_server.c: clients in a table of slots, connections  *)
(* opened and closed by the service thread, their commands executed by the *)
(* main loop from a queue of idle jobs, and a reporter that polls the      *)
(* radio and acts on what changed since the last look.  Of the             *)
(* commands the model has those with a memory: trx with its two sources,   *)
(* and the start and stop of a stream.  A job holds a slot, not a          *)
(* connection: a job may outlive its client and meet the next one.         *)
(*                                                                         *)
(* The MOX button is the key's intent; the transmit thread follows it when *)
(* the frequency allows.                                                   *)
(***************************************************************************)
EXTENDS Integers, Sequences, FiniteSets, SequencesExt

CONSTANTS
  Clients,     \* the client table, 1..TCI_MAX_CLIENTS
  TciDisturb   \* bound: connections, commands, button presses and the like

TciAssumption ==
  Clients \subseteq Nat \ {0} /\ Clients # {} /\ IsFiniteSet(Clients) /\ TciDisturb \in Nat

VARIABLES
  run,         \* s_run
  cli,         \* s_cli: inuse, tx_owner, the subscription
  trxClient,   \* s_trx_client
  active,      \* s_au_active, s_iq_active
  idles,       \* the main loop's idle jobs
  hand,        \* the command the main loop is at, and how far
  cut,         \* a client has left in the middle of its own command
  last,        \* s_last.trx
  button,      \* the MOX button, and who pressed it
  source,      \* s_ext_src
  inBand,      \* the transmit frequency is one the gate accepts
  keyed,       \* tx_run_keyed()
  stirs        \* how many inputs came

clients == <<cli, trxClient, active>>
radio   == <<button, source>>
work    == <<hand, cut>>
vars    == <<run, clients, idles, work, last, radio, inBand, keyed, stirs>>

NoSlot == 0
Idle   == [slot |-> NoSlot, cmd |-> "none", at |-> "free"]
Free   == [inuse |-> FALSE, owner |-> FALSE, sub |-> FALSE]
Fresh  == [Free EXCEPT !.inuse = TRUE]

Commands == {"mic", "tci", "off", "listen", "mute"}
Jobs     == [job : {"text"}, slot : Clients, cmd : Commands]
            \cup [job : {"lost"}, slot : {NoSlot}, cmd : {"none"}]

Job(kind, s, c) == [job |-> kind, slot |-> s, cmd |-> c]
Lost            == Job("lost", NoSlot, "none")

\* The state of the key as s_last has it.
Word(on) == IF on THEN "on" ELSE "off"

Subscribed(c) == {s \in Clients : c[s].inuse /\ c[s].sub}

TypeOK ==
  /\ run \in BOOLEAN /\ inBand \in BOOLEAN /\ keyed \in BOOLEAN
  /\ cli \in [Clients -> [inuse : BOOLEAN, owner : BOOLEAN, sub : BOOLEAN]]
  /\ trxClient \in Clients \cup {NoSlot} /\ active \in Int
  /\ idles \in Seq(Jobs) /\ cut \in BOOLEAN
  /\ hand \in {Idle} \cup [slot : Clients, cmd : Commands, at : {"begun", "keyed"}]
  /\ last \in {"none", "on", "off"} /\ button \in {"out", "operator", "client"}
  /\ source \in {"mic", "tci"} /\ stirs \in 0..TciDisturb

Init ==
  /\ run = TRUE /\ cli = [s \in Clients |-> Free] /\ trxClient = NoSlot /\ active = 0
  /\ idles = <<>> /\ hand = Idle /\ cut = FALSE /\ last = "none"
  /\ button = "out" /\ source = "mic" /\ inBand = TRUE /\ keyed = FALSE /\ stirs = 0

-----------------------------------------------------------------------------
(* The service thread.                                                     *)

Stir == stirs < TciDisturb /\ stirs' = stirs + 1

\* LWS_CALLBACK_ESTABLISHED takes the first free slot, or refuses.
Established(s) ==
  /\ run /\ Stir
  /\ ~cli[s].inuse /\ \A r \in Clients : ~cli[r].inuse => s <= r
  /\ cli' = [cli EXCEPT ![s] = Fresh]
  /\ UNCHANGED <<run, trxClient, active, idles, work, last, radio, inBand, keyed>>

\* LWS_CALLBACK_RECEIVE of a text frame.
Receive(s, c) ==
  /\ run /\ Stir /\ cli[s].inuse
  /\ idles' = Append(idles, Job("text", s, c))
  /\ UNCHANGED <<run, clients, work, last, radio, inBand, keyed>>

\* LWS_CALLBACK_CLOSED: a client that owns the transmit audio or is on record as
\* the keyer leaves a job that unkeys.  Its subscription stays set in the slot.
Blamed(s) == cli[s].owner \/ trxClient = s
Gone(c)   == [c EXCEPT !.inuse = FALSE, !.owner = FALSE]

\* Mutant: a client that leaves stays counted.
StaysCounted(s) == active

\* The streams without the one that leaves.
ActiveWithout(s) == IF cli[s].sub THEN active - 1 ELSE active

Closed(s) ==
  /\ run /\ Stir /\ cli[s].inuse
  /\ cli' = [cli EXCEPT ![s] = Gone(@)] /\ active' = ActiveWithout(s)
  /\ trxClient' = IF Blamed(s) THEN NoSlot ELSE trxClient
  /\ idles' = IF Blamed(s) THEN Append(idles, Lost) ELSE idles
  /\ cut' = (cut \/ hand.slot = s)
  /\ UNCHANGED <<run, hand, last, radio, inBand, keyed>>

-----------------------------------------------------------------------------
(* The main loop: idle jobs, in their order.                               *)

MainFree == hand = Idle
Take(kind) == MainFree /\ idles # <<>> /\ Head(idles).job = kind /\ idles' = Tail(idles)
Slot == Head(idles).slot
Cmd  == Head(idles).cmd

\* process_payload_idle drops the text of a slot that is not in use.  It looks once
\* and without the lock: what follows may find the client gone.
Payload ==
  /\ Take("text")
  /\ hand' = IF run /\ cli[Slot].inuse THEN [slot |-> Slot, cmd |-> Cmd, at |-> "begun"] ELSE Idle
  /\ UNCHANGED <<run, clients, cut, last, radio, inBand, keyed, stirs>>

At(place) == hand.at = place

\* audio_start and audio_stop: idempotent on the slot.
Stream ==
  /\ At("begun") /\ hand.cmd \in {"listen", "mute"} /\ hand' = Idle
  /\ LET s  == hand.slot
         on == hand.cmd = "listen"
     IN  /\ cli' = [cli EXCEPT ![s].sub = on]
         /\ active' = IF cli[s].sub = on THEN active ELSE IF on THEN active + 1 ELSE active - 1
  /\ UNCHANGED <<run, trxClient, idles, cut, last, radio, inBand, keyed, stirs>>

\* Another client owns the transmit audio.
Busy(s) == \E r \in Clients \ {s} : cli[r].inuse /\ cli[r].owner

\* gtk_toggle_button_set_active: a button that is in already is left alone.
Pressed == IF button = "out" THEN "client" ELSE button

\* trx up to the key: the owner is entered and the source is switched first.
Trx ==
  /\ At("begun") /\ hand.cmd \in {"mic", "tci", "off"} /\ hand' = [hand EXCEPT !.at = "keyed"]
  /\ LET takes == hand.cmd = "tci" /\ ~Busy(hand.slot)
     IN  /\ cli' = IF takes THEN [cli EXCEPT ![hand.slot].owner = TRUE] ELSE cli
         /\ source' = IF takes THEN "tci" ELSE source
         /\ button' = CASE hand.cmd = "off" -> "out"
                        [] takes \/ hand.cmd = "mic" -> Pressed
                        [] OTHER -> button
  /\ UNCHANGED <<run, trxClient, active, idles, cut, last, inBand, keyed, stirs>>

\* Its end: the keyer is put on record, whoever it was.
Recorded(s, c) == IF c = "off" THEN NoSlot ELSE s
TrxEnd ==
  /\ At("keyed") /\ hand' = Idle
  /\ LET s == hand.slot
         leaves == hand.cmd = "off" /\ cli[s].owner
     IN  /\ cli' = IF leaves THEN [cli EXCEPT ![s].owner = FALSE] ELSE cli
         /\ trxClient' = Recorded(s, hand.cmd)
         /\ source' = IF leaves THEN "mic" ELSE source
  /\ UNCHANGED <<run, active, idles, cut, last, button, inBand, keyed, stirs>>

\* tx_owner_lost_idle.
OwnerLost ==
  /\ Take("lost")
  /\ button' = IF run THEN "out" ELSE button
  /\ source' = IF run THEN "mic" ELSE source
  /\ UNCHANGED <<run, clients, work, last, inBand, keyed, stirs>>

-----------------------------------------------------------------------------
(* The reporter, the operator, the transmit thread.                        *)

\* tci_reporter: the end of an over, seen at a look, clears the record of who keyed it.
Report ==
  /\ run /\ MainFree /\ last' = Word(keyed)
  /\ trxClient' = IF last # Word(keyed) /\ ~keyed THEN NoSlot ELSE trxClient
  /\ UNCHANGED <<run, cli, active, idles, work, radio, inBand, keyed, stirs>>

\* The operator's hand on the MOX button, and on the dial.
Press ==
  /\ MainFree /\ Stir /\ button' = IF button = "out" THEN "operator" ELSE "out"
  /\ UNCHANGED <<run, clients, idles, work, last, source, inBand, keyed>>

Qsy ==
  /\ MainFree /\ Stir /\ inBand' = ~inBand
  /\ UNCHANGED <<run, clients, idles, work, last, radio, keyed>>

\* The transmit thread's gate follows the button.
Follow ==
  /\ keyed # (button # "out" /\ inBand) /\ keyed' = ~keyed
  /\ UNCHANGED <<run, clients, idles, work, last, radio, inBand, stirs>>

-----------------------------------------------------------------------------
(* The preferences stop and start the server.                              *)

\* tci_apply and tci_server_stop: the owner of the transmit audio is unkeyed, the
\* connections are closed, the table is cleared.
Stop ==
  /\ run /\ MainFree /\ Stir /\ run' = FALSE
  /\ button' = IF \E s \in Clients : cli[s].owner THEN "out" ELSE button
  /\ source' = "mic"
  /\ LET others == {s \in Clients : cli[s].inuse /\ trxClient = s}   \* tx_owner is clear by now
     IN  idles' = idles \o [i \in 1..Cardinality(others) |-> Lost]
  /\ trxClient' = IF \E s \in Clients : cli[s].inuse /\ trxClient = s THEN NoSlot ELSE trxClient
  /\ cli' = [s \in Clients |-> Free] /\ active' = 0
  /\ UNCHANGED <<work, last, inBand, keyed>>

\* tci_server_start.
Start ==
  /\ ~run /\ MainFree /\ run' = TRUE
  /\ cli' = [s \in Clients |-> Free] /\ trxClient' = NoSlot /\ active' = 0 /\ last' = "none"
  /\ UNCHANGED <<idles, work, radio, inBand, keyed, stirs>>

Next ==
  \/ \E s \in Clients : Established(s)
  \/ \E s \in Clients, c \in Commands : Receive(s, c)
  \/ \E s \in Clients : Closed(s)
  \/ Payload \/ Stream \/ Trx \/ TrxEnd \/ OwnerLost
  \/ Report \/ Press \/ Qsy \/ Follow \/ Stop \/ Start

Spec == Init /\ [][Next]_vars

-----------------------------------------------------------------------------
(* Properties.                                                             *)

\* s_au_active, which the producers of a stream test, is the number of clients that
\* subscribed to it: through commands sent twice, commands that arrive after their
\* client left, a slot handed on and a server stopped with clients on it, as long as
\* no client leaves in the middle of its own command.
CountedUnlessCut == ~cut => active = Cardinality(Subscribed(cli))

\* "a dangling key with nobody responsible must never stay up" (tx_owner_lost_idle):
\* while a client's key is up, a client that is connected answers for it, or the
\* job that unkeys is on its way.
NoDanglingKey ==
  run /\ MainFree /\ keyed /\ button = "client"
    => \/ \E s \in Clients : cli[s].inuse /\ (cli[s].owner \/ trxClient = s)
       \/ Lost \in ToSet(idles)

-----------------------------------------------------------------------------
(* What makes it so: an inductive invariant.                               *)

\* Only a slot in use is subscribed or unsubscribed: the command the main loop is at
\* has its client still, unless it was cut.
CountInv ==
  /\ cli \in [Clients -> [inuse : BOOLEAN, owner : BOOLEAN, sub : BOOLEAN]]
  /\ active \in Int /\ cut \in BOOLEAN /\ idles \in Seq(Jobs)
  /\ hand \in {Idle} \cup [slot : Clients, cmd : Commands, at : {"begun", "keyed"}]
  /\ ~cut /\ hand # Idle => cli[hand.slot].inuse
  /\ CountedUnlessCut
=============================================================================
