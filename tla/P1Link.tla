-------------------------------- MODULE P1Link --------------------------------
(***************************************************************************)
(* The Protocol 1 link, protocol1.c.  The whole configuration of the radio *)
(* rides in the packets that carry the transmit samples: every packet has  *)
(* MOX and the general word, and one register of a round robin.  Frequency, *)
(* key state and PureSignal are set by the GUI and the feed thread; the    *)
(* sender thread takes them as they are when it builds a packet.  A link   *)
(* with PureSignal has four receivers and a longer round, so switching     *)
(* PureSignal restarts it.                                                 *)
(*                                                                         *)
(* Transmit samples are counted in packets; a packet's worth carries the   *)
(* over it was made in.  Register values are what they are computed from.  *)
(***************************************************************************)
EXTENDS Naturals, Sequences

CONSTANTS
  Dials,        \* frequencies of either VFO
  Drives,       \* drive levels of an over
  Atts,         \* PureSignal attenuator settings
  RingMax,      \* TXRING_SAMPLES, in packets
  P1Disturb     \* bound: changes of the configuration

P1Assumption ==
  /\ {} \notin {Dials, Drives, Atts} /\ RingMax \in Nat \ {0} /\ P1Disturb \in Nat

VARIABLES
  dial, txDial, \* s_freq_hz, s_tx_freq_hz
  ps,           \* s_ps, or PsOff
  tx,           \* s_tx_state: s_tx_on, mox and the drive
  nrx,          \* s_nrx
  ring,         \* s_txring, as the overs its samples were made in
  keying, over, \* the gate's last decision, and the parity of the over
  link,         \* where p1_rx_start and p1_rx_stop are
  at,           \* where the sender thread is
  step,         \* its rr
  payload,      \* what it took from the ring, and MOX of the frame built
  spaced,       \* the sender has finished a packet since the last gate slot
  radio,        \* registers of the radio
  calm,         \* packets delivered since anything last changed
  changes       \* how often the GUI changed the configuration

dialVars == <<dial, txDial>>
overVars == <<keying, over>>
linkVars == <<nrx, link>>
sendVars == <<at, step, payload>>
vars     == <<dialVars, ps, tx, ring, overVars, linkVars, sendVars, spaced, radio, calm, changes>>

PsOff   == "off"
PsNrx   == 4                \* PS_NRX
NoIq    == 2
TxOff   == [on |-> FALSE, mox |-> FALSE, drive |-> 0]
Fixed   == 5 + 2 + 3        \* the registers after the receivers', and step 0
Cycle   == nrx + Fixed
MaxPs   == PsNrx + Fixed
NoFrame == [iq |-> NoIq, mox |-> FALSE]

Rx        == <<"rx1", "rx2", "rx3", "rx4">>
Registers == {"tx", "drive", "gain", "att", "rest"} \cup {Rx[c] : c \in 1..PsNrx}

-----------------------------------------------------------------------------
(* The round robin: p1_build_cc_round_robin.                               *)

Keyed == tx.on /\ tx.mox

\* Mutant: the steps after the receivers' are counted as if there were one.
RegisterOfOneRx(s) ==
  CASE s = 0 -> "tx"
    [] s \in 1..nrx -> Rx[s]
    [] s = 2 /\ nrx = 1 -> "drive"
    [] s = 3 /\ nrx = 1 -> "gain"
    [] s = 5 -> "att"
    [] OTHER -> "rest"

\* The register of a step.
Register(s) ==
  CASE s = 0 -> "tx"
    [] s \in 1..nrx -> Rx[s]
    [] s = nrx + 1 -> "drive"
    [] s = nrx + 2 -> "gain"
    [] s = nrx + 4 -> "att"
    [] OTHER -> "rest"

\* Its value: the third and fourth receiver follow the transmitter, the drive is
\* nought without a TX state, the LNA is the feedback attenuator while keyed.
Value(r) ==
  CASE r = "tx" -> txDial
    [] r \in {Rx[c] : c \in 1..2} -> dial
    [] r \in {Rx[c] : c \in 3..PsNrx} -> txDial
    [] r = "drive" -> IF tx.on THEN tx.drive ELSE 0
    [] r = "gain" -> [ps |-> ps # PsOff, att |-> IF ps # PsOff /\ Keyed THEN ps ELSE "lna"]
    [] r = "att" -> ps
    [] r = "rest" -> 0

NextStep(s) == (s + 1) % Cycle

TypeOK ==
  /\ {dial, txDial} \subseteq Dials /\ ps \in {PsOff} \cup Atts
  /\ tx \in [on : BOOLEAN, mox : BOOLEAN, drive : {0} \cup Drives]
  /\ nrx \in {1, PsNrx} /\ ring \in Seq(0..1) /\ Len(ring) <= RingMax
  /\ link \in {"on", "stop", "join", "off", "prime"}
  /\ at \in {"none", "top", "slot", "frame", "send"} /\ step \in 0..MaxPs - 1
  /\ payload \in [iq : 0..2, mox : BOOLEAN] /\ keying \in BOOLEAN /\ over \in 0..1 /\ spaced \in BOOLEAN
  /\ DOMAIN radio = Registers /\ calm \in 0..MaxPs /\ changes \in 0..P1Disturb

Init ==
  /\ dial \in Dials /\ txDial = dial /\ ps = PsOff /\ tx = TxOff
  /\ nrx = 1 /\ ring = <<>> /\ keying = FALSE /\ over = 0
  /\ link = "on" /\ at = "top" /\ step = 0 /\ payload = NoFrame /\ spaced = TRUE
  /\ radio = [r \in Registers |-> Value(r)]
  /\ calm = MaxPs /\ changes = 0

-----------------------------------------------------------------------------
(* The GUI: p1_set_frequency, p1_set_tx_frequency, p1_set_ps.              *)

Change == changes < P1Disturb /\ changes' = changes + 1 /\ calm' = 0

SetFrequency(f) ==
  /\ Change /\ dial' = f
  /\ UNCHANGED <<txDial, ps, tx, ring, overVars, linkVars, sendVars, spaced, radio>>

SetTxFrequency(f) ==
  /\ Change /\ txDial' = f
  /\ UNCHANGED <<dial, ps, tx, ring, overVars, linkVars, sendVars, spaced, radio>>

\* ps_apply: the wire state, and a restart of the link when the count of
\* receivers is to change.
SetPs(p) ==
  /\ link = "on" /\ p # ps
  /\ Change /\ ps' = p
  /\ link' = IF (p # PsOff) # (nrx > 1) THEN "stop" ELSE link
  /\ UNCHANGED <<dialVars, tx, nrx, ring, overVars, sendVars, spaced, radio>>

\* p1_rx_stop: unkey first, then end the sender ...
Stop ==
  /\ link = "stop"
  /\ tx' = [tx EXCEPT !.on = FALSE] /\ calm' = 0
  /\ link' = "join"
  /\ UNCHANGED <<dialVars, ps, ring, overVars, nrx, sendVars, spaced, radio, changes>>

\* ... and wait for it.
Join ==
  /\ link = "join" /\ at = "none"
  /\ link' = "off"
  /\ UNCHANGED <<dialVars, ps, tx, ring, overVars, nrx, sendVars, spaced, radio, calm, changes>>

\* p1_rx_start: the count of receivers is latched, TX is off, the ring empty; then
\* two packets are sent to prime the first two registers.
Start ==
  /\ link = "off"
  /\ nrx' = IF ps = PsOff THEN 1 ELSE PsNrx
  /\ tx' = TxOff /\ ring' = <<>> /\ calm' = 0
  /\ link' = "prime"
  /\ UNCHANGED <<dialVars, ps, overVars, sendVars, spaced, radio, changes>>

Prime ==
  /\ link = "prime"
  /\ radio' = [r \in Registers |-> IF r \in {Register(0), Register(1)} THEN Value(r) ELSE radio[r]]
  /\ link' = "on" /\ at' = "top" /\ step' = 0
  /\ UNCHANGED <<dialVars, ps, tx, ring, overVars, nrx, payload, spaced, calm, changes>>

-----------------------------------------------------------------------------
(* The feed thread.                                                        *)

\* Mutant: what the last over left in the ring stays.
StaleRing == ring

FreshRing == <<>>

\* engine_set_tx_state at a gate slot.  A slot takes longer than the sender needs
\* to send a packet it has built.
SetTxState(on, drive) ==
  /\ spaced
  /\ tx' = IF on THEN [on |-> TRUE, mox |-> TRUE, drive |-> drive] ELSE [tx EXCEPT !.on = FALSE]
  /\ calm' = IF tx' = tx THEN calm ELSE 0
  /\ ring' = IF on /\ ~tx.on THEN FreshRing ELSE ring
  /\ over' = IF on /\ ~keying THEN 1 - over ELSE over
  /\ keying' = on
  /\ spaced' = (at \in {"none", "top", "slot"})
  /\ UNCHANGED <<dialVars, ps, linkVars, sendVars, radio, changes>>

\* p1_tx_iq_push: the chain runs while keyed; without room the samples are gone.
Push ==
  /\ keying /\ Len(ring) < RingMax
  /\ ring' = Append(ring, over)
  /\ UNCHANGED <<dialVars, ps, tx, overVars, linkVars, sendVars, spaced, radio, calm, changes>>

-----------------------------------------------------------------------------
(* The sender thread.                                                      *)

Running == link \in {"on", "stop"}

\* It looks at s_running, then sleeps to the grid.
Top ==
  /\ at = "top"
  /\ at' = IF Running THEN "slot" ELSE "none"
  /\ UNCHANGED <<dialVars, ps, tx, ring, overVars, linkVars, step, payload, spaced, radio, calm,
                 changes>>

\* Keyed it takes a packet's worth, waiting 20 ms at most; a state edge ends the
\* wait.  Unkeyed it sends zeros.
Take ==
  /\ at = "slot"
  /\ IF Keyed /\ ring # <<>>
       THEN payload' = [payload EXCEPT !.iq = Head(ring)] /\ ring' = Tail(ring)
       ELSE payload' = [payload EXCEPT !.iq = NoIq] /\ UNCHANGED ring
  /\ at' = "frame"
  /\ UNCHANGED <<dialVars, ps, tx, overVars, linkVars, step, spaced, radio, calm, changes>>

\* The first frame of send_ep2: the general word, and MOX.
General ==
  /\ at = "frame"
  /\ payload' = [payload EXCEPT !.mox = Keyed]
  /\ at' = "send"
  /\ UNCHANGED <<dialVars, ps, tx, ring, overVars, linkVars, step, spaced, radio, calm, changes>>

\* The second frame, with the next register, and the packet is sent: the network
\* delivers or loses it.
SendEp2(lost) ==
  /\ at = "send"
  /\ lost => changes < P1Disturb
  /\ changes' = IF lost THEN changes + 1 ELSE changes
  /\ radio' = IF lost THEN radio ELSE [radio EXCEPT ![Register(step)] = Value(Register(step))]
  /\ calm' = IF lost THEN 0 ELSE IF calm < MaxPs THEN calm + 1 ELSE calm
  /\ step' = NextStep(step)
  /\ payload' = NoFrame /\ spaced' = TRUE
  /\ at' = "top"
  /\ UNCHANGED <<dialVars, ps, tx, ring, overVars, linkVars>>

Gui ==
  \/ \E f \in Dials : SetFrequency(f) \/ SetTxFrequency(f)
  \/ \E p \in {PsOff} \cup Atts : SetPs(p)
  \/ Stop \/ Join \/ Start \/ Prime

Feed   == Push \/ \E on \in BOOLEAN, d \in Drives : SetTxState(on, d)
Sender == Top \/ Take \/ General \/ \E lost \in BOOLEAN : SendEp2(lost)

Next == Gui \/ Feed \/ Sender

Spec == Init /\ [][Next]_vars

-----------------------------------------------------------------------------
(* Correctness.                                                            *)

\* One round after the last change, and the last loss, the radio has every
\* register as it should be, in a link of one receiver and of four, across
\* restarts: nothing is announced, only the round robin carries it
\* (p1_build_cc_round_robin, sender_thread, p1_rx_start).
RoundConverges ==
  (calm >= Cycle /\ link = "on") =>
    \A r \in {"tx", "drive", "gain", "att"} \cup {Rx[c] : c \in 1..nrx} : radio[r] = Value(r)

\* A packet with MOX in either frame never carries samples of another over than
\* the current one: the ring is emptied on the key edge, whether the last state
\* was unkeyed or off (p1_set_tx_state, p1_rx_start).
KeyedIqIsFresh ==
  (at = "send" /\ (payload.mox \/ Keyed)) => payload.iq \in {NoIq, over}

-----------------------------------------------------------------------------
(* What makes it so: two inductive invariants.                             *)

\* A keyed radio's ring has samples of the over only, for the over changes only when
\* the ring is emptied.  Samples that were taken are of the over, too, until they are
\* sent: if the over ends meanwhile, the next one does not begin before.
FreshInv ==
  /\ tx \in [on : BOOLEAN, mox : BOOLEAN, drive : {0} \cup Drives]
  /\ ring \in Seq(0..1) /\ over \in 0..1 /\ keying \in BOOLEAN /\ spaced \in BOOLEAN
  /\ payload \in [iq : 0..2, mox : BOOLEAN]
  /\ tx.on => keying /\ \A i \in 1..Len(ring) : ring[i] = over
  /\ at \in {"frame", "send"} /\ payload.iq # NoIq => payload.iq = over /\ (keying \/ ~spaced)

\* How many packets ago the round robin was at step s.
Age(s) == IF s < step THEN step - s ELSE step + Cycle - s

\* What was sent since the last change or loss is in the radio.
RoundInv ==
  /\ nrx \in {1, PsNrx} /\ step \in Nat /\ calm \in 0..MaxPs /\ DOMAIN radio = Registers
  /\ link \in {"on", "stop", "join", "off", "prime"}
  /\ link \in {"off", "prime"} => at = "none"
  /\ link = "prime" => calm = 0
  /\ link \in {"on", "stop", "join"} =>
       /\ step < Cycle
       /\ \A s \in 0..Cycle - 1 : Age(s) <= calm => radio[Register(s)] = Value(Register(s))
=============================================================================
