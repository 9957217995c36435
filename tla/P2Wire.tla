------------------------------- MODULE P2Wire -------------------------------
(***************************************************************************)
(* The protocol 2 control plane (engine/protocol2.c): how a configuration  *)
(* that two threads write reaches a radio that only knows the last packet  *)
(* of each kind it received.                                               *)
(*                                                                         *)
(* The setters store the new value under a lock and then, in a second      *)
(* critical section, raise a kick.  One timer thread sends everything: on  *)
(* a kick the whole burst General, RX-specific, TX-specific, High-Priority *)
(* and then the packets of its cycle; on a frequency kick a High-Priority; *)
(* every 100 ms the packets of its cycle.  Each packet is built from the   *)
(* configuration of the moment it is sent; TX-specific reads it twice.     *)
(* The main thread sends the handshake before the timer thread exists and  *)
(* the parking packet after it was joined.                                 *)
(*                                                                         *)
(* A packet may be lost.  todo holds what the sender still has to do, and  *)
(* the order of its steps is the same in every burst and cycle.            *)
(***************************************************************************)
EXTENDS Naturals

CONSTANTS
  TxStates,     \* keyed states the gate may install
  PaStates,     \* those with the power amplifier enabled
  NoTx,         \* receiving: no TX state installed
  PsStates,     \* PureSignal settings
  NoPs,         \* PureSignal off
  Freqs,        \* receive frequencies
  Lossy         \* packets may be lost

ASSUME WireAssumption ==
  /\ PaStates \subseteq TxStates
  /\ NoTx \notin TxStates /\ NoPs \notin PsStates
  /\ Lossy \in BOOLEAN

VARIABLES
  cfgTx,        \* cfg_tx, cfg_tx_on
  cfgPs,        \* cfg_ps, cfg_ps_on
  cfgFreq,      \* cfg_freq
  owe,          \* per thread: the kick its call has still to raise
  kick,         \* kick_pending
  freqKick,     \* freq_kick_pending
  phase,        \* of p2_rx_start and p2_rx_stop, on the main thread
  timer,        \* the timer thread exists
  cycling,      \* its cycle
  todo,         \* what the sender has still to send
  snap,         \* the TX state send_transmit_specific read first
  radio         \* the last packet of each kind the radio received

cfgVars   == <<cfgTx, cfgPs, cfgFreq>>
kickVars  == <<owe, kick, freqKick>>
timerVars == <<timer, cycling, todo, snap>>
vars      == <<cfgVars, kickVars, phase, timerVars, radio>>

Threads == {"main", "tx"}
Kinds   == {"general", "rx", "tx", "hp"}

\* A step of a burst: the packets, the two halves of TX-specific and the cycle.
Steps == {"general", "rx", "txRead", "tx", "hp", "cycle"}

Order ==
  [s \in Steps |-> CASE s = "general" -> 1 [] s = "rx" -> 2 [] s = "txRead" -> 3
                     [] s = "tx" -> 4 [] s = "hp" -> 5 [] s = "cycle" -> 6]

Running == phase \in {"start", "on"}     \* p2running

-----------------------------------------------------------------------------
(* The packets, as far as they depend on the configuration.                *)

Pa(tx) == tx \in PaStates

\* The receive DDC is off while keyed, unless PureSignal takes its place.
Ddc == IF cfgTx = NoTx THEN "receive"
       ELSE IF cfgPs = NoPs THEN "off" ELSE "feedback"

General == [pa |-> Pa(cfgTx)]
RxSpec  == [ddc |-> Ddc]

\* All zero on receive.
TxSpec(tx) == [dac |-> tx # NoTx, pa |-> Pa(tx),
               ps |-> IF tx = NoTx THEN NoPs ELSE cfgPs]

\* Mutant: a stale TX state survives the unkey.
HighPrioritySticky(run) ==
  [run |-> run, freq |-> cfgFreq, ps |-> NoPs,
   tx |-> IF run /\ cfgTx = NoTx THEN radio["hp"].tx ELSE cfgTx]

\* MOX needs the run bit; a parking packet carries no TX state.
HighPriority(run) ==
  LET tx == IF run THEN cfgTx ELSE NoTx
  IN  [run |-> run, freq |-> cfgFreq, tx |-> tx,
       ps |-> IF tx = NoTx THEN NoPs ELSE cfgPs]

\* What a packet of kind k is when it is built from the configuration now.
Packet(k) ==
  CASE k = "general" -> General
    [] k = "rx"      -> RxSpec
    [] k = "tx"      -> TxSpec(cfgTx)
    [] k = "hp"      -> HighPriority(TRUE)

Packets ==
  [pa : BOOLEAN] \cup [ddc : {"receive", "off", "feedback"}]
  \cup [dac : BOOLEAN, pa : BOOLEAN, ps : PsStates \cup {NoPs}]
  \cup [run : BOOLEAN, freq : Freqs, tx : TxStates \cup {NoTx},
        ps : PsStates \cup {NoPs}]

TypeOK ==
  /\ cfgTx \in TxStates \cup {NoTx} /\ cfgPs \in PsStates \cup {NoPs}
  /\ cfgFreq \in Freqs
  /\ owe \in [Threads -> {"nothing", "kick", "freqKick"}]
  /\ kick \in BOOLEAN /\ freqKick \in BOOLEAN
  /\ phase \in {"off", "reset", "start", "on", "stop"}
  /\ timer \in BOOLEAN /\ cycling \in 0..8
  /\ todo \subseteq Steps
  /\ snap \in TxStates \cup {NoTx}
  /\ radio \in [Kinds -> Packets]

Init ==
  /\ cfgTx = NoTx /\ cfgPs = NoPs /\ cfgFreq \in Freqs
  /\ owe = [t \in Threads |-> "nothing"]
  /\ kick = FALSE /\ freqKick = FALSE
  /\ phase = "off" /\ timer = FALSE /\ cycling = 0
  /\ todo = {} /\ snap = NoTx
  /\ radio = [k \in Kinds |->
                IF k = "hp" THEN HighPriority(FALSE) ELSE Packet(k)]

-----------------------------------------------------------------------------
(* The setters.  The transmit thread installs TX states and moves the      *)
(* PureSignal attenuator; the main thread sets PureSignal and tunes, when  *)
(* it is not inside start or stop.                                         *)

\* A thread between two calls.
Free(t) == owe[t] = "nothing" /\ (t = "main" => phase \in {"off", "on"})

SetTxState(tx) ==
  /\ Free("tx") /\ tx # cfgTx
  /\ cfgTx' = tx
  /\ owe' = [owe EXCEPT !["tx"] = "kick"]
  /\ UNCHANGED <<cfgPs, cfgFreq, kick, freqKick, phase, timerVars, radio>>

SetPs(t, ps) ==
  /\ Free(t) /\ ps # cfgPs
  /\ cfgPs' = ps
  /\ owe' = [owe EXCEPT ![t] = "kick"]
  /\ UNCHANGED <<cfgTx, cfgFreq, kick, freqKick, phase, timerVars, radio>>

SetFrequency(f) ==
  /\ Free("main") /\ f # cfgFreq
  /\ cfgFreq' = f
  /\ owe' = [owe EXCEPT !["main"] = "freqKick"]
  /\ UNCHANGED <<cfgTx, cfgPs, kick, freqKick, phase, timerVars, radio>>

\* The second half of each of them.
Kick(t) ==
  /\ owe[t] # "nothing"
  /\ kick' = (kick \/ owe[t] = "kick")
  /\ freqKick' = (freqKick \/ owe[t] = "freqKick")
  /\ owe' = [owe EXCEPT ![t] = "nothing"]
  /\ UNCHANGED <<cfgVars, phase, timerVars, radio>>

-----------------------------------------------------------------------------
(* Sending.                                                                *)

\* Mutant: the burst leaves the RX-specific packet to the cycle.
BurstWithoutRx == {"general", "txRead", "tx", "hp"}

Burst == {"general", "rx", "txRead", "tx", "hp"}

Turn(s) == s \in todo /\ \A o \in todo : Order[s] <= Order[o]

Put(k, packet) ==
  \/ radio' = [radio EXCEPT ![k] = packet]
  \/ Lossy /\ UNCHANGED radio

Send(k, packet) ==
  /\ Turn(k)
  /\ Put(k, packet)
  /\ todo' = todo \ {k}
  /\ UNCHANGED <<cfgVars, kickVars, phase, timer, cycling>>

SendGeneral          == Send("general", General) /\ UNCHANGED snap
SendReceiveSpecific  == Send("rx", RxSpec) /\ UNCHANGED snap
SendHighPriority     == Send("hp", HighPriority(TRUE)) /\ UNCHANGED snap

\* send_transmit_specific takes the lock twice.
ReadTransmitSpecific ==
  /\ Turn("txRead")
  /\ snap' = cfgTx
  /\ todo' = todo \ {"txRead"}
  /\ UNCHANGED <<cfgVars, kickVars, phase, timer, cycling, radio>>

SendTransmitSpecific == Send("tx", TxSpec(snap)) /\ snap' = NoTx

-----------------------------------------------------------------------------
(* The timer thread.                                                       *)

Waiting == timer /\ todo = {}

\* 100 ms without a kick.
Tick ==
  /\ Waiting /\ ~kick /\ ~freqKick
  /\ todo' = {"cycle"}
  /\ UNCHANGED <<cfgVars, kickVars, phase, timer, cycling, snap, radio>>

\* Both kicks are taken at once; after p2_rx_stop neither sends anything.
TakeKick ==
  /\ Waiting /\ (kick \/ freqKick)
  /\ kick' = FALSE /\ freqKick' = FALSE
  /\ todo' = IF ~Running THEN {"cycle"}
             ELSE IF kick THEN Burst \cup {"cycle"} ELSE {"hp"}
  /\ UNCHANGED <<cfgVars, owe, phase, timer, cycling, snap, radio>>

\* Mutant: the cycle does not send General.
CyclePlanNoGeneral(c) ==
  {"hp"} \cup (IF c \in {1, 3, 5, 7} THEN {"txRead", "tx"} ELSE {"rx"})

CycleAfter == IF cycling = 8 THEN 1 ELSE cycling + 1

CyclePlan(c) ==
  {"hp"} \cup (IF c \in {1, 3, 5, 7} THEN {"txRead", "tx"} ELSE {"rx"})
         \cup (IF c = 8 THEN {"general"} ELSE {})

Cycle ==
  /\ Turn("cycle")
  /\ IF Running
       THEN cycling' = CycleAfter /\ todo' = CyclePlan(cycling') /\ UNCHANGED timer
       ELSE timer' = FALSE /\ todo' = {} /\ UNCHANGED cycling
  /\ UNCHANGED <<cfgVars, kickVars, phase, snap, radio>>

-----------------------------------------------------------------------------
(* p2_rx_start and p2_rx_stop.                                             *)

\* Start on receive, whatever was installed; PureSignal survives.
Start(f) ==
  /\ phase = "off" /\ owe["main"] = "nothing"
  /\ phase' = "reset"
  /\ cfgFreq' = f /\ cfgTx' = NoTx
  /\ UNCHANGED <<cfgPs, kickVars, timerVars, radio>>

\* A stale kick is dropped, then the handshake is sent ...
DropKick ==
  /\ phase = "reset"
  /\ phase' = "start"
  /\ kick' = FALSE
  /\ todo' = Burst
  /\ UNCHANGED <<cfgVars, owe, freqKick, timer, cycling, snap, radio>>

\* ... and then the timer thread starts.
StartTimer ==
  /\ phase = "start" /\ todo = {}
  /\ phase' = "on"
  /\ timer' = TRUE /\ cycling' = 0
  /\ UNCHANGED <<cfgVars, kickVars, todo, snap, radio>>

Stop ==
  /\ phase = "on" /\ owe["main"] = "nothing"
  /\ phase' = "stop"
  /\ kick' = TRUE
  /\ UNCHANGED <<cfgVars, owe, freqKick, timerVars, radio>>

\* Mutant: the timer thread is not waited for.
JoinedNot == TRUE

Joined == ~timer

Park ==
  /\ phase = "stop" /\ Joined
  /\ phase' = "off"
  /\ cfgTx' = NoTx
  /\ Put("hp", HighPriority(FALSE))
  /\ UNCHANGED <<cfgPs, cfgFreq, kickVars, timerVars>>

Next ==
  \/ \E tx \in TxStates \cup {NoTx} : SetTxState(tx)
  \/ \E t \in Threads, ps \in PsStates \cup {NoPs} : SetPs(t, ps)
  \/ \E f \in Freqs : SetFrequency(f)
  \/ \E t \in Threads : Kick(t)
  \/ SendGeneral
  \/ SendReceiveSpecific
  \/ ReadTransmitSpecific
  \/ SendTransmitSpecific
  \/ SendHighPriority
  \/ Tick
  \/ TakeKick
  \/ Cycle
  \/ \E f \in Freqs : Start(f)
  \/ DropKick
  \/ StartTimer
  \/ Stop
  \/ Park

Spec == Init /\ [][Next]_vars

-----------------------------------------------------------------------------
(* Safety.                                                                 *)

Agrees(k) == radio[k] = Packet(k)

\* Someone changed the TX or PureSignal state and the burst for it is to come.
KickAhead == kick \/ \E t \in Threads : owe[t] = "kick"

\* While the link is up and the timer waits with no kick ahead, the last packet
\* of each kind says what the configuration says: no update is lost between a
\* setter, a burst that is already under way and the cycle, torn read included.
SettledWireIsConfig ==
  phase = "on" /\ todo = {} /\ ~KickAhead
    => /\ \A k \in Kinds \ {"hp"} : Agrees(k)
       /\ radio["hp"].tx = cfgTx
       /\ freqKick \/ owe["main"] = "freqKick" \/ Agrees("hp")

\* When p2_rx_stop has returned the last packet the radio was sent parks it:
\* nothing the timer thread had under way comes after it.
StoppedIsParked == phase = "off" => ~radio["hp"].run /\ radio["hp"].tx = NoTx

-----------------------------------------------------------------------------
(* Liveness.  The main thread, the transmit thread and the timer thread    *)
(* take their steps (a 100 ms wait ends, by the tick or by a kick), and of *)
(* the packets of a kind that are sent again and again some arrive.        *)

Received(k, packet) == radio'[k] = packet

Fairness ==
  /\ WF_vars(Kick("main") \/ DropKick \/ StartTimer \/ Park)
  /\ WF_vars(Kick("tx"))
  /\ WF_vars(Tick \/ TakeKick \/ Cycle \/ ReadTransmitSpecific)
  /\ SF_vars(SendGeneral /\ Received("general", General))
  /\ SF_vars(SendReceiveSpecific /\ Received("rx", RxSpec))
  /\ SF_vars(SendTransmitSpecific /\ Received("tx", TxSpec(snap)))
  /\ SF_vars(SendHighPriority /\ Received("hp", HighPriority(TRUE)))

FairSpec == Spec /\ Fairness

\* A configuration that stays is what the radio ends up with, whatever was lost
\* on the way: every kind of packet comes round again.
RadioConverges ==
  <>[](phase = "on") /\ <>[][FALSE]_cfgVars
    => <>[](\A k \in Kinds : radio[k] = Packet(k))

\* A TX state that is withdrawn while the link is up leaves the radio, even if
\* every packet of the burst is lost and PureSignal or a new key interferes.
\* (The parking packet is sent once: behind it stands the radio's watchdog.)
UnkeyReachesTheRadio ==
  (cfgTx = NoTx)
    ~> (radio["hp"].tx = NoTx \/ cfgTx # NoTx \/ phase = "off")

-----------------------------------------------------------------------------
(* What a comment says, and the code does not do.                          *)

\* protocol2.c:1366, "MOX never lands ahead of a consistent PA/DAC config":
\* a keyed High-Priority packet finds PA enable and DAC of the same TX state.
MoxAfterPaAndDac ==
  LET tx == radio["hp"].tx
  IN  tx # NoTx => radio["general"].pa = Pa(tx) /\ radio["tx"].dac
=============================================================================
