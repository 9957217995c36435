----------------------------- MODULE P2Listener ------------------------------
(***************************************************************************)
(* The receive side of protocol2.c: the listener thread routes what the    *)
(* radio streams to the demodulator and to PureSignal.  What the radio     *)
(* streams follows the last RX-specific packet that reached it, how the    *)
(* listener decodes it follows ps_txmode, which the timer thread flips     *)
(* when it sends that packet, and a third flag, cfg_tx_on_atomic, follows  *)
(* the key at once.  While no RX IQ arrives the demodulator is fed zeros,  *)
(* so that the audio sink and the transmit monitor keep their pace.        *)
(*                                                                         *)
(* Time goes in beats of one feedback pair at 192 kHz; a mic sample lasts  *)
(* four, and in that time Rate receive samples are due, where Rate is the  *)
(* receiver's rate in units of 48 kHz.                                     *)
(***************************************************************************)
EXTENDS Naturals, Sequences

CONSTANTS
  Rates,        \* receiver rates in units of 48 kHz
  NetMax,       \* bound: stream packets in flight
  ListenDisturb \* bound: key and PureSignal changes

ListenerAssumption ==
  /\ Rates \subseteq Nat \ {0} /\ NetMax \in Nat \ {0} /\ ListenDisturb \in Nat

VARIABLES
  device,       \* DDC of the receiver: 0 (Hermes class) or 2 (Orion class)
  rate,         \* cfg_sample_rate / 48000
  txOn,         \* cfg_tx_on, and cfg_tx_on_atomic
  psOn,         \* cfg_ps_on
  psTxmode,     \* ps_txmode
  command,      \* an RX-specific packet under way, or <<>>
  streams,      \* what the radio streams: "rx", "ps" or "none"
  beat,         \* 0..3, the radio's time in a mic sample
  net,          \* stream packets in flight, in order
  acc,          \* acc of decode_ps_iq
  fed,          \* samples fed to the demodulator in this mic sample
  last,         \* and in the last one
  changes       \* how often the configuration changed

confVars   == <<device, rate, txOn, psOn, changes>>
radioVars  == <<command, streams, beat>>
listenVars == <<acc, fed, last>>
vars       == <<confVars, psTxmode, radioVars, net, listenVars>>

PairsPerMic == 4
MaxRate     == CHOOSE r \in Rates : \A s \in Rates : s <= r

Packet == [kind : {"rx", "ps", "mic"}, samples : 0..MaxRate]

TypeOK ==
  /\ device \in {0, 2} /\ rate \in Rates
  /\ txOn \in BOOLEAN /\ psOn \in BOOLEAN /\ psTxmode \in BOOLEAN
  /\ command \in {<<>>} \cup {<<s>> : s \in {"rx", "ps", "none"}}
  /\ streams \in {"rx", "ps", "none"} /\ beat \in 0..PairsPerMic - 1
  /\ net \in Seq(Packet) /\ Len(net) <= NetMax + 2
  /\ acc \in 0..PairsPerMic - 1 /\ changes \in 0..ListenDisturb

Init ==
  /\ device \in {0, 2} /\ rate \in Rates
  /\ txOn = FALSE /\ psOn = FALSE /\ psTxmode = FALSE
  /\ command = <<>> /\ streams = "rx" /\ beat = 0 /\ net = <<>>
  /\ acc = 0 /\ fed = 0 /\ last = rate /\ changes = 0

-----------------------------------------------------------------------------
(* The configuration and the timer thread.                                 *)

\* p2_set_tx_state and p2_set_ps.
Configure ==
  /\ changes < ListenDisturb
  /\ \/ txOn' = ~txOn /\ UNCHANGED psOn
     \/ psOn' = ~psOn /\ UNCHANGED txOn
  /\ changes' = changes + 1
  /\ UNCHANGED <<device, rate, psTxmode, radioVars, net, listenVars>>

\* The streams p2_build_receive_specific asks for: the feedback pair, nothing
\* while keyed without PureSignal, the receiver otherwise.
Asked == IF ~txOn THEN "rx" ELSE IF psOn THEN "ps" ELSE "none"

\* Mutant: the listener goes on with the decoder it has.
OldDecoder == psTxmode

Decoder == psOn /\ txOn

\* send_receive_specific on a kick or a keepalive: the decoder flips first.
SendReceiveSpecific ==
  /\ command = <<>>
  /\ psTxmode' = Decoder
  /\ command' = <<Asked>>
  /\ UNCHANGED <<confVars, streams, beat, net, listenVars>>

\* The network delivers it or loses it.
Deliver ==
  /\ command # <<>>
  /\ streams' = command[1] /\ command' = <<>>
  /\ UNCHANGED <<confVars, psTxmode, beat, net, listenVars>>

Lose ==
  /\ command # <<>>
  /\ command' = <<>>
  /\ UNCHANGED <<confVars, psTxmode, streams, beat, net, listenVars>>

-----------------------------------------------------------------------------
(* The radio.                                                              *)

\* One beat: a feedback pair, and with every fourth the receive samples and the
\* mic sample of the time that passed.
Beat ==
  /\ Len(net) < NetMax
  /\ beat' = (beat + 1) % PairsPerMic
  /\ LET Of(kind, n) == <<[kind |-> kind, samples |-> n]>>
         full == beat = PairsPerMic - 1
     IN net' = net \o (IF streams = "ps" THEN Of("ps", 2) ELSE <<>>)
                   \o (IF streams = "rx" /\ full THEN Of("rx", rate) ELSE <<>>)
                   \o (IF full THEN Of("mic", 1) ELSE <<>>)
  /\ UNCHANGED <<confVars, psTxmode, command, streams, listenVars>>

-----------------------------------------------------------------------------
(* The listener thread.                                                    *)

\* The DDC a packet comes from: the feedback is always on DDC0.
DdcOf(p) == IF p.kind = "ps" THEN 0 ELSE device

\* decode_ps_iq: zeros at the receiver's rate, with the remainder kept.
PsFeed(pairs) ==
  [feed |-> (acc + pairs * rate) \div PairsPerMic, acc |-> (acc + pairs * rate) % PairsPerMic]

\* listener_thread for a packet of a DDC port.
HandleDdc ==
  /\ net # <<>> /\ Head(net).kind # "mic"
  /\ LET p == Head(net) IN
     IF DdcOf(p) = 0 /\ psTxmode
       THEN LET z == PsFeed(p.samples \div 2) IN fed' = fed + z.feed /\ acc' = z.acc
       ELSE fed' = fed + p.samples /\ UNCHANGED acc
  /\ net' = Tail(net)
  /\ UNCHANGED <<confVars, psTxmode, radioVars, last>>

ZerosDue == txOn /\ ~psTxmode

\* listener_thread for a packet of the mic port: zeros while nothing else comes.
HandleMic ==
  /\ net # <<>> /\ Head(net).kind = "mic"
  /\ last' = fed + (IF ZerosDue THEN Head(net).samples * rate ELSE 0)
  /\ fed' = 0
  /\ net' = Tail(net)
  /\ UNCHANGED <<confVars, psTxmode, radioVars, acc>>

Next ==
  \/ Configure \/ SendReceiveSpecific \/ Deliver \/ Lose
  \/ Beat \/ HandleDdc \/ HandleMic

Spec == Init /\ [][Next]_vars

\* The keepalive repeats the packet for as long as the link lives, a network that
\* delivers some packets delivers this one some time, the radio streams on and
\* the listener reads on.
FairSpec ==
  /\ Spec
  /\ WF_vars(SendReceiveSpecific) /\ SF_vars(Deliver) /\ WF_vars(Deliver \/ Lose)
  /\ WF_vars(Beat) /\ WF_vars(HandleDdc \/ HandleMic)

-----------------------------------------------------------------------------
(* Correctness.                                                            *)

\* Once nobody changes the key or PureSignal any more the demodulator gets exactly
\* the samples that are due, from one source: the receiver, the zeros paced by the
\* feedback or the zeros paced by the mic stream, whatever packets were lost and
\* whichever of the three flags flipped first (send_receive_specific, decode_ps_iq,
\* listener_thread).
AtPace            == last = rate
AudioKeepsItsPace == <>[]AtPace
=============================================================================
