---------------------------- MODULE P2Wire_proofs ----------------------------
(***************************************************************************)
(* Proofs about the protocol 2 control plane, for every set of TX states,  *)
(* PureSignal settings and frequencies.                                    *)
(***************************************************************************)
EXTENDS P2Wire, TLAPS

-----------------------------------------------------------------------------
(* Types.                                                                  *)

\* Every packet the program builds is one of Packets.
LEMMA PacketTypes ==
  ASSUME TypeOK
  PROVE  /\ General \in Packets /\ RxSpec \in Packets
         /\ \A tx \in TxStates \cup {NoTx} : TxSpec(tx) \in Packets
         /\ \A run \in BOOLEAN : HighPriority(run) \in Packets
<1>1. General \in [pa : BOOLEAN]
  BY DEF General, Pa
<1>2. RxSpec \in [ddc : {"receive", "off", "feedback"}]
  BY DEF RxSpec, Ddc
<1>3. ASSUME NEW tx \in TxStates \cup {NoTx}
      PROVE  TxSpec(tx) \in [dac : BOOLEAN, pa : BOOLEAN, ps : PsStates \cup {NoPs}]
  BY DEF TypeOK, TxSpec, Pa
<1>4. ASSUME NEW run \in BOOLEAN
      PROVE  HighPriority(run) \in [run : BOOLEAN, freq : Freqs,
                                    tx : TxStates \cup {NoTx}, ps : PsStates \cup {NoPs}]
  BY DEF TypeOK, HighPriority
<1>5. QED
  BY <1>1, <1>2, <1>3, <1>4 DEF Packets

\* A packet that was put on the wire keeps the radio's registers well typed.
LEMMA PutTypes ==
  ASSUME NEW k \in Kinds, NEW packet \in Packets,
         radio \in [Kinds -> Packets], Put(k, packet)
  PROVE  radio' \in [Kinds -> Packets]
BY DEF Put

\* The cycle is a number of its eight places.
LEMMA CycleTypes ==
  ASSUME cycling \in 0..8
  PROVE  CycleAfter \in 0..8
BY DEF CycleAfter

\* TypeOK holds in every reachable state of the control plane
\* (protocol2.c, timer_thread and the setters), with and without loss.
THEOREM TypeCorrect == Spec => []TypeOK
<1>1. Init => TypeOK
  <2> SUFFICES ASSUME Init PROVE TypeOK
    OBVIOUS
  <2>1. /\ General \in [pa : BOOLEAN]
        /\ RxSpec \in [ddc : {"receive", "off", "feedback"}]
        /\ TxSpec(cfgTx) \in [dac : BOOLEAN, pa : BOOLEAN, ps : PsStates \cup {NoPs}]
        /\ HighPriority(FALSE) \in [run : BOOLEAN, freq : Freqs,
                                    tx : TxStates \cup {NoTx}, ps : PsStates \cup {NoPs}]
    BY DEF Init, General, RxSpec, TxSpec, HighPriority, Pa, Ddc
  <2>2. /\ General \in Packets /\ RxSpec \in Packets
        /\ TxSpec(cfgTx) \in Packets /\ HighPriority(FALSE) \in Packets
    BY <2>1 DEF Packets
  <2>3. \A k \in Kinds : radio[k] \in Packets
    BY <2>2 DEF Init, Kinds, Packet
  <2>4. radio \in [Kinds -> Packets]
    BY <2>3 DEF Init
  <2>5. owe \in [Threads -> {"nothing", "kick", "freqKick"}]
    BY DEF Init
  <2>6. /\ cfgTx \in TxStates \cup {NoTx} /\ cfgPs \in PsStates \cup {NoPs}
        /\ cfgFreq \in Freqs /\ snap \in TxStates \cup {NoTx}
        /\ cycling \in 0..8 /\ todo \subseteq Steps
    BY DEF Init
  <2>7. QED
    BY <2>4, <2>5, <2>6, Zenon DEF Init, TypeOK
<1>2. TypeOK /\ [Next]_vars => TypeOK'
  <2> SUFFICES ASSUME TypeOK, [Next]_vars PROVE TypeOK'
    OBVIOUS
  <2> USE DEF TypeOK
  <2>1. ASSUME NEW tx \in TxStates \cup {NoTx}, SetTxState(tx) PROVE TypeOK'
    BY <2>1 DEF SetTxState, timerVars
  <2>2. ASSUME NEW t \in Threads, NEW ps \in PsStates \cup {NoPs}, SetPs(t, ps)
        PROVE  TypeOK'
    BY <2>2 DEF SetPs, timerVars
  <2>3. ASSUME NEW f \in Freqs, SetFrequency(f) PROVE TypeOK'
    BY <2>3 DEF SetFrequency, timerVars
  <2>4. ASSUME NEW t \in Threads, Kick(t) PROVE TypeOK'
    BY <2>4 DEF Kick, cfgVars, timerVars
  <2>5. ASSUME NEW k \in Kinds, NEW packet \in Packets, Send(k, packet),
               snap' \in TxStates \cup {NoTx}
        PROVE  TypeOK'
    <3>1. radio' \in [Kinds -> Packets]
      BY <2>5, PutTypes DEF Send
    <3>2. QED
      BY <2>5, <3>1 DEF Send, cfgVars, kickVars
  <2>6. CASE SendGeneral
    BY <2>5, <2>6, PacketTypes DEF SendGeneral, Kinds
  <2>7. CASE SendReceiveSpecific
    BY <2>5, <2>7, PacketTypes DEF SendReceiveSpecific, Kinds
  <2>8. CASE ReadTransmitSpecific
    BY <2>8 DEF ReadTransmitSpecific, cfgVars, kickVars
  <2>9. CASE SendTransmitSpecific
    BY <2>5, <2>9, PacketTypes DEF SendTransmitSpecific, Kinds
  <2>10. CASE SendHighPriority
    BY <2>5, <2>10, PacketTypes DEF SendHighPriority, Kinds
  <2>11. CASE Tick
    BY <2>11 DEF Tick, cfgVars, kickVars, Steps
  <2>12. CASE TakeKick
    BY <2>12 DEF TakeKick, cfgVars, Burst, Steps
  <2>13. CASE Cycle
    BY <2>13, CycleTypes DEF Cycle, CyclePlan, cfgVars, kickVars, Steps
  <2>14. ASSUME NEW f \in Freqs, Start(f) PROVE TypeOK'
    BY <2>14 DEF Start, kickVars, timerVars
  <2>15. CASE DropKick
    BY <2>15 DEF DropKick, cfgVars, Burst, Steps
  <2>16. CASE StartTimer
    BY <2>16 DEF StartTimer, cfgVars, kickVars
  <2>17. CASE Stop
    BY <2>17 DEF Stop, cfgVars, timerVars
  <2>18. CASE Park
    <3>1. HighPriority(FALSE) \in Packets /\ "hp" \in Kinds
      BY PacketTypes DEF Kinds
    <3>2. radio' \in [Kinds -> Packets]
      BY <2>18, <3>1, PutTypes DEF Park
    <3>3. QED
      BY <2>18, <3>2 DEF Park, kickVars, timerVars
  <2>19. CASE UNCHANGED vars
    BY <2>19 DEF vars, cfgVars, kickVars, timerVars
  <2>20. QED
    BY <2>1, <2>2, <2>3, <2>4, <2>6, <2>7, <2>8, <2>9, <2>10, <2>11, <2>12,
       <2>13, <2>14, <2>15, <2>16, <2>17, <2>18, <2>19 DEF Next
<1>3. QED
  BY <1>1, <1>2, PTL DEF Spec

-----------------------------------------------------------------------------
(* The link and its timer thread.                                          *)

\* Where the timer thread may exist, and when nothing is left to send.
Parked ==
  /\ phase \in {"off", "reset", "start"} => ~timer
  /\ phase = "on" => timer
  /\ phase # "start" /\ ~timer => todo = {}
  /\ phase = "off" => ~radio["hp"].run /\ radio["hp"].tx = NoTx

\* A parking packet has no run bit and no TX state.
LEMMA ParkingPacket ==
  HighPriority(FALSE).run = FALSE /\ HighPriority(FALSE).tx = NoTx
BY DEF HighPriority

\* What the threads do between p2_rx_start and p2_rx_stop leaves Parked alone.
LEMMA SendKeepsParked ==
  ASSUME Parked, NEW k \in Kinds, NEW packet, Send(k, packet)
  PROVE  Parked'
BY DEF Parked, Send, Turn, kickVars

\* When p2_rx_stop has returned, the last packet the radio was sent parks it:
\* p2_rx_stop waits for the timer thread before it sends that packet.
THEOREM StoppedParked == ASSUME ~Lossy PROVE Spec => []StoppedIsParked
<1>1. Init => Parked
  <2> SUFFICES ASSUME Init PROVE Parked
    OBVIOUS
  <2>1. radio["hp"] = HighPriority(FALSE)
    BY DEF Init, Kinds
  <2>2. QED
    BY <2>1, ParkingPacket DEF Init, Parked
<1>2. TypeOK /\ Parked /\ [Next]_vars => Parked'
  <2> SUFFICES ASSUME TypeOK, Parked, [Next]_vars PROVE Parked'
    OBVIOUS
  <2>1. ASSUME NEW tx \in TxStates \cup {NoTx}, SetTxState(tx) PROVE Parked'
    BY <2>1 DEF SetTxState, timerVars, Parked
  <2>2. ASSUME NEW t \in Threads, NEW ps \in PsStates \cup {NoPs}, SetPs(t, ps)
        PROVE  Parked'
    BY <2>2 DEF SetPs, timerVars, Parked
  <2>3. ASSUME NEW f \in Freqs, SetFrequency(f) PROVE Parked'
    BY <2>3 DEF SetFrequency, timerVars, Parked
  <2>4. ASSUME NEW t \in Threads, Kick(t) PROVE Parked'
    BY <2>4 DEF Kick, timerVars, Parked
  <2>5. CASE SendGeneral
    BY <2>5, SendKeepsParked DEF SendGeneral, Kinds
  <2>6. CASE SendReceiveSpecific
    BY <2>6, SendKeepsParked DEF SendReceiveSpecific, Kinds
  <2>7. CASE ReadTransmitSpecific
    BY <2>7 DEF ReadTransmitSpecific, Turn, Parked
  <2>8. CASE SendTransmitSpecific
    BY <2>8, SendKeepsParked DEF SendTransmitSpecific, Kinds
  <2>9. CASE SendHighPriority
    BY <2>9, SendKeepsParked DEF SendHighPriority, Kinds
  <2>10. CASE Tick
    BY <2>10 DEF Tick, Waiting, Parked
  <2>11. CASE TakeKick
    BY <2>11 DEF TakeKick, Waiting, Parked
  <2>12. CASE Cycle
    BY <2>12 DEF Cycle, Turn, Running, Parked
  <2>13. ASSUME NEW f \in Freqs, Start(f) PROVE Parked'
    BY <2>13 DEF Start, timerVars, Parked
  <2>14. CASE DropKick
    BY <2>14 DEF DropKick, Parked
  <2>15. CASE StartTimer
    BY <2>15 DEF StartTimer, Parked
  <2>16. CASE Stop
    BY <2>16 DEF Stop, timerVars, Parked
  <2>17. CASE Park
    <3>1. radio' = [radio EXCEPT !["hp"] = HighPriority(FALSE)]
      BY <2>17 DEF Park, Put
    <3>2. radio'["hp"] = HighPriority(FALSE)
      BY <3>1 DEF TypeOK, Kinds
    <3>3. QED
      BY <2>17, <3>2, ParkingPacket DEF Park, Joined, timerVars, Parked
  <2>18. CASE UNCHANGED vars
    BY <2>18 DEF vars, timerVars, Parked
  <2>19. QED
    BY <2>1, <2>2, <2>3, <2>4, <2>5, <2>6, <2>7, <2>8, <2>9, <2>10, <2>11,
       <2>12, <2>13, <2>14, <2>15, <2>16, <2>17, <2>18 DEF Next
<1>3. Parked => StoppedIsParked
  BY DEF Parked, StoppedIsParked
<1>4. QED
  BY <1>1, <1>2, <1>3, TypeCorrect, PTL DEF Spec

-----------------------------------------------------------------------------
(* What is on its way.                                                     *)

\* While the link is up, every part of the configuration the last packet of its
\* kind does not carry is ahead: a kick for it is raised or owed, or the sender
\* has not yet read it for a packet of the burst that is under way.
LinkUp == phase \in {"start", "on"}

GeneralAhead ==
  radio["general"] = General \/ KickAhead \/ "general" \in todo

RxAhead ==
  radio["rx"] = RxSpec \/ KickAhead \/ "rx" \in todo

TxAhead ==
  \/ KickAhead
  \/ IF "tx" \in todo THEN "txRead" \in todo \/ snap = cfgTx
                      ELSE radio["tx"] = TxSpec(cfgTx)

MoxAhead ==
  radio["hp"].tx = cfgTx \/ KickAhead \/ "hp" \in todo

FreqAhead ==
  \/ radio["hp"] = HighPriority(TRUE)
  \/ KickAhead \/ "hp" \in todo
  \/ freqKick \/ owe["main"] = "freqKick"

Ahead == GeneralAhead /\ RxAhead /\ TxAhead /\ MoxAhead /\ FreqAhead

AheadInv == LinkUp => Ahead

\* A step that changes nothing the packets are built from, neither the radio nor
\* the sender's place, and lowers no kick, keeps everything ahead.
LEMMA QuietKeepsAhead ==
  ASSUME Ahead, UNCHANGED <<cfgVars, snap, radio>>, KickAhead => KickAhead',
         \A k \in Kinds \cup {"txRead"} : k \in todo => k \in todo',
         "tx" \in todo' \ todo => "txRead" \in todo',
         freqKick \/ owe["main"] = "freqKick"
           => freqKick' \/ owe'["main"] = "freqKick" \/ "hp" \in todo'
  PROVE  Ahead'
<1>1. /\ General' = General /\ RxSpec' = RxSpec
      /\ TxSpec(cfgTx)' = TxSpec(cfgTx) /\ HighPriority(TRUE)' = HighPriority(TRUE)
  BY DEF cfgVars, General, RxSpec, TxSpec, HighPriority, Pa, Ddc
<1>2. GeneralAhead' /\ RxAhead'
  BY <1>1 DEF Ahead, GeneralAhead, RxAhead, Kinds
<1>3. TxAhead'
  BY <1>1 DEF Ahead, TxAhead, Kinds, cfgVars
<1>4. MoxAhead' /\ FreqAhead'
  BY <1>1 DEF Ahead, MoxAhead, FreqAhead, Kinds, cfgVars
<1>5. QED
  BY <1>2, <1>3, <1>4 DEF Ahead

\* A kick that is raised or owed is a kick ahead.
LEMMA OwedIsAhead ==
  ASSUME NEW t \in Threads, owe[t] = "kick" PROVE KickAhead
BY DEF KickAhead

\* A kick ahead leaves nothing else to show.
LEMMA KickSuffices == KickAhead' => Ahead'
BY DEF Ahead, GeneralAhead, RxAhead, TxAhead, MoxAhead, FreqAhead

\* So does a burst that has not begun.
LEMMA BurstSuffices == Burst \subseteq todo' => Ahead'
BY DEF Burst, Ahead, GeneralAhead, RxAhead, TxAhead, MoxAhead, FreqAhead

\* The steps of a burst are taken in its order.
LEMMA TurnOrder ==
  ASSUME todo \subseteq Steps
  PROVE  /\ Turn("tx") => "txRead" \notin todo
         /\ Turn("cycle") => todo = {"cycle"}
<1>1. /\ Order["general"] = 1 /\ Order["rx"] = 2 /\ Order["txRead"] = 3
      /\ Order["tx"] = 4 /\ Order["hp"] = 5 /\ Order["cycle"] = 6
  BY DEF Order, Steps
<1>2. Turn("tx") => "txRead" \notin todo
  BY <1>1 DEF Turn
<1>3. ASSUME Turn("cycle"), NEW s \in todo PROVE s = "cycle"
  BY <1>1, <1>3 DEF Turn, Steps
<1>4. QED
  BY <1>2, <1>3 DEF Turn

\* A packet built from the configuration now replaces the one that was owed.
LEMMA SendKeepsAhead ==
  ASSUME ~Lossy, TypeOK, Ahead, NEW k \in Kinds, Send(k, Packet(k)),
         k # "tx" => UNCHANGED snap
  PROVE  Ahead'
<1>1. /\ radio' = [radio EXCEPT ![k] = Packet(k)]
      /\ todo' = todo \ {k} /\ UNCHANGED <<cfgVars, kickVars>>
  BY DEF Send, Put
<1>2. /\ General' = General /\ RxSpec' = RxSpec
      /\ TxSpec(cfgTx)' = TxSpec(cfgTx) /\ HighPriority(TRUE)' = HighPriority(TRUE)
      /\ KickAhead' = KickAhead
  BY <1>1 DEF cfgVars, kickVars, General, RxSpec, TxSpec, HighPriority, Pa, Ddc, KickAhead
<1>3. /\ radio'[k] = Packet(k)
      /\ \A other \in Kinds \ {k} : radio'[other] = radio[other]
  BY <1>1 DEF TypeOK
<1>4. GeneralAhead'
  BY <1>1, <1>2, <1>3 DEF Ahead, GeneralAhead, Kinds, Packet
<1>5. RxAhead'
  BY <1>1, <1>2, <1>3 DEF Ahead, RxAhead, Kinds, Packet
<1>6. TxAhead'
  BY <1>1, <1>2, <1>3 DEF Ahead, TxAhead, Kinds, Packet, cfgVars
<1>7. HighPriority(TRUE).tx = cfgTx
  BY DEF HighPriority
<1>8. MoxAhead'
  BY <1>1, <1>2, <1>3, <1>7 DEF Ahead, MoxAhead, Kinds, Packet, cfgVars
<1>9. FreqAhead'
  BY <1>1, <1>2, <1>3 DEF Ahead, FreqAhead, Kinds, Packet, kickVars
<1>10. QED
  BY <1>4, <1>5, <1>6, <1>8, <1>9 DEF Ahead

\* No step of the threads leaves a part of the configuration behind.
LEMMA StepKeepsAhead ==
  ASSUME ~Lossy, TypeOK, AheadInv, [Next]_vars
  PROVE  AheadInv'
<1> SUFFICES ASSUME LinkUp' PROVE Ahead'
  BY DEF AheadInv
<1>1. ASSUME NEW tx \in TxStates \cup {NoTx}, SetTxState(tx) PROVE Ahead'
  <2>1. owe'["tx"] = "kick"
    BY <1>1 DEF SetTxState, TypeOK, Threads
  <2>2. QED
    BY <2>1, KickSuffices DEF KickAhead, Threads
<1>2. ASSUME NEW t \in Threads, NEW ps \in PsStates \cup {NoPs}, SetPs(t, ps)
      PROVE  Ahead'
  <2>1. owe'[t] = "kick"
    BY <1>2 DEF SetPs, TypeOK
  <2>2. QED
    BY <2>1, KickSuffices DEF KickAhead
<1>3. ASSUME NEW f \in Freqs, SetFrequency(f) PROVE Ahead'
  <2>1. /\ owe'["main"] = "freqKick" /\ (KickAhead => KickAhead')
        /\ UNCHANGED <<cfgTx, cfgPs, todo, snap, radio>> /\ Ahead
    BY <1>3 DEF SetFrequency, Free, TypeOK, Threads, KickAhead, timerVars,
       AheadInv, LinkUp
  <2>2. General' = General /\ RxSpec' = RxSpec /\ TxSpec(cfgTx)' = TxSpec(cfgTx)
    BY <2>1 DEF General, RxSpec, TxSpec, Pa, Ddc
  <2>3. QED
    BY <2>1, <2>2 DEF Ahead, GeneralAhead, RxAhead, TxAhead, MoxAhead, FreqAhead
<1>4. ASSUME NEW t \in Threads, Kick(t) PROVE Ahead'
  <2>1. KickAhead => KickAhead'
    BY <1>4 DEF Kick, KickAhead, TypeOK, Threads
  <2>2. freqKick \/ owe["main"] = "freqKick" => freqKick' \/ owe'["main"] = "freqKick"
    BY <1>4 DEF Kick, TypeOK, Threads
  <2>3. QED
    BY <1>4, <2>1, <2>2, QuietKeepsAhead DEF Kick, timerVars, AheadInv, LinkUp
<1>5. CASE SendGeneral
  BY <1>5, SendKeepsAhead
     DEF SendGeneral, Send, Packet, Kinds, AheadInv, LinkUp
<1>6. CASE SendReceiveSpecific
  BY <1>6, SendKeepsAhead
     DEF SendReceiveSpecific, Send, Packet, Kinds, AheadInv, LinkUp
<1>7. CASE ReadTransmitSpecific
  <2>1. /\ snap' = cfgTx /\ todo' = todo \ {"txRead"} /\ Ahead
        /\ UNCHANGED <<cfgVars, kickVars, radio>>
    BY <1>7 DEF ReadTransmitSpecific, AheadInv, LinkUp
  <2>2. /\ General' = General /\ RxSpec' = RxSpec /\ KickAhead' = KickAhead
        /\ TxSpec(cfgTx)' = TxSpec(cfgTx) /\ HighPriority(TRUE)' = HighPriority(TRUE)
    BY <2>1 DEF cfgVars, kickVars, General, RxSpec, TxSpec, HighPriority, Pa, Ddc, KickAhead
  <2>3. QED
    BY <2>1, <2>2 DEF Ahead, GeneralAhead, RxAhead, TxAhead, MoxAhead, FreqAhead,
       cfgVars, kickVars
<1>8. CASE SendTransmitSpecific
  <2>1. Ahead /\ Turn("tx") /\ UNCHANGED <<cfgVars, kickVars>>
    BY <1>8 DEF SendTransmitSpecific, Send, AheadInv, LinkUp
  <2>2. CASE KickAhead
    BY <2>1, <2>2, KickSuffices DEF kickVars, KickAhead
  <2>3. CASE ~KickAhead
    <3>1. snap = cfgTx
      BY <2>1, <2>3, TurnOrder DEF Ahead, TxAhead, Turn, TypeOK
    <3>2. Send("tx", Packet("tx"))
      BY <1>8, <3>1 DEF SendTransmitSpecific, Packet
    <3>3. QED
      BY <2>1, <3>2, SendKeepsAhead DEF Kinds
  <2>4. QED
    BY <2>2, <2>3
<1>9. CASE SendHighPriority
  BY <1>9, SendKeepsAhead
     DEF SendHighPriority, Send, Packet, Kinds, AheadInv, LinkUp
<1>10. CASE Tick
  <2>1. todo = {} /\ todo' = {"cycle"} /\ UNCHANGED kickVars
    BY <1>10 DEF Tick, Waiting, kickVars
  <2>2. QED
    BY <1>10, <2>1, QuietKeepsAhead
       DEF Tick, Kinds, AheadInv, LinkUp, KickAhead, kickVars
<1>11. CASE TakeKick
  <2>1. CASE kick
    BY <1>11, <2>1, BurstSuffices DEF TakeKick, Running, LinkUp
  <2>2. CASE ~kick
    <3>1. todo = {} /\ todo' = {"hp"} /\ Ahead
      BY <1>11, <2>2 DEF TakeKick, Waiting, Running, LinkUp, AheadInv
    <3>2. KickAhead => KickAhead'
      BY <1>11, <2>2 DEF TakeKick, KickAhead
    <3>3. QED
      BY <1>11, <3>1, <3>2, QuietKeepsAhead DEF TakeKick, Kinds
  <2>3. QED
    BY <2>1, <2>2
<1>12. CASE Cycle
  <2>1. todo = {"cycle"}
    BY <1>12, TurnOrder DEF Cycle, TypeOK
  <2>2. "tx" \in todo' => "txRead" \in todo'
    BY <1>12 DEF Cycle, CyclePlan
  <2>3. QED
    BY <1>12, <2>1, <2>2, QuietKeepsAhead
       DEF Cycle, Kinds, AheadInv, LinkUp, KickAhead, kickVars
<1>13. ASSUME NEW f \in Freqs, Start(f) PROVE FALSE
  BY <1>13 DEF Start, LinkUp
<1>14. CASE DropKick
  BY <1>14, BurstSuffices DEF DropKick
<1>15. CASE StartTimer
  BY <1>15, QuietKeepsAhead DEF StartTimer, AheadInv, LinkUp, KickAhead, kickVars
<1>16. CASE Stop
  BY <1>16 DEF Stop, LinkUp
<1>17. CASE Park
  BY <1>17 DEF Park, LinkUp
<1>18. CASE UNCHANGED vars
  BY <1>18, QuietKeepsAhead
     DEF vars, timerVars, kickVars, AheadInv, LinkUp, KickAhead
<1>19. QED
  BY <1>1, <1>2, <1>3, <1>4, <1>5, <1>6, <1>7, <1>8, <1>9, <1>10, <1>11,
     <1>12, <1>13, <1>14, <1>15, <1>16, <1>17, <1>18 DEF Next

\* While the link is up and the timer waits with no kick ahead, the last packet
\* of each kind is built from the configuration there is (protocol2.c: the
\* setters against timer_wait_or_kick and p2_rx_start): no update is lost.
THEOREM SettledConfig == ASSUME ~Lossy PROVE Spec => []SettledWireIsConfig
<1>1. Init => AheadInv
  BY DEF Init, AheadInv, LinkUp
<1>2. TypeOK /\ AheadInv /\ [Next]_vars => AheadInv'
  BY StepKeepsAhead
<1>3. AheadInv => SettledWireIsConfig
  <2> SUFFICES ASSUME Ahead, todo = {}, ~KickAhead,
                      NEW k \in Kinds, k # "hp"
               PROVE  /\ Agrees(k) /\ radio["hp"].tx = cfgTx
                      /\ freqKick \/ owe["main"] = "freqKick" \/ Agrees("hp")
    BY DEF AheadInv, SettledWireIsConfig, LinkUp, Kinds
  <2>1. QED
    BY DEF Ahead, GeneralAhead, RxAhead, TxAhead, MoxAhead, FreqAhead,
       Agrees, Packet, Kinds
<1>4. QED
  BY <1>1, <1>2, <1>3, TypeCorrect, PTL DEF Spec

=============================================================================
