------------------------------ MODULE Live_proofs ------------------------------
(***************************************************************************)
(* Proofs about the components that MCLive runs, each in its own           *)
(* behaviours, for every value of the constants: the TX-IQ ring and the    *)
(* pacing by the lemmas of their own proof modules, PureSignal here.       *)
(***************************************************************************)
EXTENDS MCLive, SequenceTheorems, TLAPS

RP == INSTANCE TxIqRing_proofs WITH
  made <- x1, feed <- x2, hSeen <- x3, tSeen <- x4, slot <- x5, head <- x6, tail <- x7, live
  <- x8, sender <- x9, running <- x10, phase <- x11, drops <- x12, prelink <- x13, sent <-
  x14, wire <- x15, h <- x16
PP == INSTANCE TxPacing_proofs WITH
  credit <- x1, clockOk <- x2, at <- x3, left <- x4, next <- x5, fill <- x6, streaming <-
  x7, calm <- x8, backlog <- x9

-----------------------------------------------------------------------------
(* The TX-IQ ring.                                                         *)

RingPart == part = "ring" => RP!RingInv

LEMMA RingConstants == RP!RingAssumption
BY PartAssumptions DEF Ring!RingAssumption, RP!RingAssumption

\* A step of MCLive is one of the ring when that is the component.
LEMMA RingSteps ==
  ASSUME part = "ring", [Next]_vars
  PROVE  part' = "ring" /\ [RP!Next]_(RP!vars)
<1>1. CASE Next
  <2>1. /\ UNCHANGED part
        /\ \/ Ring!Emit \/ Ring!ReadIndices \/ Ring!FillSlot \/ Ring!Publish
           \/ Ring!Wake \/ Ring!SendPacket \/ Ring!Advance
           \/ Ring!Start \/ Ring!Arm \/ Ring!Open \/ Ring!Close \/ Ring!Stop \/ Ring!Join
           \/ Ring!TakeStats
    BY <1>1 DEF Next
  <2>2. /\ Ring!Emit => RP!Emit
        /\ Ring!ReadIndices => RP!ReadIndices
        /\ Ring!FillSlot => RP!FillSlot
        /\ Ring!Publish => RP!Publish
    BY DEF Ring!Emit, RP!Emit, Ring!ReadIndices, RP!ReadIndices, Ring!FillSlot, RP!FillSlot,
           Ring!Publish, RP!Publish, Ring!Gate, RP!Gate, Ring!Full, RP!Full, Ring!Fill, RP!Fill,
           Ring!Succ, RP!Succ, Ring!feedVars, RP!feedVars, Ring!ringVars, RP!ringVars,
           Ring!senderVars, RP!senderVars, Ring!linkVars, RP!linkVars
  <2>3. /\ Ring!Wake => RP!Wake
        /\ Ring!SendPacket => RP!SendPacket
        /\ Ring!Advance => RP!Advance
        /\ Ring!TakeStats => RP!TakeStats
    BY DEF Ring!Wake, RP!Wake, Ring!SendPacket, RP!SendPacket, Ring!Advance, RP!Advance,
           Ring!TakeStats, RP!TakeStats, Ring!Waiting, RP!Waiting,
           Ring!Succ, RP!Succ, Ring!feedVars, RP!feedVars, Ring!ringVars, RP!ringVars,
           Ring!senderVars, RP!senderVars, Ring!linkVars, RP!linkVars
  <2>4. /\ Ring!Start => RP!Start
        /\ Ring!Arm => RP!Arm
        /\ Ring!Open => RP!Open
        /\ Ring!Close => RP!Close
        /\ Ring!Stop => RP!Stop
        /\ Ring!Join => RP!Join
    BY DEF Ring!Start, RP!Start, Ring!Arm, RP!Arm, Ring!Open, RP!Open, Ring!Close, RP!Close,
           Ring!Stop, RP!Stop, Ring!Join, RP!Join, Ring!DropsAtStart, RP!DropsAtStart,
           Ring!feedVars, RP!feedVars, Ring!ringVars, RP!ringVars,
           Ring!senderVars, RP!senderVars, Ring!linkVars, RP!linkVars
  <2>5. QED
    BY <2>1, <2>2, <2>3, <2>4 DEF RP!Next, RP!FeedStep, RP!SenderStep, RP!LinkStep
<1>2. CASE UNCHANGED vars
  BY <1>2 DEF vars, RP!vars, RP!feedVars, RP!ringVars, RP!senderVars, RP!linkVars
<1>3. QED
  BY <1>1, <1>2

LEMMA PartStays == ASSUME [Next]_vars PROVE part' = part
BY DEF Next, vars

LEMMA RingStarts == Init => RingPart
<1> SUFFICES ASSUME Init, part = "ring" PROVE RP!RingInv
  BY DEF RingPart
<1>1. RP!Init
  BY DEF Init, Ring!Init, RP!Init
<1>2. QED
  BY <1>1, RingConstants, RP!RingInit

LEMMA RingKeeps == RingPart /\ [Next]_vars => RingPart'
<1> SUFFICES ASSUME RingPart, [Next]_vars, part' = "ring" PROVE RP!RingInv'
  BY DEF RingPart
<1>1. part = "ring" /\ RP!RingInv
  BY PartStays DEF RingPart
<1>2. QED
  BY <1>1, RingSteps, RingConstants, RP!RingStep

LEMMA RingCounts == RingPart => AccountedFor
BY DEF RingPart, AccountedFor, RP!RingInv, RP!AccountedFor, Ring!AccountedFor,
       RP!Fill, Ring!Fill, RP!InFlight, Ring!InFlight

\* While the gate of the TX-IQ ring is open every packet made since it opened was
\* sent, waits, is in flight or was counted as dropped, whatever the number of slots
\* and the width of the indices (p2_tx_iq_socket_emit, txiq_thread,
\* p2_txiq_ring_stats_take).
THEOREM RingCountsTrue == Spec => []AccountedFor
BY RingStarts, RingKeeps, RingCounts, PTL DEF Spec

\* The mapping of the ring to the queue is the one of MCLive.
LEMMA PromiseSame ==
  /\ Ring!First = RP!First
  /\ Ring!Queue = RP!Queue
  /\ Ring!InFlight = RP!InFlight
BY DEF Ring!First, RP!First, Ring!Queue, RP!Queue, Ring!InFlight, RP!InFlight,
       Ring!Fill, RP!Fill, Ring!Succ, RP!Succ

LEMMA PromiseSameNext == Ring!Queue' = RP!Queue' /\ Ring!InFlight' = RP!InFlight'
BY DEF Ring!First, RP!First, Ring!Queue, RP!Queue, Ring!InFlight, RP!InFlight,
       Ring!Fill, RP!Fill, Ring!Succ, RP!Succ

LEMMA PromiseStarts == ASSUME Init, part = "ring" PROVE Ring!Promise!Init
<1>1. RP!Init
  BY DEF Init, Ring!Init, RP!Init
<1>2. RP!Promise!Init
  BY <1>1, RingConstants, RP!PromiseInit
<1>3. QED
  BY <1>2, PromiseSame DEF Ring!Promise!Init, RP!Promise!Init

LEMMA PromiseKeeps ==
  RingPart /\ [Next]_vars /\ part = "ring" => [Ring!Promise!Next]_(Ring!Promise!vars)
<1> SUFFICES ASSUME RingPart, [Next]_vars, part = "ring"
             PROVE  [Ring!Promise!Next]_(Ring!Promise!vars)
  OBVIOUS
<1>1. RP!RingInv /\ RP!RingInv' /\ [RP!Next]_(RP!vars)
  BY RingKeeps, RingSteps DEF RingPart
<1>2. [RP!Promise!Next]_(RP!Promise!vars)
  BY <1>1, RingConstants, RP!PromiseStep
<1>3. QED
  BY <1>2, PromiseSame, PromiseSameNext
     DEF Ring!Promise!Next, RP!Promise!Next, Ring!Promise!vars, RP!Promise!vars,
         Ring!Promise!Lose, RP!Promise!Lose, Ring!Promise!Accept, RP!Promise!Accept,
         Ring!Promise!Send, RP!Promise!Send, Ring!Promise!LinkUp, RP!Promise!LinkUp,
         Ring!Promise!LinkDown, RP!Promise!LinkDown

\* The TX-IQ ring implements the queue that may lose (TxIqQueue): packets leave in
\* the order they were made, each once, no more of them wait than the ring has slots,
\* and a link starts without packets of the one before (p2_tx_iq_socket_emit,
\* txiq_thread, the reset in p2_rx_start).
THEOREM RingImplementsQueue == Spec => RingIsAQueue
<1>1. Init => (part = "ring" => Ring!Promise!Init)
  BY PromiseStarts
<1>2. RingPart /\ [Next]_vars
        => [part = "ring" => [Ring!Promise!Next]_(Ring!Promise!vars)]_vars
  BY PromiseKeeps
<1>3. QED
  BY RingStarts, RingKeeps, <1>1, <1>2, PTL DEF Spec, RingIsAQueue

-----------------------------------------------------------------------------
(* The pacing of the feed.                                                 *)

PacingPart == part = "pacing" => PP!PacingInv

LEMMA PacingConstants == PP!PacingAssumption
BY PartAssumptions DEF Pacing!PacingAssumption, PP!PacingAssumption

LEMMA PacingSteps ==
  ASSUME part = "pacing", [Next]_vars
  PROVE  [PP!Next]_(PP!vars)
<1>1. CASE Next
  <2>1. \/ Pacing!Tick \/ Pacing!CreditClock \/ Pacing!Weather
        \/ Pacing!Produce \/ Pacing!Pace \/ Pacing!ClockTicks \/ Pacing!ClockLost \/ Pacing!WakeUp
    BY <1>1 DEF Next
  <2>2. /\ Pacing!Tick => PP!Tick
        /\ Pacing!CreditClock => PP!CreditClock
        /\ Pacing!Weather => PP!Weather
    BY DEF Pacing!Tick, PP!Tick, Pacing!CreditClock, PP!CreditClock, Pacing!Weather, PP!Weather,
           Pacing!Due, PP!Due, Pacing!Down, PP!Down, Pacing!Banked, PP!Banked
  <2>3. /\ Pacing!Produce => PP!Produce
        /\ Pacing!Pace => PP!Pace
        /\ Pacing!ClockTicks => PP!ClockTicks
        /\ Pacing!ClockLost => PP!ClockLost
        /\ Pacing!WakeUp => PP!WakeUp
    BY DEF Pacing!Produce, PP!Produce, Pacing!Pace, PP!Pace, Pacing!ClockTicks, PP!ClockTicks,
           Pacing!ClockLost, PP!ClockLost, Pacing!WakeUp, PP!WakeUp, Pacing!NextBlock,
           PP!NextBlock, Pacing!TimerPace, PP!TimerPace, Pacing!ProbeSucceeds,
           PP!ProbeSucceeds, Pacing!netVars, PP!netVars
  <2>4. QED
    BY <2>1, <2>2, <2>3 DEF PP!Next, PP!FeedStep
<1>2. CASE UNCHANGED vars
  BY <1>2 DEF vars, PP!vars, PP!netVars
<1>3. QED
  BY <1>1, <1>2

LEMMA PacingStarts == Init => PacingPart
<1> SUFFICES ASSUME Init, part = "pacing" PROVE PP!PacingInv
  BY DEF PacingPart
<1>1. PP!Init
  BY DEF Init, Pacing!Init, PP!Init
<1>2. QED
  BY <1>1, PacingConstants, PP!PacingInit

LEMMA PacingKeeps == PacingPart /\ [Next]_vars => PacingPart'
<1> SUFFICES ASSUME PacingPart, [Next]_vars, part' = "pacing" PROVE PP!PacingInv'
  BY DEF PacingPart
<1>1. part = "pacing" /\ PP!PacingInv
  BY PartStays DEF PacingPart
<1>2. QED
  BY <1>1, PacingSteps, PacingConstants, PP!PacingStep

LEMMA PacingHolds == PacingPart => LeadIsBounded
<1> SUFFICES ASSUME PacingPart, part = "pacing" PROVE Pacing!LeadIsBounded
  BY DEF LeadIsBounded
<1>1. PP!LeadIsBounded
  BY PacingConstants, PP!PacingBound DEF PacingPart
<1>2. QED
  BY <1>1 DEF Pacing!LeadIsBounded, PP!LeadIsBounded

\* The radio's FIFO is never more than five blocks ahead, whatever the length of a
\* block, the timeout, the network's memory and the time the thread takes (the clamp
\* in listener_thread, p2_mic_clock_wait, the pacing in tx_thread).
THEOREM PacingIsBounded == Spec => []LeadIsBounded
BY PacingStarts, PacingKeeps, PacingHolds, PTL DEF Spec

-----------------------------------------------------------------------------
(* PureSignal.  Every pair in the accumulator is one of the over that is   *)
(* keyed.                                                                  *)

PsInv ==
  /\ x8 \in BOOLEAN /\ x9 \in 0..1 /\ x10 \in Seq(0..1)     \* keyed, over, fill
  /\ x17 = [mixed |-> FALSE]                                \* h
  /\ x8 => \A i \in 1..Len(x10) : x10[i] = x9

PsPart == part = "ps" => PsInv

LEMMA PsConstants == BlockPairs \in Nat \ {0}
BY PartAssumptions DEF PS!PsAssumption

LEMMA PsStarts == Init => PsPart
<1> SUFFICES ASSUME Init, part = "ps" PROVE PsInv
  BY DEF PsPart
<1>1. PS!Init
  BY DEF Init
<1>2. x8 = FALSE /\ x9 = 0 /\ x10 = <<>> /\ x17 = [mixed |-> FALSE]
  BY <1>1 DEF PS!Init
<1>3. x8 \in BOOLEAN /\ ~x8 /\ x9 \in 0..1
  <2>1. x8 \in BOOLEAN /\ ~x8
    BY <1>2, Zenon
  <2>2. QED
    BY <1>2, <2>1
<1>4. <<>> \in Seq(0..1)
  BY EmptySeq
<1>5. x10 \in Seq(0..1)
  BY <1>2, <1>4, Zenon
<1>6. QED
  BY <1>2, <1>3, <1>5 DEF PsInv

LEMMA PsSteps ==
  ASSUME PsInv,
         \/ UNCHANGED <<x8, x9, x10, x17>>
         \/ x8' = FALSE /\ UNCHANGED <<x9, x10, x17>>
         \/ PS!Key \/ PS!Feedback
  PROVE  PsInv'
<1>1. CASE UNCHANGED <<x8, x9, x10, x17>>
  BY <1>1 DEF PsInv
<1>2. CASE x8' = FALSE /\ UNCHANGED <<x9, x10, x17>>
  BY <1>2 DEF PsInv
<1>3. CASE PS!Key
  <2>1. x8' = PS!Wanted /\ PS!Wanted \in BOOLEAN /\ x17' = x17
    BY <1>3 DEF PS!Key, PS!Wanted
  <2>2. CASE PS!Wanted /\ ~x8
    <3>1. x9' = 1 - x9 /\ x10' = <<>>
      BY <1>3, <2>2 DEF PS!Key, PS!FreshFill
    <3>2. x9' \in 0..1 /\ <<>> \in Seq(0..1) /\ Len(<<>>) = 0
      BY <3>1, EmptySeq DEF PsInv
    <3>3. QED
      BY <2>1, <3>1, <3>2 DEF PsInv
  <2>3. CASE ~(PS!Wanted /\ ~x8)
    <3>1. x9' = x9 /\ x10' = x10
      BY <1>3, <2>3 DEF PS!Key
    <3>2. QED
      BY <2>1, <2>3, <3>1 DEF PsInv
  <2>4. QED
    BY <2>2, <2>3
<1>4. CASE PS!Feedback
  <2>1. x8' = x8 /\ x9' = x9
    BY <1>4 DEF PS!Feedback, PS!keyVars
  <2>2. CASE ~x8
    <3>1. x10' = x10 /\ x17' = x17
      BY <1>4, <2>2 DEF PS!Feedback
    <3>2. QED
      BY <2>1, <3>1 DEF PsInv
  <2>3. CASE x8
    <3> DEFINE block == Append(x10, x9)
    <3>1. /\ block \in Seq(0..1) /\ Len(block) = Len(x10) + 1
          /\ \A i \in 1..Len(block) : block[i] = x9
      BY <2>3, AppendProperties DEF PsInv
    <3>2. CASE Len(block) < BlockPairs
      <4>1. x10' = block /\ x17' = x17
        BY <1>4, <2>3, <3>2 DEF PS!Feedback
      <4>2. QED
        BY <2>1, <3>1, <4>1 DEF PsInv
    <3>3. CASE ~(Len(block) < BlockPairs)
      <4>1. /\ x10' = <<>>
            /\ x17' = [mixed |-> x17.mixed \/ \E i \in 1..BlockPairs : block[i] # x9]
        BY <1>4, <2>3, <3>3 DEF PS!Feedback
      <4>2. \A i \in 1..BlockPairs : block[i] = x9
        BY <3>1, <3>3, PsConstants
      <4>3. x17' = [mixed |-> FALSE]
        BY <4>1, <4>2 DEF PsInv
      <4>4. <<>> \in Seq(0..1) /\ Len(<<>>) = 0
        BY EmptySeq
      <4>5. x10' \in Seq(0..1) /\ Len(x10') = 0
        BY <4>1, <4>4, Zenon
      <4>6. QED
        BY <2>1, <4>3, <4>5 DEF PsInv
    <3>4. QED
      BY <3>2, <3>3
  <2>4. QED
    BY <2>2, <2>3
<1>5. QED
  BY <1>1, <1>2, <1>3, <1>4

LEMMA PsKeeps == PsPart /\ [Next]_vars => PsPart'
<1> SUFFICES ASSUME PsPart, [Next]_vars, part' = "ps" PROVE PsInv'
  BY DEF PsPart
<1>1. part = "ps" /\ PsInv
  BY PartStays DEF PsPart
<1>2. CASE Next
  <2>1. \/ \E e \in BOOLEAN, a \in Settings : PS!Set(e, a)
        \/ PS!SetWire \/ PS!Arm \/ PS!Disarm \/ PS!ClearWire \/ PS!SetAuto
        \/ \E k \in {"off"} \cup PsKeys : PS!Slot(k)
        \/ PS!Retune \/ PS!Key \/ PS!Decide \/ PS!PutAtt \/ PS!RadioObeys \/ PS!Feedback
    BY <1>1, <1>2 DEF Next
  <2>2. /\ (\E e \in BOOLEAN, a \in Settings : PS!Set(e, a))
             => UNCHANGED <<x8, x9, x10, x17>>
        /\ PS!SetWire \/ PS!Arm \/ PS!Disarm \/ PS!ClearWire \/ PS!SetAuto
             => UNCHANGED <<x8, x9, x10, x17>>
        /\ PS!Retune \/ PS!Decide \/ PS!PutAtt \/ PS!RadioObeys
             => UNCHANGED <<x8, x9, x10, x17>>
    BY DEF PS!Set, PS!SetWire, PS!Arm, PS!Disarm, PS!ClearWire, PS!SetAuto, PS!Retune,
           PS!Decide, PS!PutAtt, PS!RadioObeys, PS!keyVars, PS!wireVars, PS!guiVars
  <2>3. ASSUME NEW k, PS!Slot(k)
        PROVE  /\ x8' = FALSE \/ x8' = x8
               /\ UNCHANGED <<x9, x10, x17>>
    BY <2>3, <1>1 DEF PS!Slot, PsInv
  <2>4. QED
    BY <2>1, <2>2, <2>3, <1>1, PsSteps
<1>3. CASE UNCHANGED vars
  BY <1>1, <1>3, PsSteps DEF vars
<1>4. QED
  BY <1>2, <1>3

LEMMA PsHolds == PsPart => NoMixedBlock
BY DEF PsPart, PsInv, NoMixedBlock, PS!NoMixedBlock

\* A block handed to the calibrator holds the feedback of one over only, whatever
\* its length, whenever the key comes and goes (feed_cb, ps_key).
THEOREM PsBlocksAreOfOneOver == Spec => []NoMixedBlock
BY PsStarts, PsKeeps, PsHolds, PTL DEF Spec

=============================================================================
