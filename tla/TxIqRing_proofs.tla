---------------------------- MODULE TxIqRing_proofs ----------------------------
(***************************************************************************)
(* Proofs about the TX-IQ ring, for every number of slots and every width  *)
(* of the indices the slots divide: the statistics add up, and the ring    *)
(* implements the queue of TxIqQueue.  Live_proofs cites the lemmas for    *)
(* the ring as MCLive runs it.                                             *)
(***************************************************************************)
EXTENDS TxIqRing, SequenceTheorems, TLAPS

-----------------------------------------------------------------------------
(* The indices.                                                            *)

LEMMA RingConstants ==
  ASSUME RingAssumption
  PROVE  /\ Slots \in Nat /\ Slots > 0 /\ Width \in Nat /\ Width > Slots
         /\ Width % Slots = 0
BY DEF RingAssumption

\* The next index: one more, or back to 0.
LEMMA SuccIs ==
  ASSUME RingAssumption, NEW i \in Index
  PROVE  Succ(i) = (IF i + 1 = Width THEN 0 ELSE i + 1) /\ Succ(i) \in Index
BY RingConstants DEF Index, Succ

\* How far the index i is ahead of j.
LEMMA FillIs ==
  ASSUME RingAssumption, NEW i \in Index, NEW j \in Index
  PROVE  Fill(i, j) = IF i >= j THEN i - j ELSE i + Width - j
<1>1. Width \in Nat /\ Width > 0 /\ i \in 0..Width - 1 /\ j \in 0..Width - 1
  BY RingConstants DEF Index
<1>2. CASE i >= j
  <2>1. i + Width - j = (i - j) + Width /\ i - j \in 0..Width - 1
    BY <1>1, <1>2
  <2>2. ((i - j) + Width) % Width = i - j
    BY <1>1, <2>1
  <2>3. QED
    BY <1>2, <2>1, <2>2 DEF Fill
<1>3. CASE ~(i >= j)
  <2>1. i + Width - j \in 0..Width - 1
    BY <1>1, <1>3
  <2>2. (i + Width - j) % Width = i + Width - j
    BY <1>1, <2>1
  <2>3. QED
    BY <1>3, <2>2 DEF Fill
<1>4. QED
  BY <1>2, <1>3

\* What a step of either index does to it.
LEMMA FillSteps ==
  ASSUME RingAssumption, NEW i \in Index, NEW j \in Index
  PROVE  /\ Fill(i, j) \in 0..Width - 1
         /\ Fill(i, j) = 0 <=> i = j
         /\ Fill(i, j) + 1 < Width => Fill(Succ(i), j) = Fill(i, j) + 1
         /\ Fill(i, j) > 0 => Fill(i, Succ(j)) = Fill(i, j) - 1
<1>1. Width \in Nat /\ Width > 1 /\ i \in 0..Width - 1 /\ j \in 0..Width - 1
  BY RingConstants DEF Index
<1>2. Fill(i, j) = IF i >= j THEN i - j ELSE i + Width - j
  BY FillIs
<1>3. Succ(i) \in Index /\ Succ(j) \in Index
  BY SuccIs
<1>4. Fill(Succ(i), j) = IF Succ(i) >= j THEN Succ(i) - j ELSE Succ(i) + Width - j
  BY <1>3, FillIs
<1>5. Fill(i, Succ(j)) = IF i >= Succ(j) THEN i - Succ(j) ELSE i + Width - Succ(j)
  BY <1>3, FillIs
<1>6. Fill(i, j) \in 0..Width - 1 /\ (Fill(i, j) = 0 <=> i = j)
  BY <1>1, <1>2
<1>7. Fill(i, j) + 1 < Width => Fill(Succ(i), j) = Fill(i, j) + 1
  BY <1>1, <1>2, <1>4, SuccIs
<1>8. Fill(i, j) > 0 => Fill(i, Succ(j)) = Fill(i, j) - 1
  BY <1>1, <1>2, <1>5, SuccIs
<1>9. QED
  BY <1>6, <1>7, <1>8

-----------------------------------------------------------------------------
(* The invariant of the ring.                                              *)

RingTypes ==
  /\ made \in Nat /\ feed \in {"idle", "read", "fill", "publish"}
  /\ hSeen \in Index /\ tSeen \in Index /\ head \in Index /\ tail \in Index
  /\ slot \in [0..Slots - 1 -> Nat]
  /\ live \in BOOLEAN /\ running \in BOOLEAN
  /\ sender \in {"none", "wait", "send", "advance"}
  /\ phase \in {"off", "start", "armed", "on", "closed", "stop"}
  /\ drops \in Nat /\ prelink \in Nat /\ sent \in Nat /\ wire \in Nat
  /\ h \in [made : Nat, reported : Nat, watched : Nat]

\* Between p2_rx_stop and the end of p2_rx_start nobody is in the ring.
LinkInv ==
  /\ live <=> phase = "on"
  /\ phase \in {"start", "armed"} => feed = "idle" /\ running /\ sent = 0
  /\ phase \in {"off", "start"} => sender = "none"
  /\ phase = "armed" => head = tail /\ drops = 0 /\ sender = "wait"

\* Each thread's view of the other's index is on the safe side.
IndexInv ==
  /\ Fill(head, tail) <= Slots
  /\ feed \in {"fill", "publish"} => hSeen = head /\ Fill(head, tail) <= Fill(head, tSeen)
  /\ feed = "publish" => Fill(head, tSeen) < Slots /\ slot[head % Slots] = made
  /\ sender \in {"send", "advance"} => Fill(head, tail) > 0

RingInv == RingTypes /\ LinkInv /\ IndexInv /\ AccountedFor

LEMMA RingInit == RingAssumption /\ Init => RingInv
<1> SUFFICES ASSUME RingAssumption, Init PROVE RingInv
  OBVIOUS
<1>1. 0 \in Index /\ Fill(0, 0) = 0
  BY RingConstants, FillSteps DEF Index
<1>2. RingTypes
  <2>1. h \in [made : Nat, reported : Nat, watched : Nat]
    BY RingConstants DEF Init, RingAssumption
  <2>2. slot \in [0..Slots - 1 -> Nat]
    BY DEF Init
  <2>3. QED
    BY <1>1, <2>1, <2>2 DEF Init, RingTypes
<1>3. LinkInv /\ IndexInv /\ AccountedFor
  BY <1>1, RingConstants DEF Init, LinkInv, IndexInv, AccountedFor
<1>4. QED
  BY <1>2, <1>3 DEF RingInv

-----------------------------------------------------------------------------
(* The feed thread.                                                        *)

LEMMA EmitKeeps == RingAssumption /\ RingInv /\ Emit => RingInv'
<1> SUFFICES ASSUME RingAssumption, RingInv, Emit PROVE RingInv'
  OBVIOUS
<1> USE DEF RingInv
<1>1. UNCHANGED <<hSeen, tSeen, slot, head, sender, tail, sent, wire, live, running, phase,
                  drops, h>>
  BY DEF Emit, ringVars, senderVars, linkVars
<1>2. feed = "idle" /\ made' = made + 1
      /\ IF live THEN feed' = "read" /\ prelink' = prelink
         ELSE feed' = "idle" /\ prelink' = prelink + 1
  BY DEF Emit, Gate
<1>3. RingTypes'
  BY <1>1, <1>2 DEF RingTypes, Index
<1>4. LinkInv' /\ IndexInv'
  BY <1>1, <1>2 DEF LinkInv, IndexInv, Fill
<1>5. AccountedFor'
  <2>1. Fill(head, tail) \in Nat
    BY FillSteps DEF RingTypes
  <2>2. CASE live
    BY <1>1, <1>2, <2>1, <2>2 DEF AccountedFor, InFlight, RingTypes, Fill
  <2>3. CASE ~live
    BY <1>1, <2>3 DEF AccountedFor
  <2>4. QED
    BY <2>2, <2>3
<1>6. QED
  BY <1>3, <1>4, <1>5

LEMMA ReadIndicesKeeps == RingAssumption /\ RingInv /\ ReadIndices => RingInv'
<1> SUFFICES ASSUME RingAssumption, RingInv, ReadIndices PROVE RingInv'
  OBVIOUS
<1> USE DEF RingInv
<1>1. UNCHANGED <<made, slot, head, sender, tail, sent, wire, live, running, phase,
                  drops, prelink, h>>
  BY DEF ReadIndices, ringVars, senderVars, linkVars
<1>2. feed = "read" /\ feed' = "fill" /\ hSeen' = head /\ tSeen' = tail
  BY DEF ReadIndices
<1>3. RingTypes'
  BY <1>1, <1>2 DEF RingTypes, Index
<1>4. LinkInv'
  BY <1>1, <1>2 DEF LinkInv
<1>5. IndexInv'
  <2>1. Fill(head, tail) \in Nat
    BY FillSteps DEF RingTypes
  <2>2. QED
    BY <1>1, <1>2, <2>1 DEF IndexInv, Fill
<1>6. AccountedFor'
  BY <1>1, <1>2 DEF AccountedFor, InFlight, Fill
<1>7. QED
  BY <1>3, <1>4, <1>5, <1>6

LEMMA FillSlotKeeps == RingAssumption /\ RingInv /\ FillSlot => RingInv'
<1> SUFFICES ASSUME RingAssumption, RingInv, FillSlot PROVE RingInv'
  OBVIOUS
<1> USE DEF RingInv
<1>1. UNCHANGED <<made, hSeen, tSeen, head, sender, tail, sent, wire, live, running, phase,
                  prelink, h>>
  BY DEF FillSlot, senderVars, linkVars
<1>2. feed = "fill" /\ hSeen = head
  BY DEF FillSlot, IndexInv
<1>3. LinkInv'
  <2>1. phase \notin {"start", "armed"}
    BY <1>2 DEF LinkInv
  <2>2. QED
    BY <1>1, <2>1 DEF LinkInv
<1>4. Fill(head, tail) \in Nat
  BY FillSteps DEF RingTypes
<1>5. CASE Full(hSeen, tSeen)
  <2>1. feed' = "idle" /\ drops' = drops + 1 /\ slot' = slot
    BY <1>5 DEF FillSlot
  <2>2. RingTypes' /\ IndexInv'
    BY <1>1, <2>1 DEF RingTypes, Index, IndexInv, Fill
  <2>3. AccountedFor'
    BY <1>1, <1>2, <1>4, <2>1 DEF AccountedFor, InFlight, RingTypes, Fill
  <2>4. QED
    BY <1>3, <2>2, <2>3
<1>6. CASE ~Full(hSeen, tSeen)
  <2>1. feed' = "publish" /\ drops' = drops /\ slot' = [slot EXCEPT ![head % Slots] = made]
    BY <1>2, <1>6 DEF FillSlot
  <2>2. head % Slots \in 0..Slots - 1
    BY RingConstants DEF RingTypes, Index
  <2>3. slot' \in [0..Slots - 1 -> Nat] /\ slot'[head % Slots] = made
    BY <2>1, <2>2 DEF RingTypes
  <2>4. Fill(head, tSeen) < Slots
    <3>1. Fill(head, tSeen) \in Nat
      BY FillSteps DEF RingTypes
    <3>2. QED
      BY <1>2, <1>6, <3>1, RingConstants DEF Full
  <2>5. RingTypes'
    BY <1>1, <2>1, <2>3 DEF RingTypes, Index
  <2>6. IndexInv'
    BY <1>1, <1>2, <2>1, <2>3, <2>4 DEF IndexInv, Fill
  <2>7. AccountedFor'
    BY <1>1, <1>2, <2>1 DEF AccountedFor, InFlight, Fill
  <2>8. QED
    BY <1>3, <2>5, <2>6, <2>7
<1>7. QED
  BY <1>5, <1>6

LEMMA PublishKeeps == RingAssumption /\ RingInv /\ Publish => RingInv'
<1> SUFFICES ASSUME RingAssumption, RingInv, Publish PROVE RingInv'
  OBVIOUS
<1> USE DEF RingInv
<1>1. UNCHANGED <<made, hSeen, tSeen, slot, sender, tail, sent, wire, live, running, phase,
                  drops, prelink, h>>
  BY DEF Publish, senderVars, linkVars
<1>2. feed = "publish" /\ feed' = "idle" /\ head' = Succ(head)
      /\ Fill(head, tail) <= Fill(head, tSeen) /\ Fill(head, tSeen) < Slots
  BY DEF Publish, IndexInv
<1>3. head' \in Index
  BY <1>2, SuccIs DEF RingTypes
<1>4. /\ Fill(head, tail) \in Nat /\ Fill(head, tSeen) \in Nat
      /\ Fill(head', tail) = Fill(head, tail) + 1
      /\ Fill(head, tail) < Slots
  <2>1. Fill(head, tail) \in Nat /\ Fill(head, tSeen) \in Nat
    BY FillSteps DEF RingTypes
  <2>2. Fill(head, tail) < Slots /\ Fill(head, tail) + 1 < Width
    BY <1>2, <2>1, RingConstants
  <2>3. QED
    BY <1>2, <2>1, <2>2, FillSteps DEF RingTypes
<1>5. RingTypes'
  BY <1>1, <1>2, <1>3 DEF RingTypes, Index
<1>6. LinkInv'
  <2>1. phase \notin {"start", "armed"}
    BY <1>2 DEF LinkInv
  <2>2. QED
    BY <1>1, <2>1 DEF LinkInv
<1>7. IndexInv'
  <2>1. Fill(head, tail)' = Fill(head, tail) + 1
    BY <1>1, <1>4 DEF Fill
  <2>2. QED
    BY <1>1, <1>2, <1>4, <2>1, RingConstants DEF IndexInv
<1>8. AccountedFor'
  <2>1. Fill(head, tail)' = Fill(head, tail) + 1
    BY <1>1, <1>4 DEF Fill
  <2>2. QED
    BY <1>1, <1>2, <1>4, <2>1 DEF AccountedFor, InFlight, RingTypes
<1>9. QED
  BY <1>5, <1>6, <1>7, <1>8

LEMMA TakeStatsKeeps == RingAssumption /\ RingInv /\ TakeStats => RingInv'
<1> SUFFICES ASSUME RingAssumption, RingInv, TakeStats PROVE RingInv'
  OBVIOUS
<1> USE DEF RingInv
<1>1. UNCHANGED <<made, feed, hSeen, tSeen, slot, head, sender, tail, sent, wire, live, running,
                  phase, prelink>>
  BY DEF TakeStats, feedVars, ringVars, senderVars, linkVars
<1>2. feed = "idle" /\ drops' = 0
      /\ h' = [made |-> h.made, reported |-> h.reported + drops, watched |-> h.watched]
  BY DEF TakeStats, RingTypes
<1>3. RingTypes'
  BY <1>1, <1>2 DEF RingTypes, Index
<1>4. LinkInv' /\ IndexInv'
  BY <1>1, <1>2 DEF LinkInv, IndexInv, Fill
<1>5. AccountedFor'
  <2>1. Fill(head, tail) \in Nat
    BY FillSteps DEF RingTypes
  <2>2. QED
    BY <1>1, <1>2, <2>1 DEF AccountedFor, InFlight, RingTypes, Fill
<1>6. QED
  BY <1>3, <1>4, <1>5

-----------------------------------------------------------------------------
(* The txiq thread.                                                        *)

LEMMA WakeKeeps == RingAssumption /\ RingInv /\ Wake => RingInv'
<1> SUFFICES ASSUME RingAssumption, RingInv, Wake PROVE RingInv'
  OBVIOUS
<1> USE DEF RingInv
<1>1. UNCHANGED <<made, feed, hSeen, tSeen, slot, head, tail, sent, wire, live, running, phase,
                  drops, prelink, h>>
  BY DEF Wake, feedVars, ringVars, linkVars
<1>2. sender = "wait" /\ \/ head # tail /\ sender' = "send"
                         \/ ~running /\ sender' = "none"
  BY DEF Wake, Waiting
<1>3. RingTypes'
  BY <1>1, <1>2 DEF RingTypes, Index
<1>4. LinkInv'
  BY <1>1, <1>2 DEF LinkInv
<1>5. IndexInv'
  <2>1. Fill(head, tail) \in Nat /\ (Fill(head, tail) = 0 <=> head = tail)
    BY FillSteps DEF RingTypes
  <2>2. QED
    BY <1>1, <1>2, <2>1 DEF IndexInv, Fill
<1>6. AccountedFor'
  BY <1>1 DEF AccountedFor, InFlight, Fill
<1>7. QED
  BY <1>3, <1>4, <1>5, <1>6

LEMMA SendPacketKeeps == RingAssumption /\ RingInv /\ SendPacket => RingInv'
<1> SUFFICES ASSUME RingAssumption, RingInv, SendPacket PROVE RingInv'
  OBVIOUS
<1> USE DEF RingInv
<1>1. UNCHANGED <<made, feed, hSeen, tSeen, slot, head, tail, sent, live, running, phase,
                  drops, prelink, h>>
  BY DEF SendPacket, feedVars, ringVars, linkVars
<1>2. sender = "send" /\ sender' = "advance" /\ wire' = slot[tail % Slots]
  BY DEF SendPacket
<1>3. RingTypes'
  <2>1. tail % Slots \in 0..Slots - 1
    BY RingConstants DEF RingTypes, Index
  <2>2. wire' \in Nat
    BY <1>2, <2>1 DEF RingTypes
  <2>3. QED
    BY <1>1, <1>2, <2>2 DEF RingTypes, Index
<1>4. LinkInv' /\ IndexInv'
  BY <1>1, <1>2 DEF LinkInv, IndexInv, Fill
<1>5. AccountedFor'
  BY <1>1 DEF AccountedFor, InFlight, Fill
<1>6. QED
  BY <1>3, <1>4, <1>5

LEMMA AdvanceKeeps == RingAssumption /\ RingInv /\ Advance => RingInv'
<1> SUFFICES ASSUME RingAssumption, RingInv, Advance PROVE RingInv'
  OBVIOUS
<1> USE DEF RingInv
<1>1. UNCHANGED <<made, feed, hSeen, tSeen, slot, head, wire, live, running, phase, drops,
                  prelink, h>>
  BY DEF Advance, feedVars, ringVars, linkVars
<1>2. sender = "advance" /\ sender' = "wait" /\ tail' = Succ(tail) /\ sent' = sent + 1
  BY DEF Advance
<1>3. /\ tail' \in Index /\ Fill(head, tail) \in Nat /\ Fill(head, tail) > 0
      /\ Fill(head, tail)' = Fill(head, tail) - 1
  <2>1. Fill(head, Succ(tail)) = Fill(head, tail) - 1 /\ Fill(head, tail) \in Nat
        /\ Fill(head, tail) > 0
    BY <1>2, FillSteps DEF RingTypes, IndexInv
  <2>2. QED
    BY <1>1, <1>2, <2>1, SuccIs DEF RingTypes, Fill
<1>4. RingTypes'
  BY <1>1, <1>2, <1>3 DEF RingTypes, Index
<1>5. LinkInv'
  BY <1>1, <1>2 DEF LinkInv
<1>6. IndexInv'
  <2>1. Fill(head, tSeen)' = Fill(head, tSeen) /\ Fill(head, tSeen) \in Nat
    BY <1>1, FillSteps DEF RingTypes, Fill
  <2>2. QED
    BY <1>1, <1>2, <1>3, <2>1, RingConstants DEF IndexInv
<1>7. AccountedFor'
  BY <1>1, <1>2, <1>3 DEF AccountedFor, InFlight, RingTypes
<1>8. QED
  BY <1>4, <1>5, <1>6, <1>7

-----------------------------------------------------------------------------
(* The link.                                                               *)

LEMMA LinkStepKeeps == RingAssumption /\ RingInv /\ LinkStep => RingInv'
<1> SUFFICES ASSUME RingAssumption, RingInv, LinkStep PROVE RingInv'
  OBVIOUS
<1> USE DEF RingInv
<1>1. CASE Start
  <2>1. UNCHANGED <<made, feed, hSeen, tSeen, slot, head, sender, tail, wire, live, drops, prelink,
                    h>>
    BY <1>1 DEF Start, feedVars, ringVars
  <2>2. phase = "off" /\ feed = "idle" /\ phase' = "start" /\ running' = TRUE /\ sent' = 0
    BY <1>1 DEF Start
  <2>3. QED
    BY <2>1, <2>2 DEF RingTypes, Index, LinkInv, IndexInv, AccountedFor, Fill
<1>2. CASE Arm
  <2>1. UNCHANGED <<made, feed, hSeen, tSeen, slot, wire, live, running, sent, prelink, h>>
    BY <1>2 DEF Arm, feedVars
  <2>2. phase = "start" /\ phase' = "armed" /\ head' = 0 /\ tail' = 0 /\ drops' = 0
        /\ sender' = "wait"
    BY <1>2 DEF Arm, DropsAtStart
  <2>3. 0 \in Index /\ Fill(0, 0) = 0
    BY RingConstants, FillSteps DEF Index
  <2>4. RingTypes' /\ LinkInv'
    BY <2>1, <2>2, <2>3 DEF RingTypes, Index, LinkInv
  <2>5. Fill(head, tail)' = 0
    BY <2>2, <2>3 DEF Fill
  <2>6. IndexInv' /\ AccountedFor'
    BY <2>1, <2>2, <2>5, RingConstants DEF IndexInv, LinkInv, AccountedFor
  <2>7. QED
    BY <2>4, <2>6
<1>3. CASE Open
  <2>1. UNCHANGED <<made, feed, hSeen, tSeen, slot, head, sender, tail, sent, wire, running, drops>>
    BY <1>3 DEF Open, feedVars, ringVars, senderVars
  <2>2. /\ phase = "armed" /\ phase' = "on" /\ prelink' = 0 /\ live' = TRUE
        /\ h' = [made |-> made, reported |-> 0, watched |-> h.watched]
    BY <1>3 DEF Open, RingTypes
  <2>3. feed = "idle" /\ running /\ sent = 0 /\ head = tail /\ drops = 0 /\ sender = "wait"
    BY <2>2 DEF LinkInv
  <2>4. Fill(head, tail) = 0
    BY <2>3, FillSteps DEF RingTypes
  <2>5. RingTypes' /\ LinkInv' /\ IndexInv'
    BY <2>1, <2>2, <2>3 DEF RingTypes, Index, LinkInv, IndexInv, Fill
  <2>6. AccountedFor'
    BY <2>1, <2>2, <2>3, <2>4 DEF AccountedFor, InFlight, RingTypes, Fill
  <2>7. QED
    BY <2>5, <2>6
<1>4. CASE Close
  <2>1. UNCHANGED <<made, feed, hSeen, tSeen, slot, head, sender, tail, sent, wire, running, drops,
                    prelink, h>>
    BY <1>4 DEF Close, feedVars, ringVars, senderVars
  <2>2. phase = "on" /\ phase' = "closed" /\ live' = FALSE
    BY <1>4 DEF Close
  <2>3. QED
    BY <2>1, <2>2 DEF RingTypes, Index, LinkInv, IndexInv, AccountedFor, Fill
<1>5. CASE Stop
  <2>1. UNCHANGED <<made, feed, hSeen, tSeen, slot, head, sender, tail, sent, wire, live, drops,
                    prelink, h>>
    BY <1>5 DEF Stop, feedVars, ringVars, senderVars
  <2>2. phase = "closed" /\ phase' = "stop" /\ running' = FALSE
    BY <1>5 DEF Stop
  <2>3. QED
    BY <2>1, <2>2 DEF RingTypes, Index, LinkInv, IndexInv, AccountedFor, Fill, InFlight
<1>6. CASE Join
  <2>1. UNCHANGED <<made, feed, hSeen, tSeen, slot, head, sender, tail, sent, wire, live, running,
                    drops, prelink, h>>
    BY <1>6 DEF Join, feedVars, ringVars, senderVars
  <2>2. phase = "stop" /\ sender = "none" /\ phase' = "off"
    BY <1>6 DEF Join
  <2>3. QED
    BY <2>1, <2>2 DEF RingTypes, Index, LinkInv, IndexInv, AccountedFor, Fill, InFlight
<1>7. QED
  BY <1>1, <1>2, <1>3, <1>4, <1>5, <1>6 DEF LinkStep

\* The inductive invariant: no step of either thread or of the link breaks it.
LEMMA RingStep == RingAssumption /\ RingInv /\ [Next]_vars => RingInv'
<1> SUFFICES ASSUME RingAssumption, RingInv, [Next]_vars PROVE RingInv'
  OBVIOUS
<1>1. CASE Next
  BY <1>1, EmitKeeps, ReadIndicesKeeps, FillSlotKeeps, PublishKeeps, TakeStatsKeeps, WakeKeeps,
     SendPacketKeeps, AdvanceKeeps, LinkStepKeeps DEF Next, FeedStep, SenderStep
<1>2. CASE UNCHANGED vars
  BY <1>2 DEF vars, feedVars, ringVars, senderVars, linkVars, RingInv, RingTypes, Index, LinkInv,
              IndexInv, AccountedFor, InFlight, Fill
<1>3. QED
  BY <1>1, <1>2

-----------------------------------------------------------------------------
(* The slots of the packets that wait.                                     *)

\* An index below twice the width, taken into it.
LEMMA WrapIs ==
  ASSUME RingAssumption, NEW x \in 0..(2 * Width - 1)
  PROVE  x % Width = (IF x < Width THEN x ELSE x - Width) /\ x % Width \in Index
<1>1. Width \in Nat /\ Width > 0
  BY RingConstants
<1>2. CASE x < Width
  BY <1>1, <1>2 DEF Index
<1>3. CASE ~(x < Width)
  <2>1. x - Width \in 0..Width - 1 /\ x = (x - Width) + Width
    BY <1>1, <1>3
  <2>2. ((x - Width) + Width) % Width = x - Width
    BY <1>1, <2>1
  <2>3. QED
    BY <1>3, <2>1, <2>2 DEF Index
<1>4. QED
  BY <1>2, <1>3

LEMMA Quotient ==
  ASSUME NEW a \in Nat, NEW s \in Nat \ {0}
  PROVE  a = s * (a \div s) + (a % s) /\ a % s \in 0..s-1 /\ a \div s \in Nat
OBVIOUS

LEMMA NoMultiple ==
  ASSUME NEW s \in Nat \ {0}, NEW k \in Int, NEW d \in 1..s-1
  PROVE  d # s * k
OBVIOUS

\* Positions less than Slots apart lie in different slots: this is where the
\* slots must divide the width (protocol2.c's TXIQ_RING_PKTS and a guint).
LEMMA SlotsApart ==
  ASSUME RingAssumption, NEW f \in Index, NEW c \in Nat, NEW d \in Nat,
         c < d, d < c + Slots, d < Width
  PROVE  ((f + c) % Width) % Slots # ((f + d) % Width) % Slots
<1> DEFINE a == (f + c) % Width
           b == (f + d) % Width
<1>1. Slots \in Nat \ {0} /\ Width \in Nat /\ Width > 0 /\ f \in 0..Width - 1
  BY RingConstants DEF Index
<1>2. f + c \in 0..(2 * Width - 1) /\ f + d \in 0..(2 * Width - 1)
  BY <1>1
<1>3. /\ a = (IF f + c < Width THEN f + c ELSE f + c - Width) /\ a \in Nat
      /\ b = (IF f + d < Width THEN f + d ELSE f + d - Width) /\ b \in Nat
  BY <1>1, <1>2, WrapIs DEF Index
<1>4. b - a = d - c \/ b - a = d - c - Width
  BY <1>1, <1>3
<1>5. PICK w \in Nat : Width = Slots * w
  <2>1. Width = Slots * (Width \div Slots) + 0
    BY <1>1, Quotient, RingConstants
  <2>2. Width \div Slots \in Nat
    BY <1>1, Quotient
  <2> DEFINE w == Width \div Slots
  <2>3. Width = Slots * w /\ w \in Nat
    BY <1>1, <2>1, <2>2
  <2> HIDE DEF w
  <2>4. QED
    BY <2>3
<1> HIDE DEF a, b
<1>6. ASSUME a % Slots = b % Slots PROVE FALSE
  <2>1. a = Slots * (a \div Slots) + (a % Slots) /\ b = Slots * (b \div Slots) + (b % Slots)
        /\ a \div Slots \in Nat /\ b \div Slots \in Nat /\ a % Slots \in Nat
    <3>1. a = Slots * (a \div Slots) + (a % Slots) /\ a \div Slots \in Nat
          /\ a % Slots \in 0..Slots-1
      BY <1>1, <1>3, Quotient
    <3>2. b = Slots * (b \div Slots) + (b % Slots) /\ b \div Slots \in Nat
      BY <1>1, <1>3, Quotient
    <3>3. a % Slots \in Nat
      BY <1>1, <3>1
    <3>4. QED
      BY <3>1, <3>2, <3>3
  <2> DEFINE p == a \div Slots
             q == b \div Slots
             r == a % Slots
  <2>2. a = Slots * p + r /\ b = Slots * q + r /\ p \in Nat /\ q \in Nat /\ r \in Nat
    BY <1>6, <2>1
  <2> HIDE DEF p, q, r
  <2>3. b - a = Slots * (q - p)
    BY <1>1, <1>3, <2>2
  <2>4. d - c \in 1..Slots - 1
    BY <1>1
  <2>5. CASE b - a = d - c
    <3>1. q - p \in Int
      BY <2>2
    <3>2. QED
      BY <1>1, <2>3, <2>4, <2>5, <3>1, NoMultiple
  <2>6. CASE b - a = d - c - Width
    <3>1. d - c = Slots * (q - p) + Slots * w
      BY <1>1, <1>3, <1>5, <2>2, <2>3, <2>6
    <3>2. Slots * (q - p) + Slots * w = Slots * ((q - p) + w)
      BY <1>1, <1>5, <2>2
    <3>3. (q - p) + w \in Int
      BY <1>5, <2>2
    <3>4. QED
      BY <1>1, <2>4, <3>1, <3>2, <3>3, NoMultiple
  <2>7. QED
    BY <1>4, <2>5, <2>6
<1>7. QED
  BY <1>6 DEF a, b

\* The head is Fill positions past any index.
LEMMA HeadAt ==
  ASSUME RingAssumption, NEW i \in Index, NEW f \in Index
  PROVE  (f + Fill(i, f)) % Width = i
<1>1. Width \in Nat /\ Width > 0 /\ i \in 0..Width - 1 /\ f \in 0..Width - 1
  BY RingConstants DEF Index
<1>2. Fill(i, f) = IF i >= f THEN i - f ELSE i + Width - f
  BY FillIs
<1>3. f + Fill(i, f) \in 0..(2 * Width - 1)
  BY <1>1, <1>2
<1>4. QED
  BY <1>1, <1>2, <1>3, WrapIs

\* A position seen from the next index.
LEMMA NextAt ==
  ASSUME RingAssumption, NEW f \in Index, NEW c \in Nat, c < Width
  PROVE  (f + c) % Width \in Index
         /\ (c + 1 < Width => (Succ(f) + c) % Width = (f + (c + 1)) % Width)
<1>1. Width \in Nat /\ Width > 0 /\ f \in 0..Width - 1
  BY RingConstants DEF Index
<1>2. f + c \in 0..(2 * Width - 1)
  BY <1>1
<1>3. (f + c) % Width \in Index
  BY <1>2, WrapIs
<1>4. ASSUME c + 1 < Width PROVE (Succ(f) + c) % Width = (f + (c + 1)) % Width
  <2>1. Succ(f) = IF f + 1 = Width THEN 0 ELSE f + 1
    BY SuccIs
  <2>2. Succ(f) + c \in 0..(2 * Width - 1) /\ f + (c + 1) \in 0..(2 * Width - 1)
    BY <1>1, <1>4, <2>1
  <2>3. QED
    BY <1>1, <1>4, <2>1, <2>2, WrapIs
<1>5. QED
  BY <1>3, <1>4

-----------------------------------------------------------------------------
(* The ring implements the queue.                                          *)

\* The packets that wait: Fill of them, each in the slot of its position.
QueueIs ==
  /\ First \in Index /\ Fill(head, First) \in 0..Slots
  /\ Queue \in Seq(Nat) /\ Len(Queue) = Fill(head, First)
  /\ \A i \in 1..Fill(head, First) : Queue[i] = slot[((First + i - 1) % Width) % Slots]

LEMMA QueueFacts == RingAssumption /\ RingInv => QueueIs
<1> SUFFICES ASSUME RingAssumption, RingInv PROVE QueueIs
  OBVIOUS
<1>1. RingTypes /\ IndexInv
  BY DEF RingInv
<1>2. First \in Index
  BY <1>1, SuccIs DEF First, RingTypes
<1>3. Fill(head, First) \in 0..Slots
  <2>1. Fill(head, tail) \in 0..Slots
    BY <1>1, FillSteps, RingConstants DEF RingTypes, IndexInv
  <2>2. CASE sender = "advance"
    <3>1. Fill(head, tail) > 0
      BY <1>1, <2>2 DEF IndexInv
    <3>2. Fill(head, Succ(tail)) = Fill(head, tail) - 1
      BY <1>1, <3>1, FillSteps DEF RingTypes
    <3>3. QED
      BY <2>1, <2>2, <3>1, <3>2, RingConstants DEF First
  <2>3. CASE sender # "advance"
    BY <2>1, <2>3 DEF First
  <2>4. QED
    BY <2>2, <2>3
<1> DEFINE n == Fill(head, First)
<1>4. n \in 0..Slots /\ n \in Nat
  BY <1>3, RingConstants
<1>5. \A i \in 1..n : slot[((First + i - 1) % Width) % Slots] \in Nat
  <2> TAKE i \in 1..n
  <2>1. First + i - 1 \in Nat
    BY <1>2, <1>4, RingConstants DEF Index
  <2>2. (First + i - 1) % Width \in Nat
    BY <2>1, RingConstants
  <2>3. ((First + i - 1) % Width) % Slots \in 0..Slots - 1
    BY <2>2, RingConstants
  <2>4. QED
    BY <1>1, <2>3 DEF RingTypes
<1>6. Queue = [i \in 1..n |-> slot[((First + i - 1) % Width) % Slots]]
  BY DEF Queue
<1> HIDE DEF n
<1>7. Queue \in [1..n -> Nat] /\ \A i \in 1..n : Queue[i] = slot[((First + i - 1) % Width) % Slots]
  BY <1>5, <1>6
<1>8. Queue \in Seq(Nat)
  BY <1>4, <1>7, SeqDef
<1>9. Len(Queue) = n
  BY <1>4, <1>7, <1>8, LenProperties
<1>10. QED
  BY <1>2, <1>4, <1>7, <1>8, <1>9 DEF n, QueueIs

LEMMA QueueFactsNext == RingAssumption /\ RingInv' => QueueIs'
<1>1. RingAssumption <=> RingAssumption'
  BY DEF RingAssumption
<1>2. QED
  BY <1>1, QueueFacts, PTL

LEMMA QueueSame ==
  ASSUME UNCHANGED <<slot, head, tail, sender>>
  PROVE  Queue' = Queue
BY DEF Queue, First, Fill

\* The initial state of the ring is one of the queue.
LEMMA PromiseInit == RingAssumption /\ Init => Promise!Init
<1> SUFFICES ASSUME RingAssumption, Init PROVE Promise!Init
  OBVIOUS
<1>1. RingInv
  BY RingInit
<1>2. First = 0 /\ head = 0
  BY DEF Init, First
<1>3. 0 \in Index
  BY RingConstants DEF Index
<1>4. Len(Queue) = 0 /\ Queue \in Seq(Nat)
  BY <1>1, <1>2, <1>3, QueueFacts, FillSteps DEF QueueIs
<1>5. Queue = <<>>
  BY <1>4, EmptySeq
<1>6. QED
  BY <1>5 DEF Init, Promise!Init, InFlight

\* The feed thread: a packet is lost, or accepted when its head is published.
LEMMA PromiseFeed ==
  ASSUME RingAssumption, RingInv, RingInv', FeedStep \/ TakeStats
  PROVE  [Promise!Next]_(Promise!vars)
<1>1. RingTypes /\ LinkInv /\ IndexInv /\ QueueIs /\ QueueIs'
  BY QueueFacts, QueueFactsNext DEF RingInv
<1>2. CASE Emit
  <2>1. /\ feed = "idle" /\ made' = made + 1 /\ feed' \in {"idle", "read"}
        /\ UNCHANGED <<slot, head, tail, sender, wire>>
    BY <1>1, <1>2 DEF Emit, ringVars, senderVars
  <2>2. Queue' = Queue
    BY <2>1, QueueSame
  <2>3. CASE feed' = "read"
    BY <1>1, <2>1, <2>2, <2>3 DEF Promise!vars, InFlight, RingTypes
  <2>4. CASE feed' = "idle"
    BY <1>1, <2>1, <2>2, <2>4 DEF Promise!Next, Promise!Lose, InFlight, RingTypes
  <2>5. QED
    BY <2>1, <2>3, <2>4
<1>3. CASE ReadIndices
  <2>1. feed = "read" /\ feed' = "fill" /\ UNCHANGED <<made, slot, head, tail, sender, wire>>
    BY <1>3 DEF ReadIndices, ringVars, senderVars
  <2>2. QED
    BY <2>1, QueueSame DEF Promise!vars, InFlight
<1>4. CASE FillSlot /\ Full(hSeen, tSeen)
  <2>1. feed = "fill" /\ feed' = "idle" /\ UNCHANGED <<made, slot, head, tail, sender, wire>>
    BY <1>4 DEF FillSlot, senderVars
  <2>2. QED
    BY <1>1, <2>1, QueueSame DEF Promise!Next, Promise!Lose, InFlight, RingTypes
<1>5. CASE FillSlot /\ ~Full(hSeen, tSeen)
  <2>1. /\ feed = "fill" /\ feed' = "publish" /\ hSeen = head
        /\ slot' = [slot EXCEPT ![head % Slots] = made]
        /\ UNCHANGED <<made, head, tail, sender, wire>>
    BY <1>1, <1>5 DEF FillSlot, senderVars, IndexInv
  <2> DEFINE n == Fill(head, First)
  <2>2. /\ First' = First /\ Fill(head, First)' = n
        /\ First \in Index /\ n \in 0..Slots /\ head \in Index
    BY <1>1, <2>1 DEF QueueIs, First, Fill, RingTypes
  <2>3. n < Slots
    <3>1. Fill(head, tSeen) \in Nat /\ Fill(head, tail) \in Nat
          /\ (Fill(head, tail) > 0 => Fill(head, Succ(tail)) = Fill(head, tail) - 1)
      BY <1>1, FillSteps DEF RingTypes
    <3>2. Fill(head, tSeen) < Slots /\ Fill(head, tail) <= Fill(head, tSeen)
      BY <1>1, <1>5, <2>1, <3>1, RingConstants DEF Full, IndexInv
    <3>3. n <= Fill(head, tail)
      BY <1>1, <3>1 DEF First, IndexInv
    <3>4. QED
      BY <2>2, <3>1, <3>2, <3>3, RingConstants
  <2>4. (First + n) % Width = head
    BY <2>2, HeadAt
  <2>5. ASSUME NEW i \in 1..n PROVE Queue'[i] = Queue[i]
    <3>1. i - 1 \in Nat /\ n \in Nat /\ i - 1 < n /\ n < (i - 1) + Slots /\ n < Width
      BY <2>2, <2>3, RingConstants
    <3>2. ((First + (i - 1)) % Width) % Slots # ((First + n) % Width) % Slots
      BY <2>2, <3>1, SlotsApart
    <3>3. First + (i - 1) = First + i - 1
      BY <2>2, <3>1 DEF Index
    <3>4. slot'[((First + i - 1) % Width) % Slots] = slot[((First + i - 1) % Width) % Slots]
      <4>1. (First + i - 1) % Width \in Index
        BY <2>2, <3>1, <3>3, NextAt, RingConstants
      <4>2. ((First + i - 1) % Width) % Slots \in 0..Slots - 1
        BY <4>1, RingConstants DEF Index
      <4>3. QED
        BY <1>1, <2>1, <2>4, <3>2, <3>3, <4>2 DEF RingTypes
    <3>5. Queue[i] = slot[((First + i - 1) % Width) % Slots]
      BY <1>1 DEF QueueIs
    <3>6. Queue'[i] = slot'[((First' + i - 1) % Width) % Slots]
      BY <1>1, <2>2 DEF QueueIs
    <3>7. QED
      BY <2>2, <3>4, <3>5, <3>6
  <2>6. Queue' = Queue
    BY <1>1, <2>2, <2>5, SeqEqual DEF QueueIs
  <2>7. QED
    BY <2>1, <2>6 DEF Promise!vars, InFlight
<1>6. CASE Publish
  <2>1. feed = "publish" /\ feed' = "idle" /\ UNCHANGED <<made, slot, tail, sender, wire>>
        /\ hSeen = head /\ head' = Succ(head) /\ slot[head % Slots] = made
    BY <1>1, <1>6 DEF Publish, senderVars, IndexInv
  <2> DEFINE n == Fill(head, First)
  <2>2. /\ First' = First /\ First \in Index /\ n \in 0..Slots /\ head \in Index
        /\ Fill(head', First) = Fill(head, First)'
    BY <1>1, <2>1 DEF QueueIs, First, Fill, RingTypes
  <2>3. n < Slots
    <3>1. Fill(head, tSeen) \in Nat /\ Fill(head, tail) \in Nat
          /\ (Fill(head, tail) > 0 => Fill(head, Succ(tail)) = Fill(head, tail) - 1)
      BY <1>1, FillSteps DEF RingTypes
    <3>2. Fill(head, tSeen) < Slots /\ Fill(head, tail) <= Fill(head, tSeen)
      BY <1>1, <2>1 DEF IndexInv
    <3>3. n <= Fill(head, tail)
      BY <1>1, <3>1 DEF First, IndexInv
    <3>4. QED
      BY <2>2, <3>1, <3>2, <3>3, RingConstants
  <2>4. Fill(head, First)' = n + 1
    BY <2>1, <2>2, <2>3, FillSteps, RingConstants
  <2>5. (First + n) % Width = head
    BY <2>2, HeadAt
  <2>6. /\ Queue \in Seq(Nat) /\ Len(Queue) = n /\ Queue' \in Seq(Nat) /\ Len(Queue') = n + 1
        /\ \A i \in 1..n : Queue'[i] = Queue[i]
        /\ Queue'[n + 1] = made
    <3>1. Queue \in Seq(Nat) /\ Len(Queue) = n /\ Queue' \in Seq(Nat) /\ Len(Queue') = n + 1
      BY <1>1, <2>4 DEF QueueIs
    <3>2. \A i \in 1..n : Queue[i] = slot[((First + i - 1) % Width) % Slots]
      BY <1>1 DEF QueueIs
    <3>3. \A i \in 1..n + 1 : Queue'[i] = slot[((First + i - 1) % Width) % Slots]
      <4>1. \A i \in 1..Fill(head, First)' : Queue'[i] = slot'[((First' + i - 1) % Width) % Slots]
        BY <1>1 DEF QueueIs
      <4>2. QED
        BY <2>1, <2>2, <2>4, <4>1
    <3>4. n \in Nat /\ First \in Nat
      BY <2>2, RingConstants DEF Index
    <3>5. First + (n + 1) - 1 = First + n
      BY <3>4
    <3>6. \A i \in 1..n : Queue'[i] = Queue[i]
      BY <3>2, <3>3, <3>4
    <3>7. Queue'[n + 1] = slot[head % Slots]
      BY <2>5, <3>3, <3>4, <3>5
    <3>8. QED
      BY <2>1, <3>1, <3>6, <3>7
  <2>7. Queue' = Append(Queue, made)
    <3>1. made \in Nat
      BY <1>1 DEF RingTypes
    <3>2. /\ Append(Queue, made) \in Seq(Nat) /\ Len(Append(Queue, made)) = n + 1
          /\ \A i \in 1..n : Append(Queue, made)[i] = Queue[i]
          /\ Append(Queue, made)[n + 1] = made
      BY <2>6, <3>1, AppendProperties
    <3>3. \A i \in 1..n + 1 : Queue'[i] = Append(Queue, made)[i]
      BY <2>2, <2>6, <3>2, RingConstants
    <3>4. QED
      BY <2>6, <3>2, <3>3, SeqEqual
  <2>8. QED
    <3>1. (made - InFlight)' = (made - InFlight) + 1 /\ (made - InFlight)' = made
      BY <1>1, <2>1 DEF InFlight, RingTypes
    <3>2. Len(Queue) < Slots
      BY <2>3, <2>6
    <3>3. QED
      BY <2>1, <2>7, <3>1, <3>2 DEF Promise!Next, Promise!Accept
<1>7. CASE TakeStats
  <2>1. UNCHANGED <<made, feed, slot, head, tail, sender, wire>>
    BY <1>7 DEF TakeStats, feedVars, ringVars, senderVars
  <2>2. QED
    BY <2>1, QueueSame DEF Promise!vars, InFlight
<1>8. QED
  BY <1>2, <1>3, <1>4, <1>5, <1>6, <1>7 DEF FeedStep

\* The txiq thread: its send takes the head of the queue, its end takes the link down.
LEMMA PromiseSender ==
  ASSUME RingAssumption, RingInv, RingInv', SenderStep
  PROVE  [Promise!Next]_(Promise!vars)
<1>1. RingTypes /\ LinkInv /\ IndexInv /\ QueueIs /\ QueueIs'
  BY QueueFacts, QueueFactsNext DEF RingInv
<1>2. CASE Wake
  <2>1. /\ sender = "wait" /\ sender' \in {"send", "none"}
        /\ UNCHANGED <<made, feed, slot, head, tail, wire>>
    BY <1>2 DEF Wake, feedVars, ringVars
  <2>2. Queue' = Queue
    BY <2>1 DEF Queue, First, Fill
  <2>3. QED
    BY <2>1, <2>2 DEF Promise!Next, Promise!LinkDown, Promise!vars, InFlight
<1>3. CASE SendPacket
  <2>1. /\ sender = "send" /\ sender' = "advance" /\ wire' = slot[tail % Slots]
        /\ UNCHANGED <<made, feed, slot, head, tail>>
    BY <1>3 DEF SendPacket, feedVars, ringVars
  <2> DEFINE n == Fill(head, tail)
  <2>2. /\ First = tail /\ First' = Succ(tail) /\ tail \in Index /\ head \in Index
        /\ n \in 1..Slots /\ n - 1 \in Nat /\ Fill(head, First)' = n - 1
    <3>1. First = tail /\ First' = Succ(tail) /\ tail \in Index /\ head \in Index
      BY <1>1, <2>1 DEF First, Succ, RingTypes
    <3>2. n \in 1..Slots
      BY <1>1, <2>1, <3>1, RingConstants DEF IndexInv, QueueIs
    <3>3. Fill(head, Succ(tail)) = n - 1
      BY <3>1, <3>2, FillSteps, RingConstants
    <3>4. Fill(head, First)' = Fill(head, Succ(tail))
      BY <2>1, <3>1 DEF Fill
    <3>5. QED
      BY <3>1, <3>2, <3>3, <3>4, RingConstants
  <2>3. /\ Queue \in Seq(Nat) /\ Len(Queue) = n /\ Queue' \in Seq(Nat) /\ Len(Queue') = n - 1
        /\ \A i \in 1..n : Queue[i] = slot[((tail + i - 1) % Width) % Slots]
        /\ \A i \in 1..n - 1 : Queue'[i] = slot[((Succ(tail) + i - 1) % Width) % Slots]
    BY <1>1, <2>1, <2>2 DEF QueueIs
  <2>4. Queue # <<>> /\ Tail(Queue) \in Seq(Nat) /\ Len(Tail(Queue)) = n - 1
        /\ \A i \in 1..n - 1 : Tail(Queue)[i] = Queue[i + 1]
    <3>1. Queue # <<>>
      BY <2>2, <2>3, EmptySeq
    <3>2. QED
      BY <2>3, <3>1, HeadTailProperties
  <2>5. Head(Queue) = slot[tail % Slots]
    <3>1. Head(Queue) = Queue[1] /\ 1 \in 1..n
      BY <2>2, <2>3, <2>4, RingConstants
    <3>2. tail + 1 - 1 = tail /\ tail % Width = tail
      BY <2>2, RingConstants DEF Index
    <3>3. QED
      BY <2>3, <3>1, <3>2
  <2>6. ASSUME NEW i \in 1..n - 1 PROVE Queue'[i] = Queue[i + 1]
    <3>1. /\ i - 1 \in Nat /\ (i - 1) + 1 < Width /\ i - 1 < Width /\ i + 1 \in 1..n
          /\ tail \in Nat /\ Succ(tail) \in Nat
      BY <2>2, RingConstants, SuccIs DEF Index
    <3>2. (Succ(tail) + (i - 1)) % Width = (tail + ((i - 1) + 1)) % Width
      BY <2>2, <3>1, NextAt
    <3>3. Succ(tail) + (i - 1) = Succ(tail) + i - 1 /\ tail + ((i - 1) + 1) = tail + (i + 1) - 1
      BY <3>1
    <3>4. Queue[i + 1] = slot[((tail + (i + 1) - 1) % Width) % Slots]
      BY <2>3, <3>1
    <3>5. QED
      BY <2>3, <3>2, <3>3, <3>4
  <2>7. Queue' = Tail(Queue)
    <3>1. \A i \in 1..Len(Queue') : Queue'[i] = Tail(Queue)[i]
      BY <2>3, <2>4, <2>6
    <3>2. QED
      BY <2>3, <2>4, <3>1, SeqEqual
  <2>8. QED
    BY <2>1, <2>4, <2>5, <2>7 DEF Promise!Next, Promise!Send, InFlight
<1>4. CASE Advance
  <2>1. /\ sender = "advance" /\ sender' = "wait" /\ tail' = Succ(tail)
        /\ UNCHANGED <<made, feed, slot, head, wire>>
    BY <1>4 DEF Advance, feedVars, ringVars
  <2>2. First' = First
    BY <2>1 DEF First
  <2>3. Queue' = Queue
    BY <2>1, <2>2 DEF Queue, Fill
  <2>4. QED
    BY <2>1, <2>3 DEF Promise!vars, InFlight
<1>5. QED
  BY <1>2, <1>3, <1>4 DEF SenderStep

\* The link: the reset of the ring is a link that comes up without packets.
LEMMA PromiseLink ==
  ASSUME RingAssumption, RingInv, RingInv', LinkStep
  PROVE  [Promise!Next]_(Promise!vars)
<1>1. LinkInv /\ QueueIs'
  BY QueueFactsNext DEF RingInv
<1>2. CASE Arm
  <2>1. /\ phase = "start" /\ head' = 0 /\ tail' = 0 /\ sender' = "wait"
        /\ UNCHANGED <<made, feed, slot, wire>>
    BY <1>2 DEF Arm, feedVars
  <2>2. sender = "none"
    BY <1>1, <2>1 DEF LinkInv
  <2>3. Queue' = <<>>
    <3>1. First' = 0 /\ 0 \in Index
      BY <2>1, RingConstants DEF First, Index
    <3>2. Fill(head, First)' = 0
      <4>1. Fill(0, 0) = 0
        BY <3>1, FillSteps
      <4>2. QED
        BY <2>1, <3>1, <4>1 DEF Fill
    <3>3. Queue' \in Seq(Nat) /\ Len(Queue') = 0
      BY <1>1, <3>2 DEF QueueIs
    <3>4. QED
      BY <3>3, EmptySeq
  <2>4. QED
    BY <2>1, <2>2, <2>3 DEF Promise!Next, Promise!LinkUp, InFlight
<1>3. CASE Start \/ Open \/ Close \/ Stop \/ Join
  <2>1. UNCHANGED <<made, feed, slot, head, tail, sender, wire>>
    BY <1>3 DEF Start, Open, Close, Stop, Join, feedVars, ringVars, senderVars
  <2>2. QED
    BY <2>1, QueueSame DEF Promise!vars, InFlight
<1>4. QED
  BY <1>2, <1>3 DEF LinkStep

\* Every step of the ring is one of the queue, or leaves it as it is.
LEMMA PromiseStep ==
  RingAssumption /\ RingInv /\ RingInv' /\ [Next]_vars => [Promise!Next]_(Promise!vars)
<1> SUFFICES ASSUME RingAssumption, RingInv, RingInv', [Next]_vars
             PROVE  [Promise!Next]_(Promise!vars)
  OBVIOUS
<1>1. CASE Next
  BY <1>1, PromiseFeed, PromiseSender, PromiseLink DEF Next
<1>2. CASE UNCHANGED vars
  BY <1>2, QueueSame DEF vars, feedVars, ringVars, senderVars, Promise!vars, InFlight
<1>3. QED
  BY <1>1, <1>2

\* The ring of TXIQ_RING_PKTS slots, with indices that wrap, implements the queue
\* that may lose: order, no duplicates, no packet of the last link
\* (p2_tx_iq_socket_emit, txiq_thread, the reset in p2_rx_start).
THEOREM RingImplementsQueue == RingAssumption /\ Spec => RingIsAQueue
<1>1. RingAssumption /\ Init => RingInv /\ Promise!Init
  BY RingInit, PromiseInit
<1>2. RingAssumption /\ RingInv /\ [Next]_vars => RingInv' /\ [Promise!Next]_(Promise!vars)
  BY RingStep, PromiseStep
<1>3. RingAssumption <=> RingAssumption'
  BY DEF RingAssumption
<1>4. QED
  BY <1>1, <1>2, <1>3, PTL DEF Spec, RingIsAQueue, Promise!Spec

=============================================================================
