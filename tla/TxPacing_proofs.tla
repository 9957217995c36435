---------------------------- MODULE TxPacing_proofs ----------------------------
(***************************************************************************)
(* Proofs about the pacing of the transmit feed, for every length of a     *)
(* block, every timeout of three blocks or more and every network: the     *)
(* feed never gets further ahead of the radio than five blocks.            *)
(* Live_proofs cites the lemmas for the pacing as MCLive runs it.          *)
(***************************************************************************)
EXTENDS TxPacing, TLAPS

LEMMA PacingConstants ==
  ASSUME PacingAssumption
  PROVE  /\ PerBlock \in Nat /\ PerBlock > 0 /\ Timeout \in Nat /\ Timeout >= 3 * PerBlock
         /\ Hold \in Nat /\ Busy \in Nat /\ Busy < PerBlock
BY DEF PacingAssumption

-----------------------------------------------------------------------------
(* The invariant.                                                          *)

\* The block in work, which is paid for.
InWork == IF at = "work" THEN PerBlock ELSE 0

\* What of the backlog can still become credit before it is spent.
Owed == IF backlog > 2 * PerBlock THEN 2 * PerBlock ELSE backlog

PacingTypes ==
  /\ credit \in 0..2 * PerBlock /\ clockOk \in BOOLEAN
  /\ at \in {"work", "pace", "wait", "sleep"}
  /\ left \in 0..Timeout /\ next \in Int
  /\ fill \in Nat /\ streaming \in BOOLEAN /\ calm \in BOOLEAN /\ backlog \in Nat

\* By the radio's clock: what the FIFO holds, what is in work and what the radio's
\* packets will pay for come to five blocks.
ClockInv ==
  clockOk =>
    /\ at # "sleep"
    /\ fill + InWork + credit + Owed <= 5 * PerBlock
    /\ at = "wait" => /\ fill <= 5 * PerBlock - (Timeout - left) \/ fill = 0
                      /\ left = Timeout \/ credit < PerBlock \/ backlog = 0

\* By the local timer: one block per PerBlock, counted to the next deadline, and
\* credit for a block means a backlog of the time since the last probe at most.
TimerInv ==
  ~clockOk =>
    /\ at # "wait"
    /\ at = "sleep" => next \in 0..PerBlock /\ fill <= PerBlock + next
    /\ at = "work" => /\ next <= 0 /\ next >= left - Busy /\ left <= Busy
                      /\ fill <= PerBlock + next
    /\ at = "pace" => next <= 0 /\ next >= -Busy /\ fill <= 2 * PerBlock + next
    /\ credit < PerBlock \/ backlog <= PerBlock - next

PacingInv == PacingTypes /\ ClockInv /\ TimerInv

LEMMA PacingInit == PacingAssumption /\ Init => PacingInv
<1> SUFFICES ASSUME PacingAssumption, Init PROVE PacingInv
  OBVIOUS
<1>1. /\ credit = 0 /\ clockOk = FALSE /\ at = "work" /\ left = Busy /\ next = 0
      /\ fill = 0 /\ streaming \in BOOLEAN /\ calm = TRUE /\ backlog = 0
  BY DEF Init
<1>2. PacingTypes
  <2>1. 0 \in 0..2 * PerBlock /\ Busy \in 0..Timeout /\ 0 \in Int /\ 0 \in Nat
    BY PacingConstants
  <2>2. QED
    BY <1>1, <2>1 DEF PacingTypes
<1>3. ClockInv /\ TimerInv
  BY <1>1, PacingConstants DEF ClockInv, TimerInv
<1>4. QED
  BY <1>2, <1>3 DEF PacingInv

LEMMA TickKeeps == PacingAssumption /\ PacingInv /\ Tick => PacingInv'
<1> SUFFICES ASSUME PacingAssumption, PacingInv, Tick PROVE PacingInv'
  OBVIOUS
<1>1. /\ ~Due /\ fill' = (IF fill > 0 THEN fill - 1 ELSE 0) /\ left' = (IF left > 0 THEN left - 1 ELSE 0)
      /\ next' = (IF next > -PerBlock THEN next - 1 ELSE next)
      /\ backlog' \in {backlog, backlog + 1}
      /\ UNCHANGED <<credit, clockOk, at, streaming, calm>>
  BY DEF Tick, Down
<1>2. /\ at # "pace" /\ (at = "work" => left > 0) /\ (at = "sleep" => next # 0)
      /\ (at = "wait" => left > 0 /\ credit < PerBlock)
  BY <1>1, PacingConstants DEF Due, PacingInv, PacingTypes
<1> USE PacingConstants DEF PacingInv
<1>3. PacingTypes'
  BY <1>1 DEF PacingTypes
<1>4. CASE clockOk
  <2>1. Owed' <= Owed + 1 /\ Owed' \in 0..2 * PerBlock /\ Owed \in 0..2 * PerBlock
    BY <1>1 DEF Owed, PacingTypes
  <2>2. InWork' = InWork /\ InWork \in 0..PerBlock
    BY <1>1 DEF InWork
  <2>3. (fill + InWork + credit + Owed <= 5 * PerBlock)'
    BY <1>1, <1>4, <2>1, <2>2 DEF ClockInv, PacingTypes
  <2>4. ClockInv'
    BY <1>1, <1>2, <1>4, <2>3 DEF ClockInv, PacingTypes
  <2>5. TimerInv'
    BY <1>1, <1>4 DEF TimerInv
  <2>6. QED
    BY <1>3, <2>4, <2>5
<1>5. CASE ~clockOk
  <2>1. ClockInv'
    BY <1>1, <1>5 DEF ClockInv
  <2>2. TimerInv'
    BY <1>1, <1>2, <1>5 DEF TimerInv, PacingTypes
  <2>3. QED
    BY <1>3, <2>1, <2>2
<1>6. QED
  BY <1>3, <1>4, <1>5 DEF PacingTypes

LEMMA NetKeeps == PacingAssumption /\ PacingInv /\ (CreditClock \/ Weather) => PacingInv'
<1> SUFFICES ASSUME PacingAssumption, PacingInv, CreditClock \/ Weather PROVE PacingInv'
  OBVIOUS
<1> USE PacingConstants DEF PacingInv
<1>1. CASE CreditClock
  <2>1. /\ backlog > 0 /\ backlog' = 0 /\ credit' = Banked(credit + backlog)
        /\ UNCHANGED <<clockOk, at, left, next, fill, streaming, calm>>
    BY <1>1 DEF CreditClock
  <2>2. credit' \in 0..2 * PerBlock /\ credit' <= credit + Owed /\ Owed' = 0 /\ InWork' = InWork
    BY <2>1 DEF Banked, PacingTypes, Owed, InWork
  <2>3. PacingTypes'
    BY <2>1, <2>2 DEF PacingTypes
  <2>4. ClockInv'
    BY <2>1, <2>2 DEF ClockInv, PacingTypes, Owed, InWork
  <2>5. TimerInv'
    BY <2>1 DEF TimerInv, PacingTypes
  <2>6. QED
    BY <2>3, <2>4, <2>5
<1>2. CASE Weather
  <2>1. /\ backlog' \in {0, backlog} /\ streaming' \in BOOLEAN /\ calm' \in BOOLEAN
        /\ UNCHANGED <<credit, clockOk, at, left, next, fill>>
    BY <1>2 DEF Weather, PacingTypes
  <2>2. Owed' <= Owed /\ Owed' \in Nat /\ Owed \in Nat /\ InWork' = InWork /\ InWork \in Nat
    BY <2>1 DEF Owed, InWork, PacingTypes
  <2>3. PacingTypes'
    BY <2>1 DEF PacingTypes
  <2>4. ClockInv'
    BY <2>1, <2>2 DEF ClockInv, PacingTypes
  <2>5. TimerInv'
    BY <2>1 DEF TimerInv, PacingTypes
  <2>6. QED
    BY <2>3, <2>4, <2>5
<1>3. QED
  BY <1>1, <1>2

LEMMA FeedKeeps == PacingAssumption /\ PacingInv /\ FeedStep => PacingInv'
<1> SUFFICES ASSUME PacingAssumption, PacingInv, FeedStep PROVE PacingInv'
  OBVIOUS
<1> USE PacingConstants DEF PacingInv
<1>1. CASE Produce
  <2>1. /\ at = "work" /\ left = 0 /\ fill' = fill + PerBlock /\ at' = "pace"
        /\ UNCHANGED <<credit, clockOk, left, next, streaming, calm, backlog>>
    BY <1>1 DEF Produce, netVars
  <2>2. PacingTypes' /\ Owed' = Owed /\ Owed \in Nat /\ InWork = PerBlock /\ InWork' = 0
    BY <2>1 DEF PacingTypes, Owed, InWork
  <2>3. ClockInv'
    BY <2>1, <2>2 DEF ClockInv, PacingTypes
  <2>4. TimerInv'
    BY <2>1 DEF TimerInv, PacingTypes
  <2>5. QED
    BY <2>2, <2>3, <2>4
<1>2. CASE Pace /\ clockOk
  <2>1. /\ at = "pace" /\ at' = "wait" /\ left' = Timeout
        /\ UNCHANGED <<credit, clockOk, next, fill, streaming, calm, backlog>>
    BY <1>2 DEF Pace, netVars
  <2>2. PacingTypes' /\ Owed' = Owed /\ Owed \in Nat /\ InWork = 0 /\ InWork' = 0
    BY <2>1 DEF PacingTypes, Owed, InWork
  <2>3. fill <= 5 * PerBlock
    BY <1>2, <2>2 DEF ClockInv, PacingTypes
  <2>4. ClockInv'
    BY <1>2, <2>1, <2>2, <2>3 DEF ClockInv, PacingTypes
  <2>5. TimerInv'
    BY <1>2, <2>1 DEF TimerInv
  <2>6. QED
    BY <2>2, <2>4, <2>5
<1>3. CASE Pace /\ ~clockOk /\ ProbeSucceeds
  <2>1. /\ at = "pace" /\ credit >= PerBlock /\ clockOk' = TRUE /\ credit' = credit - PerBlock
        /\ at' = "work" /\ left' \in 0..Busy
        /\ UNCHANGED <<next, fill, streaming, calm, backlog>>
    BY <1>3 DEF Pace, ProbeSucceeds, NextBlock, netVars
  <2>2. PacingTypes' /\ Owed' = Owed /\ Owed <= backlog /\ Owed \in Nat /\ InWork' = PerBlock
    BY <2>1 DEF PacingTypes, Owed, InWork
  <2>3. fill <= 2 * PerBlock + next /\ backlog <= PerBlock - next
    BY <1>3, <2>1 DEF TimerInv, PacingTypes
  <2>4. ClockInv'
    BY <2>1, <2>2, <2>3 DEF ClockInv, PacingTypes
  <2>5. TimerInv'
    BY <2>1 DEF TimerInv
  <2>6. QED
    BY <2>2, <2>4, <2>5
<1>4. CASE Pace /\ ~clockOk /\ ~ProbeSucceeds
  <2>1. at = "pace" /\ UNCHANGED <<credit, clockOk, fill, streaming, calm, backlog>>
    BY <1>4 DEF Pace, netVars
  <2>2. next <= 0 /\ next + PerBlock > 0 /\ next + PerBlock <= PerBlock
    BY <1>4, <2>1 DEF TimerInv, PacingTypes
  <2>3. next' = next + PerBlock /\ at' = "sleep" /\ left' = left
    BY <1>4, <2>2 DEF Pace, TimerPace
  <2>4. PacingTypes'
    BY <2>1, <2>3 DEF PacingTypes
  <2>5. ClockInv'
    BY <1>4, <2>1 DEF ClockInv
  <2>6. credit < PerBlock
    BY <1>4 DEF ProbeSucceeds, PacingTypes
  <2>7. TimerInv'
    BY <1>4, <2>1, <2>2, <2>3, <2>6 DEF TimerInv, PacingTypes
  <2>8. QED
    BY <2>4, <2>5, <2>7
<1>5. CASE ClockTicks
  <2>1. /\ at = "wait" /\ credit >= PerBlock /\ credit' = credit - PerBlock
        /\ at' = "work" /\ left' \in 0..Busy
        /\ UNCHANGED <<clockOk, next, fill, streaming, calm, backlog>>
    BY <1>5 DEF ClockTicks, NextBlock, netVars
  <2>2. clockOk
    BY <2>1 DEF TimerInv, PacingTypes
  <2>3. PacingTypes' /\ Owed' = Owed /\ Owed \in Nat /\ InWork = 0 /\ InWork' = PerBlock
    BY <2>1 DEF PacingTypes, Owed, InWork
  <2>4. ClockInv' /\ TimerInv'
    BY <2>1, <2>2, <2>3 DEF ClockInv, TimerInv, PacingTypes
  <2>5. QED
    BY <2>3, <2>4
<1>6. CASE ClockLost
  <2>1. /\ at = "wait" /\ left = 0 /\ clockOk' = FALSE /\ next' = PerBlock /\ at' = "sleep"
        /\ UNCHANGED <<left, credit, fill, streaming, calm, backlog>>
    BY <1>6 DEF ClockLost, TimerPace, netVars
  <2>2. clockOk
    BY <2>1 DEF TimerInv, PacingTypes
  <2>3. fill <= 2 * PerBlock /\ (credit < PerBlock \/ backlog = 0)
    BY <2>1, <2>2 DEF ClockInv, PacingTypes
  <2>4. PacingTypes'
    <3>1. PerBlock \in Int /\ FALSE \in BOOLEAN
      OBVIOUS
    <3>2. QED
      BY <2>1, <3>1 DEF PacingTypes
  <2>5. ClockInv'
    BY <2>1 DEF ClockInv
  <2>6. TimerInv'
    BY <2>1, <2>3 DEF TimerInv, PacingTypes
  <2>7. QED
    BY <2>4, <2>5, <2>6
<1>7. CASE WakeUp
  <2>1. /\ at = "sleep" /\ next = 0 /\ at' = "work" /\ left' \in 0..Busy
        /\ UNCHANGED <<credit, clockOk, next, fill, streaming, calm, backlog>>
    BY <1>7 DEF WakeUp, NextBlock, netVars
  <2>2. ~clockOk
    BY <2>1 DEF ClockInv, PacingTypes
  <2>3. PacingTypes' /\ ClockInv' /\ TimerInv'
    BY <2>1, <2>2 DEF PacingTypes, ClockInv, TimerInv
  <2>4. QED
    BY <2>3
<1>8. QED
  BY <1>1, <1>2, <1>3, <1>4, <1>5, <1>6, <1>7 DEF FeedStep, PacingTypes

LEMMA PacingStep == PacingAssumption /\ PacingInv /\ [Next]_vars => PacingInv'
<1> SUFFICES ASSUME PacingAssumption, PacingInv, [Next]_vars PROVE PacingInv'
  OBVIOUS
<1>1. CASE Next
  BY <1>1, TickKeeps, NetKeeps, FeedKeeps DEF Next
<1>2. CASE UNCHANGED vars
  BY <1>2 DEF vars, netVars, PacingInv, PacingTypes, ClockInv, TimerInv, InWork, Owed
<1>3. QED
  BY <1>1, <1>2

\* In either mode the FIFO holds five blocks at most.
LEMMA PacingBound == PacingAssumption /\ PacingInv => LeadIsBounded
<1> SUFFICES ASSUME PacingAssumption, PacingInv PROVE LeadIsBounded
  OBVIOUS
<1>1. Owed \in Nat /\ InWork \in Nat
  BY PacingConstants DEF PacingInv, PacingTypes, Owed, InWork
<1>2. QED
  BY <1>1, PacingConstants DEF PacingInv, PacingTypes, ClockInv, TimerInv, LeadIsBounded

=============================================================================
