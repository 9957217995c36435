------------------------------ MODULE Round_proofs ------------------------------
(***************************************************************************)
(* Proofs about the components that MCRound runs, each in its own          *)
(* behaviours, for every value of the constants.  A section names the      *)
(* variables of its component; the inductive invariants are stated with    *)
(* the components, under "What makes it so".                               *)
(***************************************************************************)
EXTENDS MCRound, SequenceTheorems, FiniteSetTheorems, WellFoundedInduction, TLAPS

\* A behaviour is one of one component.
LEMMA PartStays == ASSUME [Next]_vars PROVE part' = part
BY DEF Next, vars

-----------------------------------------------------------------------------
(* Induction over the numbers, in a form that needs no operator as a       *)
(* parameter: what is proved by it is membership in a set.  With it a      *)
(* recursive function unfolds.                                             *)

Less == {p \in Nat \X Nat : p[1] < p[2]}

LEMMA Smallest ==
  ASSUME NEW T \in SUBSET Nat, T # {}
  PROVE  \E m \in T : \A k \in T : m <= k
<1>1. IsWellFoundedOn(Less, Nat)
  BY NatLessThanWellFounded DEF OpToRel, Less
<1>2. PICK m \in T : \A k \in T : ~ (<<k, m>> \in Less)
  BY <1>1, WFMin
<1>3. ASSUME NEW k \in T PROVE m <= k
  <2>1. m \in Nat /\ k \in Nat /\ ~ (<<k, m>> \in Less)
    BY <1>2
  <2>2. <<k, m>> \in Nat \X Nat /\ <<k, m>>[1] = k /\ <<k, m>>[2] = m
    BY <2>1
  <2>3. ~ (k < m)
    BY <2>1, <2>2 DEF Less
  <2>4. QED
    BY <2>1, <2>3
<1>4. QED
  BY <1>3

\* What has 0 and with each number the next one has them all.
LEMMA SetInduction ==
  ASSUME NEW S, 0 \in S, \A n \in Nat : n \in S => n + 1 \in S
  PROVE  Nat \subseteq S
<1> DEFINE T == {n \in Nat : n \notin S}
<1> SUFFICES ASSUME T # {} PROVE FALSE
  OBVIOUS
<1>1. PICK m \in T : \A k \in T : m <= k
  BY Smallest
<1>2. m # 0 /\ m - 1 \in Nat /\ m - 1 \notin T
  BY <1>1
<1>3. QED
  BY <1>2

\* f goes from start, m steps long, within S.
StepIn(step, m, S) == step \in [S \X (1..m) -> S]
Stepped(f, start, step, m, S) ==
  f \in [0..m -> S] /\ f[0] = start /\ \A i \in 1..m : f[i] = step[<<f[i - 1], i>>]

LEMMA Unfolds ==
  ASSUME NEW m \in Nat, NEW S, NEW start \in S, NEW step, StepIn(step, m, S)
  PROVE  \E f : Stepped(f, start, step, m, S)
<1> DEFINE Upto == {n \in Nat : n <= m => \E f : Stepped(f, start, step, n, S)}
<1> USE DEF Stepped, StepIn
<1>1. 0 \in Upto
  <2>1. [i \in 0..0 |-> start] \in [0..0 -> S]
    OBVIOUS
  <2>2. Stepped([i \in 0..0 |-> start], start, step, 0, S)
    BY <2>1
  <2>3. QED
    BY <2>1, <2>2
<1>2. ASSUME NEW n \in Nat, n \in Upto PROVE n + 1 \in Upto
  <2> SUFFICES ASSUME n + 1 <= m PROVE \E f : Stepped(f, start, step, n + 1, S)
    OBVIOUS
  <2>1. PICK f : Stepped(f, start, step, n, S)
    BY <1>2
  <2> DEFINE g == [i \in 0..n + 1 |-> IF i <= n THEN f[i] ELSE step[<<f[n], i>>]]
  <2>2. \A i \in 0..n + 1 : g[i] \in S
    <3>1. f[n] \in S /\ n + 1 \in 1..m
      BY <2>1
    <3>2. <<f[n], n + 1>> \in S \X (1..m)
      BY <3>1
    <3>3. step[<<f[n], n + 1>>] \in S
      BY <3>2
    <3>4. QED
      BY <3>3, <2>1
  <2>3. g \in [0..n + 1 -> S]
    BY <2>2
  <2>4. \A i \in 0..n : g[i] = f[i]
    OBVIOUS
  <2>5. g[n + 1] = step[<<g[n], n + 1>>]
    BY <2>4
  <2> HIDE DEF g
  <2>6. ASSUME NEW i \in 1..n + 1 PROVE g[i] = step[<<g[i - 1], i>>]
    <3>1. CASE i = n + 1
      BY <3>1, <2>5
    <3>2. CASE i \in 1..n
      <4>1. g[i] = f[i] /\ g[i - 1] = f[i - 1] /\ f[i] = step[<<f[i - 1], i>>]
        BY <3>2, <2>4, <2>1
      <4>2. QED
        BY <4>1
    <3>3. QED
      BY <3>1, <3>2
  <2>7. g[0] = start
    BY <2>4, <2>1
  <2>8. Stepped(g, start, step, n + 1, S)
    BY <2>3, <2>6, <2>7
  <2>9. QED
    BY <2>8
<1>3. m \in Upto
  <2> HIDE DEF Upto
  <2>1. QED
    BY <1>1, <1>2, SetInduction
<1>4. QED
  BY <1>3

-----------------------------------------------------------------------------
(* The forward peak of the telemetry.  x1 is peak, x2 parse, x3 take,      *)
(* x4 packets, x5 h.                                                       *)

LEMMA PeakSteps ==
  ASSUME Telemetry!PeakInv,
         \/ \E w \in Levels : Telemetry!Parse(w)
         \/ Telemetry!Store \/ Telemetry!Slot \/ Telemetry!Decay \/ Telemetry!Restart
  PROVE  Telemetry!PeakInv'
<1> USE DEF Telemetry!PeakInv, Telemetry!Counts, Telemetry!PeakIsTaken
<1>1. ASSUME NEW w \in Levels, Telemetry!Parse(w) PROVE Telemetry!PeakInv'
  BY <1>1, PartAssumptions DEF Telemetry!Parse, Telemetry!Raises, Telemetry!TelemetryAssumption
<1>2. CASE Telemetry!Store
  BY <1>2 DEF Telemetry!Store, Telemetry!Raises, Telemetry!Idle
<1>3. CASE Telemetry!Slot
  <2>1. x5' = [highest |-> x5.highest, due |-> x5.highest, taken |-> x1]
    BY <1>3 DEF Telemetry!Slot
  <2>2. QED
    BY <1>3, <2>1 DEF Telemetry!Slot
<1>4. CASE Telemetry!Decay
  BY <1>4 DEF Telemetry!Decay, Telemetry!NoTake
<1>5. CASE Telemetry!Restart
  BY <1>5 DEF Telemetry!Restart
<1>6. QED
  BY <1>1, <1>2, <1>3, <1>4, <1>5

\* The peak a gate slot takes is no lower than any word the listener parsed since the
\* last decay, whatever the words and wherever the two threads meet
\* (parse_high_priority_status, p2_tx_fwd_max_take).
THEOREM PeakIsNotLost == Spec => []PeakIsTaken
<1> DEFINE Inv == part = "telemetry" => Telemetry!PeakInv
<1>1. Init => Inv
  <2> SUFFICES ASSUME Init, part = "telemetry" PROVE Telemetry!PeakInv
    OBVIOUS
  <2>1. Telemetry!Init
    BY DEF Init
  <2>2. QED
    BY <2>1 DEF Telemetry!Init, Telemetry!PeakInv, Telemetry!Counts, Telemetry!Idle,
         Telemetry!NoTake, Telemetry!PeakIsTaken
<1>2. Inv /\ [Next]_vars => Inv'
  <2> SUFFICES ASSUME Inv, [Next]_vars, part' = "telemetry" PROVE Telemetry!PeakInv'
    OBVIOUS
  <2>1. part = "telemetry" /\ Telemetry!PeakInv
    BY PartStays
  <2>2. CASE Next
    BY <2>1, <2>2, PeakSteps DEF Next
  <2>3. CASE UNCHANGED vars
    BY <2>1, <2>3 DEF vars, Telemetry!PeakInv, Telemetry!Counts, Telemetry!PeakIsTaken
  <2>4. QED
    BY <2>2, <2>3
<1>3. Inv => PeakIsTaken
  BY DEF PeakIsTaken, Telemetry!PeakIsTaken, Telemetry!PeakInv
<1>4. QED
  BY <1>1, <1>2, <1>3, PTL DEF Spec

-----------------------------------------------------------------------------
(* Protocol 1, sending.  x1 is dial, x2 txDial, x3 ps, x4 tx, x5 nrx,      *)
(* x6 ring, x7 keying, x8 over, x9 link, x10 at, x11 step, x12 payload,    *)
(* x13 spaced, x14 radio, x15 calm.                                        *)

LEMMA P1Steps ==
  ASSUME part = "p1", Next
  PROVE  \/ \E f \in Dials : P1!SetFrequency(f) \/ P1!SetTxFrequency(f)
         \/ \E p \in {P1!PsOff} \cup Atts : P1!SetPs(p)
         \/ P1!Stop \/ P1!Join \/ P1!Start \/ P1!Prime
         \/ \E on \in BOOLEAN, d \in Drives : P1!SetTxState(on, d)
         \/ P1!Push \/ P1!Top \/ P1!Take \/ P1!General
         \/ \E lost \in BOOLEAN : P1!SendEp2(lost)
BY DEF Next

\* The variables of the over.
OverVars == <<x4, x6, x7, x8, x10, x12, x13>>

LEMMA FreshSame == ASSUME P1!FreshInv, UNCHANGED OverVars PROVE P1!FreshInv'
BY DEF P1!FreshInv, OverVars, P1!NoIq

LEMMA FreshStart == ASSUME part = "p1", Init PROVE P1!FreshInv
<1>1. /\ x4 = [on |-> FALSE, mox |-> FALSE, drive |-> 0] /\ x6 = <<>> /\ x7 = FALSE /\ x8 = 0
      /\ x10 = "top" /\ x12 = [iq |-> 2, mox |-> FALSE] /\ x13 = TRUE
  BY DEF Init, P1!Init, P1!TxOff, P1!NoFrame, P1!NoIq
<1>2. /\ x4 \in [on : BOOLEAN, mox : BOOLEAN, drive : {0} \cup Drives] /\ ~x4.on
      /\ x12 \in [iq : 0..2, mox : BOOLEAN]
  BY <1>1
<1>3. x7 \in BOOLEAN /\ x13 \in BOOLEAN
  BY <1>1, Zenon
<1>4. <<>> \in Seq(0..1)
  BY EmptySeq
<1>5. x6 \in Seq(0..1)
  BY <1>1, <1>4, Zenon
<1>6. QED
  BY <1>1, <1>2, <1>3, <1>5 DEF P1!FreshInv

LEMMA FreshStep == ASSUME P1!FreshInv, part = "p1", [Next]_vars PROVE P1!FreshInv'
<1>1. ASSUME NEW f \in Dials, P1!SetFrequency(f) \/ P1!SetTxFrequency(f) PROVE P1!FreshInv'
  BY <1>1, FreshSame DEF P1!SetFrequency, P1!SetTxFrequency, P1!overVars, P1!sendVars, OverVars
<1>2. ASSUME NEW p \in {P1!PsOff} \cup Atts, P1!SetPs(p) PROVE P1!FreshInv'
  BY <1>2, FreshSame DEF P1!SetPs, P1!overVars, P1!sendVars, OverVars
<1>3. CASE P1!Stop
  <2>1. /\ x4' = [x4 EXCEPT !.on = FALSE]
        /\ UNCHANGED <<x6, x7, x8, x10, x12, x13>>
    BY <1>3 DEF P1!Stop, P1!overVars, P1!sendVars
  <2>2. x4' \in [on : BOOLEAN, mox : BOOLEAN, drive : {0} \cup Drives] /\ ~x4'.on
    BY <2>1 DEF P1!FreshInv
  <2>3. QED
    BY <2>1, <2>2 DEF P1!FreshInv, P1!NoIq
<1>4. CASE P1!Join
  BY <1>4, FreshSame DEF P1!Join, P1!overVars, P1!sendVars, OverVars
<1>5. CASE P1!Start
  <2>1. /\ x4' = [on |-> FALSE, mox |-> FALSE, drive |-> 0] /\ x6' = <<>>
        /\ UNCHANGED <<x7, x8, x10, x12, x13>>
    BY <1>5 DEF P1!Start, P1!TxOff, P1!overVars, P1!sendVars
  <2>2. x4' \in [on : BOOLEAN, mox : BOOLEAN, drive : {0} \cup Drives] /\ ~x4'.on
    BY <2>1
  <2>3. <<>> \in Seq(0..1)
    BY EmptySeq
  <2>4. x6' \in Seq(0..1)
    BY <2>1, <2>3, Zenon
  <2>5. QED
    BY <2>1, <2>2, <2>4 DEF P1!FreshInv, P1!NoIq
<1>6. CASE P1!Prime
  BY <1>6 DEF P1!Prime, P1!overVars, P1!FreshInv
<1>7. ASSUME NEW on \in BOOLEAN, NEW d \in Drives, P1!SetTxState(on, d) PROVE P1!FreshInv'
  <2>1. /\ x13 /\ x7' = on /\ UNCHANGED <<x10, x12>>
        /\ x13' = (x10 \in {"none", "top", "slot"})
        /\ x8' = IF on /\ ~x7 THEN 1 - x8 ELSE x8
    BY <1>7 DEF P1!SetTxState, P1!sendVars
  <2>2. CASE on
    <3>1. /\ x4' = [on |-> TRUE, mox |-> TRUE, drive |-> d]
          /\ x6' = IF ~x4.on THEN <<>> ELSE x6
      BY <1>7, <2>2 DEF P1!SetTxState, P1!FreshRing
    <3>2. x4' \in [on : BOOLEAN, mox : BOOLEAN, drive : {0} \cup Drives]
      BY <3>1
    <3>3. CASE x4.on
      BY <2>1, <2>2, <3>1, <3>2, <3>3 DEF P1!FreshInv, P1!NoIq
    <3>4. CASE ~x4.on
      <4>1. <<>> \in Seq(0..1) /\ Len(<<>>) = 0
        BY EmptySeq
      <4>2. x6' \in Seq(0..1) /\ Len(x6') = 0
        BY <3>1, <3>4, <4>1, Zenon
      <4>3. QED
        BY <2>1, <2>2, <3>2, <4>2 DEF P1!FreshInv, P1!NoIq
    <3>5. QED
      BY <3>3, <3>4
  <2>3. CASE ~on
    <3>1. x4' = [x4 EXCEPT !.on = FALSE] /\ x6' = x6
      BY <1>7, <2>3 DEF P1!SetTxState
    <3>2. x4' \in [on : BOOLEAN, mox : BOOLEAN, drive : {0} \cup Drives] /\ ~x4'.on
      BY <3>1 DEF P1!FreshInv
    <3>3. QED
      BY <2>1, <2>3, <3>1, <3>2 DEF P1!FreshInv, P1!NoIq
  <2>4. QED
    BY <2>2, <2>3
<1>8. CASE P1!Push
  <2>1. x7 /\ x6' = Append(x6, x8) /\ UNCHANGED <<x4, x7, x8, x10, x12, x13>>
    BY <1>8 DEF P1!Push, P1!overVars, P1!sendVars
  <2>2. /\ x6' \in Seq(0..1)
        /\ x4.on => \A i \in 1..Len(x6') : x6'[i] = x8
    BY <2>1, AppendProperties DEF P1!FreshInv
  <2>3. QED
    BY <2>1, <2>2 DEF P1!FreshInv, P1!NoIq
<1>9. CASE P1!Top
  BY <1>9 DEF P1!Top, P1!overVars, P1!FreshInv
<1>10. CASE P1!Take
  <2>1. x10' = "frame" /\ UNCHANGED <<x4, x7, x8, x13>>
    BY <1>10 DEF P1!Take, P1!overVars
  <2>2. CASE P1!Keyed /\ x6 # <<>>
    <3>1. x12' = [x12 EXCEPT !.iq = Head(x6)] /\ x6' = Tail(x6)
      BY <1>10, <2>2 DEF P1!Take
    <3>2. /\ Head(x6) = x8 /\ x6' \in Seq(0..1)
          /\ \A i \in 1..Len(x6') : x6'[i] = x8
      BY <2>2, <3>1, HeadTailProperties DEF P1!FreshInv, P1!Keyed
    <3>3. x12' \in [iq : 0..2, mox : BOOLEAN] /\ x12'.iq = x8
      BY <3>1, <3>2 DEF P1!FreshInv
    <3>4. QED
      BY <2>1, <2>2, <3>2, <3>3 DEF P1!FreshInv, P1!NoIq, P1!Keyed
  <2>3. CASE ~(P1!Keyed /\ x6 # <<>>)
    <3>1. x12' = [x12 EXCEPT !.iq = 2] /\ x6' = x6
      BY <1>10, <2>3 DEF P1!Take, P1!NoIq
    <3>2. QED
      BY <2>1, <3>1 DEF P1!FreshInv, P1!NoIq
  <2>4. QED
    BY <2>2, <2>3
<1>11. CASE P1!General
  BY <1>11 DEF P1!General, P1!overVars, P1!FreshInv, P1!NoIq, P1!Keyed
<1>12. ASSUME NEW lost \in BOOLEAN, P1!SendEp2(lost) PROVE P1!FreshInv'
  <2>1. /\ x10' = "top" /\ x12' = [iq |-> 2, mox |-> FALSE] /\ x13' = TRUE
        /\ UNCHANGED <<x4, x6, x7, x8>>
    BY <1>12 DEF P1!SendEp2, P1!NoFrame, P1!NoIq, P1!overVars
  <2>2. QED
    BY <2>1 DEF P1!FreshInv
<1>13. CASE UNCHANGED vars
  BY <1>13, FreshSame DEF vars, OverVars
<1>14. QED
  BY <1>1, <1>2, <1>3, <1>4, <1>5, <1>6, <1>7, <1>8, <1>9, <1>10, <1>11, <1>12, <1>13, P1Steps

\* A packet with MOX in either frame never carries samples of another over than the
\* current one, whatever is in the ring and however links are stopped and started
\* meanwhile (p1_set_tx_state, p1_rx_start, sender_thread).
THEOREM KeyedIqStaysFresh == Spec => []KeyedIqIsFresh
<1> DEFINE Inv == part = "p1" => P1!FreshInv
<1>1. Init => Inv
  BY FreshStart
<1>2. Inv /\ [Next]_vars => Inv'
  BY FreshStep, PartStays
<1>3. Inv => KeyedIqIsFresh
  BY DEF KeyedIqIsFresh, P1!KeyedIqIsFresh, P1!FreshInv
<1>4. QED
  BY <1>1, <1>2, <1>3, PTL DEF Spec

\* The variables of the round.
RoundVars == <<x1, x2, x3, x4, x5, x9, x11, x14, x15>>

LEMMA AgeIs ==
  ASSUME x5 \in {1, P1!PsNrx}, x11 \in Nat, x11 < P1!Cycle, NEW s \in 0..P1!Cycle - 1
  PROVE  P1!Cycle \in Nat /\ P1!Age(s) \in 1..P1!Cycle
BY DEF P1!Cycle, P1!Fixed, P1!Age, P1!PsNrx

LEMMA RoundSame ==
  ASSUME P1!RoundInv, UNCHANGED RoundVars, x9 \in {"off", "prime"} => x10' = "none"
  PROVE  P1!RoundInv'
BY DEF P1!RoundInv, RoundVars, P1!Age, P1!Cycle, P1!Register, P1!Value, P1!Keyed

LEMMA PastIsPast ==
  ASSUME NEW now \in Nat, NEW n \in Nat, NEW s \in 0..n - 1
  PROVE  LET age == IF s < now THEN now - s ELSE now + n - s IN age >= 1 /\ age \in Nat
OBVIOUS

\* A change, or a loss: nothing counts as sent.
LEMMA RoundAnew ==
  ASSUME P1!RoundInv, x15' = 0, UNCHANGED <<x5, x14>>,
         x11' \in Nat,
         x9' \in {"on", "stop", "join"} => x11' < P1!Cycle,
         x9' \in {"on", "stop", "join", "off", "prime"},
         x9' \in {"off", "prime"} => x10' = "none"
  PROVE  P1!RoundInv'
<1>1. x5 \in {1, 4} /\ P1!Cycle = x5 + 10 /\ P1!Cycle' = P1!Cycle
  BY DEF P1!RoundInv, P1!Cycle, P1!Fixed, P1!PsNrx
<1>2. ASSUME NEW s \in 0..P1!Cycle - 1
      PROVE  ~(P1!Age(s)' <= x15')
  <2>1. P1!Age(s)' = IF s < x11' THEN x11' - s ELSE x11' + P1!Cycle - s
    BY <1>1 DEF P1!Age
  <2>2. x11' \in Nat /\ P1!Cycle \in Nat
    BY <1>1
  <2>3. P1!Age(s)' >= 1 /\ P1!Age(s)' \in Nat
    BY <2>1, <2>2, PastIsPast
  <2>4. QED
    BY <2>3
<1>3. 0 \in 0..P1!MaxPs
  BY DEF P1!MaxPs, P1!PsNrx, P1!Fixed
<1>4. QED
  BY <1>1, <1>2, <1>3 DEF P1!RoundInv

LEMMA RoundStart == ASSUME part = "p1", Init PROVE P1!RoundInv
<1>1. /\ x5 = 1 /\ x9 = "on" /\ x10 = "top" /\ x11 = 0 /\ x15 = P1!MaxPs
      /\ x14 = [r \in P1!Registers |-> P1!Value(r)]
  BY DEF Init, P1!Init
<1>2. P1!MaxPs \in Nat /\ P1!Cycle \in Nat /\ 0 < P1!Cycle /\ P1!Cycle = 11
  BY <1>1 DEF P1!MaxPs, P1!PsNrx, P1!Fixed, P1!Cycle
<1>3. ASSUME NEW s \in 0..P1!Cycle - 1 PROVE P1!Register(s) \in P1!Registers
  BY <1>1, <1>3 DEF P1!Register, P1!Registers, P1!PsNrx
<1>4. QED
  BY <1>1, <1>2, <1>3 DEF P1!RoundInv, P1!PsNrx

\* The next register of the round robin arrives.
LEMMA RoundSends ==
  ASSUME P1!RoundInv, x9 \in {"on", "stop", "join"},
         x14' = [x14 EXCEPT ![P1!Register(x11)] = P1!Value(P1!Register(x11))],
         x15' = (IF x15 < P1!MaxPs THEN x15 + 1 ELSE x15),
         x11' = P1!NextStep(x11), x10' = "top",
         UNCHANGED <<x1, x2, x3, x4, x5, x9>>
  PROVE  P1!RoundInv'
<1>1. /\ x5 \in {1, 4} /\ x11 \in Nat /\ P1!Cycle = x5 + 10 /\ x11 < P1!Cycle
      /\ P1!MaxPs = 14 /\ x15 \in 0..14
  BY DEF P1!RoundInv, P1!Cycle, P1!Fixed, P1!PsNrx, P1!MaxPs
<1>2. x11' = (IF x11 + 1 = P1!Cycle THEN 0 ELSE x11 + 1)
  BY <1>1 DEF P1!NextStep
<1>3. P1!Cycle' = P1!Cycle /\ P1!MaxPs' = P1!MaxPs
  BY DEF P1!Cycle, P1!MaxPs
<1>4. \A r : P1!Value(r)' = P1!Value(r)
  BY DEF P1!Value, P1!Keyed
<1>5. \A s : P1!Register(s)' = P1!Register(s)
  BY DEF P1!Register
<1>6. ASSUME NEW s \in 0..P1!Cycle - 1, P1!Age(s)' <= x15'
      PROVE  s = x11 \/ P1!Age(s) <= x15
  <2>1. P1!Age(s) = IF s < x11 THEN x11 - s ELSE x11 + P1!Cycle - s
    BY DEF P1!Age
  <2>2. P1!Age(s)' = IF s < x11' THEN x11' - s ELSE x11' + P1!Cycle - s
    BY <1>3 DEF P1!Age
  <2>3. QED
    BY <1>1, <1>2, <1>6, <2>1, <2>2
<1>7. ASSUME NEW s \in 0..P1!Cycle - 1, P1!Age(s)' <= x15'
      PROVE  x14'[P1!Register(s)] = P1!Value(P1!Register(s))
  <2>1. DOMAIN x14 = P1!Registers /\ P1!Register(s) \in P1!Registers
    BY <1>1 DEF P1!RoundInv, P1!Register, P1!Registers, P1!PsNrx
  <2>2. CASE P1!Register(s) = P1!Register(x11)
    BY <2>1, <2>2
  <2>3. CASE P1!Register(s) # P1!Register(x11)
    <3>1. P1!Age(s) <= x15
      BY <1>6, <1>7, <2>3
    <3>2. x14[P1!Register(s)] = P1!Value(P1!Register(s))
      BY <3>1 DEF P1!RoundInv
    <3>3. QED
      BY <2>1, <2>3, <3>2
  <2>4. QED
    BY <2>2, <2>3
<1>8. /\ x5' \in {1, P1!PsNrx} /\ x11' \in Nat /\ x15' \in 0..P1!MaxPs' /\ DOMAIN x14' = P1!Registers
      /\ x11' < P1!Cycle'
  BY <1>1, <1>2, <1>3 DEF P1!RoundInv, P1!PsNrx
<1>9. \A s \in 0..P1!Cycle' - 1 :
        P1!Age(s)' <= x15' => x14'[P1!Register(s)'] = P1!Value(P1!Register(s))'
  BY <1>3, <1>4, <1>5, <1>7
<1>10. QED
  BY <1>8, <1>9 DEF P1!RoundInv, P1!Registers

LEMMA RoundStep == ASSUME P1!RoundInv, part = "p1", [Next]_vars PROVE P1!RoundInv'
<1>1. ASSUME NEW f \in Dials, P1!SetFrequency(f) \/ P1!SetTxFrequency(f) PROVE P1!RoundInv'
  <2>1. x15' = 0 /\ UNCHANGED <<x5, x9, x10, x11, x14>>
    BY <1>1 DEF P1!SetFrequency, P1!SetTxFrequency, P1!Change, P1!linkVars, P1!sendVars
  <2>2. QED
    BY <2>1, RoundAnew DEF P1!RoundInv
<1>2. ASSUME NEW p \in {P1!PsOff} \cup Atts, P1!SetPs(p) PROVE P1!RoundInv'
  <2>1. /\ x15' = 0 /\ x9 = "on" /\ x9' \in {"stop", "on"} /\ UNCHANGED <<x5, x10, x11, x14>>
    BY <1>2 DEF P1!SetPs, P1!Change, P1!sendVars
  <2>2. QED
    BY <2>1, RoundAnew DEF P1!RoundInv
<1>3. CASE P1!Stop
  <2>1. x15' = 0 /\ x9 = "stop" /\ x9' = "join" /\ UNCHANGED <<x5, x10, x11, x14>>
    BY <1>3 DEF P1!Stop, P1!sendVars
  <2>2. QED
    BY <2>1, RoundAnew DEF P1!RoundInv
<1>4. CASE P1!Join
  <2>1. x9' = "off" /\ x10' = "none" /\ UNCHANGED <<x5, x11, x14, x15>>
    BY <1>4 DEF P1!Join, P1!sendVars
  <2>2. QED
    BY <2>1 DEF P1!RoundInv, P1!MaxPs, P1!Registers
<1>5. CASE P1!Start
  <2>1. /\ x5' \in {1, P1!PsNrx} /\ x9 = "off" /\ x9' = "prime" /\ x15' = 0
        /\ UNCHANGED <<x10, x11, x14>>
    BY <1>5 DEF P1!Start, P1!sendVars
  <2>2. 0 \in 0..P1!MaxPs
    BY DEF P1!MaxPs, P1!PsNrx, P1!Fixed
  <2>3. QED
    BY <2>1, <2>2 DEF P1!RoundInv, P1!MaxPs, P1!Registers
<1>6. CASE P1!Prime
  <2>1. /\ x9 = "prime" /\ x9' = "on" /\ x10' = "top" /\ x11' = 0 /\ UNCHANGED <<x5, x15>>
        /\ DOMAIN x14' = P1!Registers
    BY <1>6 DEF P1!Prime
  <2>2. /\ x15' = 0 /\ x5' \in {1, 4} /\ P1!Cycle' = x5' + 10 /\ P1!MaxPs' = 14
    BY <2>1 DEF P1!RoundInv, P1!Cycle, P1!Fixed, P1!PsNrx, P1!MaxPs
  <2>3. \A s \in 0..P1!Cycle' - 1 : ~(P1!Age(s)' <= x15')
    BY <2>1, <2>2 DEF P1!Age
  <2>4. QED
    BY <2>1, <2>2, <2>3 DEF P1!RoundInv, P1!Registers, P1!PsNrx
<1>7. ASSUME NEW on \in BOOLEAN, NEW d \in Drives, P1!SetTxState(on, d) PROVE P1!RoundInv'
  <2>1. /\ UNCHANGED <<x1, x2, x3, x5, x9, x10, x11, x14>>
        /\ x15' = (IF x4' = x4 THEN x15 ELSE 0)
    BY <1>7 DEF P1!SetTxState, P1!linkVars, P1!sendVars, P1!dialVars
  <2>2. CASE x4' = x4
    BY <2>1, <2>2, RoundSame DEF RoundVars, P1!RoundInv
  <2>3. CASE x4' # x4
    BY <2>1, <2>3, RoundAnew DEF P1!RoundInv
  <2>4. QED
    BY <2>2, <2>3
<1>8. CASE P1!Push
  BY <1>8, RoundSame DEF P1!Push, P1!dialVars, P1!linkVars, P1!sendVars, RoundVars, P1!RoundInv
<1>9. CASE P1!Top \/ P1!Take \/ P1!General
  <2>1. x10 # "none" /\ UNCHANGED RoundVars
    BY <1>9 DEF P1!Top, P1!Take, P1!General, P1!dialVars, P1!linkVars, RoundVars
  <2>2. QED
    BY <2>1, RoundSame DEF P1!RoundInv
<1>10. ASSUME NEW lost \in BOOLEAN, P1!SendEp2(lost) PROVE P1!RoundInv'
  <2>1. /\ x10 = "send" /\ x10' = "top" /\ x11' = P1!NextStep(x11)
        /\ UNCHANGED <<x1, x2, x3, x4, x5, x9>>
    BY <1>10 DEF P1!SendEp2, P1!dialVars, P1!linkVars
  <2>2. x9 \in {"on", "stop", "join"}
    BY <2>1 DEF P1!RoundInv
  <2>3. CASE lost
    <3>1. x15' = 0 /\ x14' = x14
      BY <1>10, <2>3 DEF P1!SendEp2
    <3>2. x11' \in Nat /\ x11' < P1!Cycle
      BY <2>1, <2>2 DEF P1!RoundInv, P1!Cycle, P1!Fixed, P1!PsNrx, P1!NextStep
    <3>3. QED
      BY <2>1, <2>2, <3>1, <3>2, RoundAnew
  <2>4. CASE ~lost
    <3>1. /\ x14' = [x14 EXCEPT ![P1!Register(x11)] = P1!Value(P1!Register(x11))]
          /\ x15' = (IF x15 < P1!MaxPs THEN x15 + 1 ELSE x15)
      BY <1>10, <2>4 DEF P1!SendEp2
    <3>2. QED
      BY <2>1, <2>2, <3>1, RoundSends
  <2>5. QED
    BY <2>3, <2>4
<1>11. CASE UNCHANGED vars
  BY <1>11, RoundSame DEF vars, RoundVars, P1!RoundInv
<1>12. QED
  BY <1>1, <1>2, <1>3, <1>4, <1>5, <1>6, <1>7, <1>8, <1>9, <1>10, <1>11, P1Steps

LEMMA RoundCovers == P1!RoundInv => P1!RoundConverges
<1> SUFFICES ASSUME P1!RoundInv, x15 >= P1!Cycle, x9 = "on",
                    NEW r \in {"tx", "drive", "gain", "att"} \cup {P1!Rx[c] : c \in 1..x5}
             PROVE  x14[r] = P1!Value(r)
  BY DEF P1!RoundConverges
<1>1. x5 \in {1, 4} /\ P1!Cycle = x5 + 10 /\ x11 \in Nat /\ x11 < P1!Cycle /\ x15 \in Nat
  BY DEF P1!RoundInv, P1!Cycle, P1!Fixed, P1!PsNrx
<1>2. \A s \in 0..P1!Cycle - 1 : x14[P1!Register(s)] = P1!Value(P1!Register(s))
  <2> SUFFICES ASSUME NEW s \in 0..P1!Cycle - 1
               PROVE  x14[P1!Register(s)] = P1!Value(P1!Register(s))
    OBVIOUS
  <2>1. P1!Age(s) \in 1..P1!Cycle
    BY <1>1, AgeIs DEF P1!PsNrx
  <2>2. QED
    BY <1>1, <2>1 DEF P1!RoundInv
<1>3. \E s \in 0..P1!Cycle - 1 : P1!Register(s) = r
  <2>1. /\ P1!Register(0) = "tx" /\ P1!Register(x5 + 1) = "drive"
        /\ P1!Register(x5 + 2) = "gain" /\ P1!Register(x5 + 4) = "att"
        /\ \A c \in 1..x5 : P1!Register(c) = P1!Rx[c]
    BY <1>1 DEF P1!Register
  <2>2. 0 \in 0..P1!Cycle - 1 /\ {x5 + 1, x5 + 2, x5 + 4} \subseteq 0..P1!Cycle - 1
        /\ 1..x5 \subseteq 0..P1!Cycle - 1
    BY <1>1
  <2>3. QED
    BY <2>1, <2>2
<1>4. QED
  BY <1>2, <1>3

\* One round after the last change, and the last loss, the radio has every register as
\* it should be, for one receiver and for four, whatever the settings and across
\* restarts (p1_build_cc_round_robin, sender_thread, p1_rx_start).
THEOREM RoundBringsAll == Spec => []RoundConverges
<1> DEFINE Inv == part = "p1" => P1!RoundInv
<1>1. Init => Inv
  BY RoundStart
<1>2. Inv /\ [Next]_vars => Inv'
  BY RoundStep, PartStays
<1>3. Inv => RoundConverges
  BY RoundCovers DEF RoundConverges
<1>4. QED
  BY <1>1, <1>2, <1>3, PTL DEF Spec

-----------------------------------------------------------------------------
(* Protocol 1, receiving.  x1 is link, x3 ps, x4 nrx, x5 layout, x6 due,   *)
(* x7 net, x8 gap, x10 settle, x15 heard.                                  *)

LEMMA Ep6Constants ==
  /\ Apply \in Nat \ {0} /\ Settle \in Nat \ {0} /\ MaxDelay \in Nat
  /\ Settle >= Apply + MaxDelay
BY PartAssumptions DEF Parsed!ListenerAssumption

LEMMA Ep6Steps ==
  ASSUME part = "ep6", Next
  PROVE  \/ Parsed!SetPs \/ Parsed!Start \/ Parsed!Proved \/ Parsed!StartFails
         \/ Parsed!Stop \/ Parsed!Join \/ Parsed!Poll
         \/ \E arrives \in BOOLEAN : Parsed!Prime(arrives)
         \/ \E on \in BOOLEAN : Parsed!Key(on)
         \/ Parsed!Applies \/ Parsed!TimePasses \/ Parsed!Handle
         \/ \E status \in Parsed!Status, lost \in BOOLEAN : Parsed!Sends(status, lost)
BY DEF Next

\* The variables the layout depends on.
LayoutVars == <<x1, x4, x5, x6, x7, x8, x10, x15>>

LEMMA LayoutSame == ASSUME Parsed!LayoutInv, UNCHANGED LayoutVars PROVE Parsed!LayoutInv'
BY DEF Parsed!LayoutInv, LayoutVars, Parsed!Unarmed, Parsed!Never, Parsed!Counts, Parsed!Running,
       Parsed!OneLayout, Parsed!Packet, Parsed!Status

LEMMA NoPackets == <<>> \in Seq(Parsed!Packet) /\ Len(<<>>) = 0
BY EmptySeq

LEMMA LayoutStart == ASSUME part = "ep6", Init PROVE Parsed!LayoutInv
<1>1. /\ x1 = "off" /\ x4 = 1 /\ x5 \in Parsed!Counts /\ x6 = 0 /\ x7 = <<>>
      /\ x10 = Parsed!Unarmed /\ x15 = "nothing"
  BY DEF Init, Parsed!Init
<1>2. x8 \in BOOLEAN
  BY Zenon DEF Init, Parsed!Init
<1>3. x7 \in Seq(Parsed!Packet)
  BY <1>1, NoPackets, Zenon
<1>4. Parsed!Unarmed \in 0..Parsed!Unarmed /\ 0 \in 0..Parsed!Never /\ 1 \in Parsed!Counts
  BY Ep6Constants DEF Parsed!Unarmed, Parsed!Never, Parsed!Counts
<1>5. QED
  BY <1>1, <1>2, <1>3, <1>4 DEF Parsed!LayoutInv, Parsed!Running, Parsed!OneLayout

\* The oldest packet is handled.
LEMMA HandleKeeps == ASSUME Parsed!LayoutInv, Parsed!Handle PROVE Parsed!LayoutInv'
<1> DEFINE armed == IF x10 = Parsed!Unarmed THEN Settle ELSE x10
<1>1. /\ Parsed!Running /\ x7 # <<>> /\ x7' = Tail(x7) /\ x10' = armed
      /\ UNCHANGED <<x1, x4, x5, x6, x8>>
  BY DEF Parsed!Handle, Parsed!Running
<1>2. /\ x15' \in {x15, "receivers", "garbage"}
      /\ x15' = "garbage" => x15 = "garbage" \/ (armed = 0 /\ Head(x7).layout # x4)
  BY DEF Parsed!Handle, Parsed!Settled
<1>3. /\ Head(x7) = x7[1] /\ Head(x7) \in Parsed!Packet /\ 1 \in 1..Len(x7)
      /\ x7' \in Seq(Parsed!Packet) /\ \A i \in 1..Len(x7') : i + 1 \in 1..Len(x7) /\ x7'[i] = x7[i + 1]
  BY <1>1, HeadTailProperties DEF Parsed!LayoutInv
<1>4. /\ armed \in 0..Settle /\ armed # Parsed!Unarmed
      /\ armed = 0 => x10 = 0 /\ x10 # Parsed!Unarmed
      /\ x6 > 0 => armed >= MaxDelay + x6
  BY <1>1, Ep6Constants DEF Parsed!LayoutInv, Parsed!Unarmed, Parsed!Never
<1>5. ASSUME NEW i \in 1..Len(x7), x7[i].layout # x4
      PROVE  armed + x7[i].age > MaxDelay
  <2>1. x7[i] \in Parsed!Packet
    BY DEF Parsed!LayoutInv
  <2>2. x7[i].age \in 0..MaxDelay
    BY <2>1 DEF Parsed!Packet
  <2>3. CASE x10 = Parsed!Unarmed
    BY <2>2, <2>3, Ep6Constants
  <2>4. CASE x10 # Parsed!Unarmed
    BY <1>1, <1>5, <2>4 DEF Parsed!LayoutInv
  <2>5. QED
    BY <2>3, <2>4
<1>6. x15' # "garbage"
  <2>1. SUFFICES ASSUME armed = 0, Head(x7).layout # x4 PROVE FALSE
    BY <1>2 DEF Parsed!LayoutInv, Parsed!OneLayout
  <2>2. x7[1].age \in 0..MaxDelay
    BY <1>3 DEF Parsed!Packet
  <2>3. armed + x7[1].age > MaxDelay
    BY <1>3, <1>5, <2>1
  <2>4. QED
    BY <2>1, <2>2, <2>3, Ep6Constants
<1>7. \A i \in 1..Len(x7') : x7'[i].layout # x4 => armed + x7'[i].age > MaxDelay
  BY <1>3, <1>5
<1> HIDE DEF armed
<1>8. armed \in 0..Parsed!Unarmed
  <2>1. Settle \in Nat /\ armed \in 0..Settle
    BY <1>4, Ep6Constants
  <2>2. QED
    BY <2>1 DEF Parsed!Unarmed
<1>9. QED
  BY <1>1, <1>3, <1>4, <1>6, <1>7, <1>8
     DEF Parsed!LayoutInv, Parsed!Running, Parsed!Unarmed, Parsed!Never, Parsed!Counts, Parsed!OneLayout

LEMMA LayoutStep == ASSUME Parsed!LayoutInv, part = "ep6", [Next]_vars PROVE Parsed!LayoutInv'
<1>1. CASE Parsed!SetPs \/ Parsed!Poll
  BY <1>1, LayoutSame DEF Parsed!SetPs, Parsed!Poll, LayoutVars
<1>2. CASE Parsed!Start
  <2>1. /\ x1' = "probe" /\ x4' = Parsed!Receivers /\ x7' = <<>> /\ x8' = FALSE
        /\ x10' = Parsed!Unarmed /\ x15' = "nothing" /\ x5' = x5
        /\ x6' = IF x5 = Parsed!Receivers THEN 0 ELSE Parsed!Never
    BY <1>2 DEF Parsed!Start
  <2>2. Parsed!Receivers \in Parsed!Counts
    BY DEF Parsed!Receivers, Parsed!Counts
  <2>3. x7' \in Seq(Parsed!Packet) /\ x8' \in BOOLEAN
    BY <2>1, NoPackets, Zenon
  <2>4. /\ Parsed!Unarmed \in 0..Parsed!Unarmed /\ x6' \in 0..Parsed!Never /\ Parsed!Never # 0
        /\ Parsed!Unarmed' = Parsed!Unarmed /\ Parsed!Never' = Parsed!Never
    BY <2>1, Ep6Constants DEF Parsed!Unarmed, Parsed!Never
  <2>5. QED
    BY <2>1, <2>2, <2>3, <2>4 DEF Parsed!LayoutInv, Parsed!Running, Parsed!OneLayout, Parsed!Counts
<1>3. CASE Parsed!Proved
  <2>1. /\ x1 = "probe" /\ x1' = "on" /\ x7 # <<>> /\ x7' = Tail(x7)
        /\ x6' = (IF x6 = Parsed!Never THEN Apply ELSE x6) /\ UNCHANGED <<x4, x5, x8, x10, x15>>
    BY <1>3 DEF Parsed!Proved, Parsed!ToldCount
  <2>2. x7' \in Seq(Parsed!Packet)
    BY <2>1, HeadTailProperties DEF Parsed!LayoutInv
  <2>3. x6' \in 0..Apply /\ (x6' = 0 => x6 = 0) /\ x10' = Parsed!Unarmed
    BY <2>1, Ep6Constants DEF Parsed!LayoutInv, Parsed!Never
  <2>4. QED
    BY <2>1, <2>2, <2>3, Ep6Constants
       DEF Parsed!LayoutInv, Parsed!Running, Parsed!OneLayout, Parsed!Counts, Parsed!Never, Parsed!Unarmed
<1>4. CASE Parsed!StartFails
  BY <1>4 DEF Parsed!StartFails, Parsed!LayoutInv, Parsed!Running, Parsed!OneLayout, Parsed!Counts,
              Parsed!Never, Parsed!Unarmed, Parsed!Packet, Parsed!Status
<1>5. CASE Parsed!Stop
  BY <1>5 DEF Parsed!Stop, Parsed!LayoutInv, Parsed!Running, Parsed!OneLayout, Parsed!Counts,
              Parsed!Never, Parsed!Unarmed, Parsed!Packet, Parsed!Status
<1>6. CASE Parsed!Join
  <2>1. x1' = "off" /\ x7' = <<>> /\ UNCHANGED <<x4, x5, x6, x8, x10, x15>>
    BY <1>6 DEF Parsed!Join
  <2>2. x7' \in Seq(Parsed!Packet)
    BY <2>1, NoPackets, Zenon
  <2>3. QED
    BY <2>1, <2>2 DEF Parsed!LayoutInv, Parsed!Running, Parsed!OneLayout, Parsed!Counts,
                      Parsed!Never, Parsed!Unarmed
<1>7. ASSUME NEW arrives \in BOOLEAN, Parsed!Prime(arrives) PROVE Parsed!LayoutInv'
  <2>1. /\ x1 = "probe" /\ x6' \in {x6, IF x6 = Parsed!Never THEN Apply ELSE x6}
        /\ UNCHANGED <<x1, x4, x5, x7, x8, x10, x15>>
    BY <1>7 DEF Parsed!Prime, Parsed!ToldCount
  <2>2. x6' \in 0..Parsed!Never /\ (x6' = 0 => x6 = 0)
    BY <2>1, Ep6Constants DEF Parsed!LayoutInv, Parsed!Never
  <2>3. QED
    BY <2>1, <2>2 DEF Parsed!LayoutInv, Parsed!Running, Parsed!OneLayout, Parsed!Counts,
                      Parsed!Never, Parsed!Unarmed, Parsed!Packet, Parsed!Status
<1>8. ASSUME NEW on \in BOOLEAN, Parsed!Key(on) PROVE Parsed!LayoutInv'
  BY <1>8, LayoutSame DEF Parsed!Key, LayoutVars
<1>9. CASE Parsed!Applies
  <2>1. x6' = 0 /\ x5' = x4 /\ UNCHANGED <<x1, x4, x7, x8, x10, x15>>
    BY <1>9 DEF Parsed!Applies
  <2>2. x6' \in 0..Parsed!Never
    BY <2>1, Ep6Constants DEF Parsed!Never
  <2>3. QED
    BY <2>1, <2>2, Ep6Constants DEF Parsed!LayoutInv, Parsed!Running, Parsed!OneLayout, Parsed!Counts,
                      Parsed!Never, Parsed!Unarmed, Parsed!Packet, Parsed!Status
<1>10. CASE Parsed!TimePasses
  <2>1. /\ \A i \in DOMAIN x7 : x7[i].age < MaxDelay
        /\ x7' = [i \in DOMAIN x7 |-> [x7[i] EXCEPT !.age = @ + 1]]
        /\ x6' = (IF x6 \in 2..Apply THEN x6 - 1 ELSE x6) /\ x6 # 1
        /\ x10' = (IF x10 \in 1..Settle THEN x10 - 1 ELSE x10)
        /\ UNCHANGED <<x1, x4, x5, x8, x15>>
    BY <1>10 DEF Parsed!TimePasses
  <2>2. ASSUME NEW i \in 1..Len(x7)
        PROVE  /\ [x7[i] EXCEPT !.age = @ + 1] \in Parsed!Packet
               /\ [x7[i] EXCEPT !.age = @ + 1].age = x7[i].age + 1 /\ x7[i].age \in 0..MaxDelay
               /\ [x7[i] EXCEPT !.age = @ + 1].layout = x7[i].layout
    <3>1. x7[i] \in Parsed!Packet /\ i \in DOMAIN x7
      BY DEF Parsed!LayoutInv
    <3>2. x7[i].age \in 0..MaxDelay /\ x7[i].age < MaxDelay
      BY <2>1, <3>1 DEF Parsed!Packet
    <3>3. x7[i].age + 1 \in 0..MaxDelay
      BY <3>2, Ep6Constants
    <3>4. QED
      BY <3>1, <3>2, <3>3 DEF Parsed!Packet
  <2>3. /\ x7' \in Seq(Parsed!Packet) /\ Len(x7') = Len(x7)
        /\ \A i \in 1..Len(x7') : x7'[i].age = x7[i].age + 1 /\ x7'[i].layout = x7[i].layout
                                  /\ x7[i].age \in 0..MaxDelay
    <3>1. DOMAIN x7 = 1..Len(x7) /\ Len(x7) \in Nat
      BY DEF Parsed!LayoutInv
    <3> DEFINE packet(i) == [x7[i] EXCEPT !.age = @ + 1]
    <3>2. x7' = [i \in 1..Len(x7) |-> packet(i)] /\ \A i \in 1..Len(x7) : packet(i) \in Parsed!Packet
      BY <2>1, <2>2, <3>1
    <3> HIDE DEF packet
    <3>3. x7' \in Seq(Parsed!Packet) /\ Len(x7') = Len(x7) /\ \A i \in 1..Len(x7) : x7'[i] = packet(i)
      BY <3>1, <3>2
    <3>4. QED
      BY <3>3, <2>2 DEF packet
  <2>4. /\ x6' \in 0..Parsed!Never /\ (x6' = 0 <=> x6 = 0)
        /\ x6 \in 0..Apply => x6' \in 0..Apply /\ (x6 > 0 => x6' = x6 - 1)
    BY <2>1, Ep6Constants DEF Parsed!LayoutInv, Parsed!Never
  <2>5. /\ x10' \in 0..Parsed!Unarmed /\ (x10' = Parsed!Unarmed <=> x10 = Parsed!Unarmed)
        /\ x10' \in {x10, x10 - 1} /\ x10' >= x10 - 1
        /\ Parsed!Unarmed' = Parsed!Unarmed
    BY <2>1, Ep6Constants DEF Parsed!LayoutInv, Parsed!Unarmed
  <2>6. /\ Parsed!Running' = Parsed!Running
        /\ Parsed!Running => x6' <= Apply
    BY <2>1, <2>4, Ep6Constants DEF Parsed!LayoutInv, Parsed!Running
  <2>7. Parsed!Running /\ x10' # Parsed!Unarmed =>
          /\ x6' > 0 => x10' >= MaxDelay + x6'
          /\ \A i \in 1..Len(x7') : x7'[i].layout # x4 => x10' + x7'[i].age > MaxDelay
    <3>1. x10 \in Nat /\ x10' \in Nat /\ x6 \in Nat
      BY <2>5 DEF Parsed!LayoutInv, Parsed!Unarmed
    <3>2. ASSUME Parsed!Running, x10 # Parsed!Unarmed, x6' > 0
          PROVE  x10' >= MaxDelay + x6'
      <4>1. /\ x6 \in 0..Apply /\ x6 > 0
        BY <2>4, <3>1, <3>2, Ep6Constants DEF Parsed!LayoutInv
      <4>2. x10 >= MaxDelay + x6
        BY <3>2, <4>1 DEF Parsed!LayoutInv
      <4>3. x6' = x6 - 1 /\ x10' >= x10 - 1
        BY <2>4, <2>5, <4>1
      <4>4. QED
        BY <3>1, <4>2, <4>3, Ep6Constants
    <3>3. ASSUME Parsed!Running, x10 # Parsed!Unarmed, NEW i \in 1..Len(x7'), x7'[i].layout # x4
          PROVE  x10' + x7'[i].age > MaxDelay
      <4>1. x10 + x7[i].age > MaxDelay /\ x7'[i].age = x7[i].age + 1 /\ x7[i].age \in Nat
        BY <2>3, <3>3 DEF Parsed!LayoutInv
      <4>2. QED
        BY <2>5, <3>1, <4>1, Ep6Constants
    <3>4. QED
      BY <2>5, <3>2, <3>3
  <2>8. QED
    BY <2>1, <2>3, <2>4, <2>5, <2>6, <2>7
       DEF Parsed!LayoutInv, Parsed!Never, Parsed!Counts, Parsed!OneLayout
<1>11. CASE Parsed!Handle
  BY <1>11, HandleKeeps
<1>12. ASSUME NEW status \in Parsed!Status, NEW lost \in BOOLEAN, Parsed!Sends(status, lost)
       PROVE  Parsed!LayoutInv'
  <2> DEFINE packet == [layout |-> x5, gap |-> x8, status |-> status, age |-> 0]
  <2>1. /\ x1 \in {"probe", "on", "ending"}
        /\ x8' = lost /\ x7' = (IF lost THEN x7 ELSE Append(x7, packet))
        /\ UNCHANGED <<x1, x4, x5, x6, x10, x15>>
    BY <1>12 DEF Parsed!Sends
  <2>2. packet \in Parsed!Packet /\ packet.layout = x5 /\ packet.age = 0
    BY Ep6Constants DEF Parsed!LayoutInv, Parsed!Packet
  <2>3. Parsed!Running /\ x10 # Parsed!Unarmed /\ x5 # x4 => x10 > MaxDelay
    BY Ep6Constants DEF Parsed!LayoutInv, Parsed!Running, Parsed!Unarmed, Parsed!Never
  <2> HIDE DEF packet
  <2>4. x7' \in Seq(Parsed!Packet)
    BY <2>1, <2>2, AppendProperties DEF Parsed!LayoutInv
  <2>5. Parsed!Running /\ x10 # Parsed!Unarmed =>
          \A i \in 1..Len(x7') : x7'[i].layout # x4 => x10 + x7'[i].age > MaxDelay
    <3>1. CASE lost
      BY <2>1, <3>1 DEF Parsed!LayoutInv
    <3>2. CASE ~lost
      <4>1. /\ Len(x7') = Len(x7) + 1 /\ x7'[Len(x7) + 1] = packet /\ Len(x7) \in Nat
            /\ \A i \in 1..Len(x7) : x7'[i] = x7[i]
        BY <2>1, <2>2, <3>2, AppendProperties DEF Parsed!LayoutInv
      <4>2. x10 \in Nat
        BY DEF Parsed!LayoutInv, Parsed!Unarmed
      <4>3. ASSUME Parsed!Running, x10 # Parsed!Unarmed, NEW i \in 1..Len(x7'), x7'[i].layout # x4
            PROVE  x10 + x7'[i].age > MaxDelay
        <5>1. CASE i = Len(x7) + 1
          BY <2>2, <2>3, <4>1, <4>2, <4>3, <5>1, Ep6Constants
        <5>2. CASE i # Len(x7) + 1
          <6>1. i \in 1..Len(x7) /\ x7'[i] = x7[i]
            BY <4>1, <5>2
          <6>2. QED
            BY <4>3, <6>1 DEF Parsed!LayoutInv
        <5>3. QED
          BY <5>1, <5>2
      <4>4. QED
        BY <4>3
    <3>3. QED
      BY <3>1, <3>2
  <2>6. x8' \in BOOLEAN
    BY <2>1
  <2>7. QED
    BY <2>1, <2>4, <2>5, <2>6
       DEF Parsed!LayoutInv, Parsed!Running, Parsed!Never, Parsed!Unarmed, Parsed!Counts, Parsed!OneLayout
<1>13. CASE UNCHANGED vars
  BY <1>13, LayoutSame DEF vars, LayoutVars
<1>14. QED
  BY <1>1, <1>2, <1>3, <1>4, <1>5, <1>6, <1>7, <1>8, <1>9, <1>10, <1>11, <1>12, <1>13, Ep6Steps

\* The demodulator, the spectrum and PureSignal never get samples of another count of
\* receivers than the link's, whatever the tries, the gateware's time and the delay of
\* the socket within the guard's bound (p1_rx_start, listener_thread's settle_until).
THEOREM LayoutIsOne == Spec => []OneLayout
<1> DEFINE Inv == part = "ep6" => Parsed!LayoutInv
<1>1. Init => Inv
  BY LayoutStart
<1>2. Inv /\ [Next]_vars => Inv'
  BY LayoutStep, PartStays
<1>3. Inv => OneLayout
  BY DEF OneLayout, Parsed!LayoutInv
<1>4. QED
  BY <1>1, <1>2, <1>3, PTL DEF Spec

-----------------------------------------------------------------------------
(* The TCI server.  x2 is cli, x4 active, x5 idles, x6 hand, x7 cut.       *)

Slots == [Clients -> [inuse : BOOLEAN, owner : BOOLEAN, sub : BOOLEAN]]

LEMMA TciSteps ==
  ASSUME part = "tci", Next
  PROVE  \/ \E s \in Clients : Tci!Established(s)
         \/ \E s \in Clients, c \in Tci!Commands : Tci!Receive(s, c)
         \/ \E s \in Clients : Tci!Closed(s)
         \/ Tci!Payload \/ Tci!Stream \/ Tci!Trx \/ Tci!TrxEnd \/ Tci!OwnerLost
         \/ Tci!Report \/ Tci!Press \/ Tci!Qsy \/ Tci!Follow \/ Tci!Stop \/ Tci!Start
BY DEF Next

\* The server's notions of finite sets and their sizes are the library's.
LEMMA FinitenessIsOne == ASSUME NEW S PROVE Tci!IsFiniteSet(S) <=> IsFiniteSet(S)
BY DEF IsFiniteSet, Tci!IsFiniteSet

LEMMA CardinalityIsOne == ASSUME NEW S PROVE Tci!Cardinality(S) = Cardinality(S)
BY DEF Cardinality, Tci!Cardinality

LEMMA CountedIs ==
  Tci!CountedUnlessCut <=> (~x7 => x4 = Cardinality(Tci!Subscribed(x2)))
BY CardinalityIsOne DEF Tci!CountedUnlessCut

LEMMA CountedWillBe ==
  Tci!CountedUnlessCut' <=> (~x7' => x4' = Cardinality(Tci!Subscribed(x2')))
BY CardinalityIsOne DEF Tci!CountedUnlessCut, Tci!Subscribed

LEMMA SlotsAreFinite ==
  ASSUME NEW S \in SUBSET Clients PROVE IsFiniteSet(S) /\ Cardinality(S) \in Nat
<1>1. IsFiniteSet(Clients)
  BY PartAssumptions, FinitenessIsOne DEF Tci!TciAssumption
<1>2. QED
  BY <1>1, FS_Subset, FS_CardinalityType

LEMMA SubscribedIsFinite ==
  ASSUME NEW c PROVE IsFiniteSet(Tci!Subscribed(c)) /\ Cardinality(Tci!Subscribed(c)) \in Nat
BY SlotsAreFinite DEF Tci!Subscribed

LEMMA LostIsAJob == Tci!Lost \in Tci!Jobs
BY DEF Tci!Lost, Tci!Job, Tci!Jobs

\* The table of slots changes in one slot: the subscribers gain it, lose it or stay.
LEMMA OneSlotChanges ==
  ASSUME NEW c \in Slots, NEW s \in Clients, NEW new \in [inuse : BOOLEAN, owner : BOOLEAN, sub : BOOLEAN]
  PROVE  LET d == [c EXCEPT ![s] = new]
             before == c[s].inuse /\ c[s].sub
             after  == new.inuse /\ new.sub
         IN  /\ d \in Slots
             /\ Cardinality(Tci!Subscribed(d)) = Cardinality(Tci!Subscribed(c))
                  + (IF after THEN 1 ELSE 0) - (IF before THEN 1 ELSE 0)
<1> DEFINE d == [c EXCEPT ![s] = new]
           before == c[s].inuse /\ c[s].sub
           after == new.inuse /\ new.sub
<1>1. d \in Slots /\ d[s] = new /\ \A r \in Clients \ {s} : d[r] = c[r]
  BY DEF Slots
<1> HIDE DEF d
<1>2. IsFiniteSet(Tci!Subscribed(c)) /\ Cardinality(Tci!Subscribed(c)) \in Nat
  BY SubscribedIsFinite
<1>3. CASE before <=> after
  <2>1. Tci!Subscribed(d) = Tci!Subscribed(c)
    BY <1>1, <1>3 DEF Tci!Subscribed
  <2>2. QED
    BY <1>1, <1>2, <1>3, <2>1 DEF d
<1>4. CASE before /\ ~after
  <2>1. Tci!Subscribed(d) = Tci!Subscribed(c) \ {s} /\ s \in Tci!Subscribed(c)
    BY <1>1, <1>4 DEF Tci!Subscribed
  <2>2. Cardinality(Tci!Subscribed(d)) = Cardinality(Tci!Subscribed(c)) - 1
    BY <1>2, <2>1, FS_RemoveElement
  <2>3. QED
    BY <1>1, <1>2, <1>4, <2>2 DEF d
<1>5. CASE ~before /\ after
  <2>1. Tci!Subscribed(d) = Tci!Subscribed(c) \cup {s} /\ s \notin Tci!Subscribed(c)
    BY <1>1, <1>5 DEF Tci!Subscribed
  <2>2. Cardinality(Tci!Subscribed(d)) = Cardinality(Tci!Subscribed(c)) + 1
    BY <1>2, <2>1, FS_AddElement
  <2>3. QED
    BY <1>1, <1>2, <1>5, <2>2 DEF d
<1>6. QED
  BY <1>3, <1>4, <1>5

WithOwner(c, s, o) == [c EXCEPT ![s] = [c[s] EXCEPT !.owner = o]]

LEMMA OwnerChanges ==
  ASSUME NEW c \in Slots, NEW s \in Clients, NEW o \in BOOLEAN
  PROVE  /\ WithOwner(c, s, o) \in Slots
         /\ \A r \in Clients : /\ WithOwner(c, s, o)[r].inuse = c[r].inuse
                               /\ WithOwner(c, s, o)[r].sub = c[r].sub
<1> DEFINE new == [c[s] EXCEPT !.owner = o]
<1>1. /\ new \in [inuse : BOOLEAN, owner : BOOLEAN, sub : BOOLEAN]
      /\ new.inuse = c[s].inuse /\ new.sub = c[s].sub
  BY DEF Slots
<1> HIDE DEF new
<1>2. [c EXCEPT ![s] = new] \in Slots
      /\ \A r \in Clients : [c EXCEPT ![s] = new][r].inuse = c[r].inuse
                            /\ [c EXCEPT ![s] = new][r].sub = c[r].sub
  BY <1>1 DEF Slots
<1>3. QED
  BY <1>2 DEF new, WithOwner

\* No client is subscribed in the table the server starts and stops with.
LEMMA EmptyTable ==
  /\ [s \in Clients |-> Tci!Free] \in Slots
  /\ Cardinality(Tci!Subscribed([s \in Clients |-> Tci!Free])) = 0
<1>1. Tci!Subscribed([s \in Clients |-> Tci!Free]) = {}
  BY DEF Tci!Subscribed, Tci!Free
<1>2. QED
  BY <1>1, FS_EmptySet DEF Slots, Tci!Free

LEMMA NoJobs == <<>> \in Seq(Tci!Jobs)
BY EmptySeq

LEMMA CountStart == ASSUME part = "tci", Init PROVE Tci!CountInv
<1>1. /\ x2 = [s \in Clients |-> Tci!Free] /\ x4 = 0 /\ x5 = <<>> /\ x6 = Tci!Idle
      /\ x7 = FALSE
  BY DEF Init, Tci!Init
<1>2. x5 \in Seq(Tci!Jobs) /\ x7 \in BOOLEAN
  BY <1>1, NoJobs, Zenon
<1>3. QED
  BY <1>1, <1>2, EmptyTable, CountedIs DEF Tci!CountInv, Slots

LEMMA CountSame ==
  ASSUME Tci!CountInv, UNCHANGED <<x2, x4, x7>>, x5' \in Seq(Tci!Jobs), x6' \in {x6, Tci!Idle}
  PROVE  Tci!CountInv'
BY DEF Tci!CountInv, Tci!CountedUnlessCut, Tci!Subscribed, Tci!Idle, Tci!NoSlot, Tci!Commands, Tci!Jobs

LEMMA CountStep == ASSUME Tci!CountInv, part = "tci", [Next]_vars PROVE Tci!CountInv'
<1>0. /\ x2 \in Slots /\ x4 \in Int /\ x7 \in BOOLEAN /\ x5 \in Seq(Tci!Jobs)
      /\ x6 # Tci!Idle => x6.slot \in Clients /\ x6.at # "free" /\ (~x7 => x2[x6.slot].inuse)
      /\ ~x7 => x4 = Cardinality(Tci!Subscribed(x2))
  <2>1. /\ x2 \in Slots /\ x4 \in Int /\ x7 \in BOOLEAN /\ x5 \in Seq(Tci!Jobs)
    BY DEF Tci!CountInv, Slots
  <2>2. ASSUME x6 # Tci!Idle PROVE x6.slot \in Clients /\ x6.at # "free" /\ (~x7 => x2[x6.slot].inuse)
    BY <2>2 DEF Tci!CountInv
  <2>3. ~x7 => x4 = Cardinality(Tci!Subscribed(x2))
    BY CountedIs DEF Tci!CountInv
  <2>4. QED
    BY <2>1, <2>2, <2>3
<1>1. ASSUME NEW s \in Clients, Tci!Established(s) PROVE Tci!CountInv'
  <2>1. /\ ~x2[s].inuse /\ x2' = [x2 EXCEPT ![s] = Tci!Fresh] /\ UNCHANGED <<x4, x5, x6, x7>>
    BY <1>1 DEF Tci!Established, Tci!work
  <2>2. /\ Tci!Fresh \in [inuse : BOOLEAN, owner : BOOLEAN, sub : BOOLEAN]
        /\ Tci!Fresh.inuse /\ ~Tci!Fresh.sub
    BY DEF Tci!Fresh, Tci!Free
  <2>3. x2' \in Slots /\ Cardinality(Tci!Subscribed(x2')) = Cardinality(Tci!Subscribed(x2))
    <3>1. x2' \in Slots /\ Cardinality(Tci!Subscribed(x2')) = Cardinality(Tci!Subscribed(x2)) + 0 - 0
      BY <1>0, <2>1, <2>2, OneSlotChanges
    <3>2. QED
      BY <3>1, SubscribedIsFinite
  <2>4. x6 # Tci!Idle /\ ~x7 => x2'[x6.slot].inuse
    BY <1>0, <2>1, <2>2 DEF Slots
  <2>5. QED
    BY <1>0, <2>1, <2>3, <2>4, CountedWillBe DEF Tci!CountInv, Slots
<1>2. ASSUME NEW s \in Clients, NEW c \in Tci!Commands, Tci!Receive(s, c) PROVE Tci!CountInv'
  <2>1. x5' = Append(x5, Tci!Job("text", s, c)) /\ UNCHANGED <<x2, x4, x6, x7>>
    BY <1>2 DEF Tci!Receive, Tci!clients, Tci!work
  <2>2. Tci!Job("text", s, c) \in Tci!Jobs
    BY DEF Tci!Job, Tci!Jobs
  <2>3. x5' \in Seq(Tci!Jobs)
    BY <1>0, <2>1, <2>2, AppendProperties
  <2>4. QED
    BY <2>1, <2>3, CountSame
<1>3. ASSUME NEW s \in Clients, Tci!Closed(s) PROVE Tci!CountInv'
  <2> DEFINE new == [x2[s] EXCEPT !.inuse = FALSE, !.owner = FALSE]
  <2>1. /\ x2[s].inuse /\ x2' = [x2 EXCEPT ![s] = new]
        /\ x4' = IF x2[s].sub THEN x4 - 1 ELSE x4
        /\ x5' \in {x5, Append(x5, Tci!Lost)}
        /\ x7' = (x7 \/ x6.slot = s) /\ x6' = x6
    BY <1>3 DEF Tci!Closed, Tci!Gone, Tci!ActiveWithout
  <2>2. new \in [inuse : BOOLEAN, owner : BOOLEAN, sub : BOOLEAN] /\ ~new.inuse
    BY <1>0 DEF Slots
  <2> HIDE DEF new
  <2>3. /\ x2' \in Slots
        /\ Cardinality(Tci!Subscribed(x2'))
             = Cardinality(Tci!Subscribed(x2)) + 0 - (IF x2[s].sub THEN 1 ELSE 0)
    BY <1>0, <2>1, <2>2, OneSlotChanges
  <2>4. x5' \in Seq(Tci!Jobs)
    BY <1>0, <2>1, LostIsAJob, AppendProperties
  <2>5. x7' \in BOOLEAN /\ (~x7' => ~x7 /\ x6.slot # s)
    BY <2>1
  <2>6. x6 # Tci!Idle /\ ~x7' => x2'[x6.slot].inuse
    BY <1>0, <2>1, <2>5 DEF Slots
  <2>7. x4' \in Int /\ (~x7' => x4' = Cardinality(Tci!Subscribed(x2')))
    BY <1>0, <2>1, <2>3, <2>5, SubscribedIsFinite
  <2>8. QED
    BY <1>0, <2>1, <2>3, <2>4, <2>5, <2>6, <2>7, CountedWillBe
       DEF Tci!CountInv, Slots
<1>4. CASE Tci!Payload
  <2>1. /\ x5 # <<>> /\ Head(x5).job = "text" /\ x5' = Tail(x5) /\ UNCHANGED <<x2, x4, x7>>
        /\ \/ x6' = Tci!Idle
           \/ /\ x2[Head(x5).slot].inuse
              /\ x6' = [slot |-> Head(x5).slot, cmd |-> Head(x5).cmd, at |-> "begun"]
    BY <1>4 DEF Tci!Payload, Tci!Take, Tci!clients, Tci!Slot, Tci!Cmd
  <2>2. Head(x5) \in Tci!Jobs /\ x5' \in Seq(Tci!Jobs)
    BY <1>0, <2>1, HeadTailProperties
  <2>3. Head(x5).slot \in Clients /\ Head(x5).cmd \in Tci!Commands
    BY <2>1, <2>2 DEF Tci!Jobs
  <2>4. CASE x6' = Tci!Idle
    BY <2>1, <2>2, <2>4, CountSame
  <2>5. CASE x6' # Tci!Idle
    BY <1>0, <2>1, <2>2, <2>3, <2>5, CountedWillBe
       DEF Tci!CountInv, Slots
  <2>6. QED
    BY <2>4, <2>5
<1>5. CASE Tci!Stream
  <2> DEFINE s == x6.slot
             on == x6.cmd = "listen"
             new == [x2[s] EXCEPT !.sub = on]
  <2>1. /\ x6.at = "begun" /\ x6' = Tci!Idle /\ UNCHANGED <<x5, x7>>
        /\ x2' = [x2 EXCEPT ![s] = new]
        /\ x4' = IF x2[s].sub = on THEN x4 ELSE IF on THEN x4 + 1 ELSE x4 - 1
    BY <1>5 DEF Tci!Stream, Tci!At
  <2>2. x6 # Tci!Idle
    BY <2>1 DEF Tci!Idle
  <2>3. /\ s \in Clients /\ on \in BOOLEAN
        /\ new \in [inuse : BOOLEAN, owner : BOOLEAN, sub : BOOLEAN]
        /\ new.sub = on /\ new.inuse = x2[s].inuse /\ x2[s].sub \in BOOLEAN
    BY <1>0, <2>2 DEF Slots
  <2> HIDE DEF s, new, on
  <2>4. /\ x2' \in Slots
        /\ Cardinality(Tci!Subscribed(x2')) = Cardinality(Tci!Subscribed(x2))
             + (IF new.inuse /\ new.sub THEN 1 ELSE 0)
             - (IF x2[s].inuse /\ x2[s].sub THEN 1 ELSE 0)
    BY <1>0, <2>1, <2>3, OneSlotChanges
  <2>5. ASSUME ~x7 PROVE x4' = Cardinality(Tci!Subscribed(x2'))
    <3>1. x2[s].inuse /\ new.inuse
      BY <1>0, <2>2, <2>3, <2>5 DEF s
    <3>2. QED
      BY <1>0, <2>1, <2>3, <2>4, <2>5, <3>1, SubscribedIsFinite
  <2>6. x4' \in Int
    BY <1>0, <2>1
  <2>7. QED
    BY <1>0, <2>1, <2>4, <2>5, <2>6, CountedWillBe
       DEF Tci!CountInv, Slots
<1>6. CASE Tci!Trx
  <2>1. /\ x6.at = "begun" /\ x6' = [x6 EXCEPT !.at = "keyed"] /\ UNCHANGED <<x4, x5, x7>>
        /\ \E o \in BOOLEAN : x2' = WithOwner(x2, x6.slot, o) \/ x2' = x2
    BY <1>6 DEF Tci!Trx, Tci!At, WithOwner
  <2>2. x6 # Tci!Idle
    BY <2>1 DEF Tci!Idle
  <2>3. /\ x6.slot \in Clients /\ x6'.slot = x6.slot
        /\ x6' \in [slot : Clients, cmd : Tci!Commands, at : {"begun", "keyed"}]
    BY <2>1, <2>2 DEF Tci!CountInv
  <2>4. /\ x2' \in Slots
        /\ \A r \in Clients : x2'[r].inuse = x2[r].inuse /\ x2'[r].sub = x2[r].sub
    <3>1. PICK o \in BOOLEAN :
            x2' = WithOwner(x2, x6.slot, o) \/ x2' = x2
      BY <2>1
    <3>2. CASE x2' = x2
      BY <1>0, <3>2
    <3>3. CASE x2' = WithOwner(x2, x6.slot, o)
      BY <1>0, <2>3, <3>3, OwnerChanges
    <3>4. QED
      BY <3>1, <3>2, <3>3
  <2>5. Tci!Subscribed(x2') = Tci!Subscribed(x2)
    BY <2>4 DEF Tci!Subscribed
  <2>6. QED
    BY <1>0, <2>1, <2>2, <2>3, <2>4, <2>5, CountedWillBe
       DEF Tci!CountInv, Slots
<1>7. CASE Tci!TrxEnd
  <2>1. /\ x6.at = "keyed" /\ x6' = Tci!Idle /\ UNCHANGED <<x4, x5, x7>>
        /\ \E o \in BOOLEAN : x2' = WithOwner(x2, x6.slot, o) \/ x2' = x2
    BY <1>7 DEF Tci!TrxEnd, Tci!At, WithOwner
  <2>2. x6.slot \in Clients
    BY <1>0, <2>1 DEF Tci!Idle
  <2>3. /\ x2' \in Slots
        /\ \A r \in Clients : x2'[r].inuse = x2[r].inuse /\ x2'[r].sub = x2[r].sub
    <3>1. PICK o \in BOOLEAN :
            x2' = WithOwner(x2, x6.slot, o) \/ x2' = x2
      BY <2>1
    <3>2. CASE x2' = x2
      BY <1>0, <3>2
    <3>3. CASE x2' = WithOwner(x2, x6.slot, o)
      BY <1>0, <2>2, <3>3, OwnerChanges
    <3>4. QED
      BY <3>1, <3>2, <3>3
  <2>4. Tci!Subscribed(x2') = Tci!Subscribed(x2)
    BY <2>3 DEF Tci!Subscribed
  <2>5. QED
    BY <1>0, <2>1, <2>3, <2>4, CountedWillBe
       DEF Tci!CountInv, Slots
<1>8. CASE Tci!OwnerLost
  <2>1. x5 # <<>> /\ x5' = Tail(x5) /\ UNCHANGED <<x2, x4, x6, x7>>
    BY <1>8 DEF Tci!OwnerLost, Tci!Take, Tci!clients, Tci!work
  <2>2. x5' \in Seq(Tci!Jobs)
    BY <1>0, <2>1, HeadTailProperties
  <2>3. QED
    BY <2>1, <2>2, CountSame
<1>9. CASE Tci!Report \/ Tci!Press \/ Tci!Qsy \/ Tci!Follow
  <2>1. UNCHANGED <<x2, x4, x5, x6, x7>>
    BY <1>9 DEF Tci!Report, Tci!Press, Tci!Qsy, Tci!Follow, Tci!clients, Tci!work
  <2>2. QED
    BY <1>0, <2>1, CountSame
<1>10. CASE Tci!Stop
  <2> DEFINE n == Cardinality({s \in Clients : x2[s].inuse /\ x3 = s})
  <2>1. /\ x6 = Tci!Idle /\ UNCHANGED <<x6, x7>> /\ x4' = 0
        /\ x2' = [s \in Clients |-> Tci!Free] /\ x5' = x5 \o [i \in 1..n |-> Tci!Lost]
    BY <1>10, CardinalityIsOne DEF Tci!Stop, Tci!MainFree, Tci!work
  <2>2. n \in Nat
    <3>1. {s \in Clients : x2[s].inuse /\ x3 = s} \in SUBSET Clients
      OBVIOUS
    <3>2. QED
      BY <3>1, SlotsAreFinite
  <2> HIDE DEF n
  <2>3. [i \in 1..n |-> Tci!Lost] \in Seq(Tci!Jobs)
    BY <2>2, LostIsAJob
  <2>4. x5' \in Seq(Tci!Jobs)
    BY <1>0, <2>1, <2>3, ConcatProperties
  <2>5. QED
    BY <1>0, <2>1, <2>4, EmptyTable, CountedWillBe DEF Tci!CountInv, Slots
<1>11. CASE Tci!Start
  <2>1. /\ x6 = Tci!Idle /\ UNCHANGED <<x5, x6, x7>> /\ x4' = 0 /\ x2' = [s \in Clients |-> Tci!Free]
    BY <1>11 DEF Tci!Start, Tci!MainFree, Tci!work
  <2>2. QED
    BY <1>0, <2>1, EmptyTable, CountedWillBe DEF Tci!CountInv, Slots
<1>12. CASE UNCHANGED vars
  <2>1. UNCHANGED <<x2, x4, x5, x6, x7>>
    BY <1>12 DEF vars
  <2>2. QED
    BY <1>0, <2>1, CountSame
<1>13. QED
  BY <1>1, <1>2, <1>3, <1>4, <1>5, <1>6, <1>7, <1>8, <1>9, <1>10, <1>11, <1>12, TciSteps

\* The counter of subscribers counts the clients subscribed, for every size of the
\* table and every order of connections, commands and closures, as long as no client
\* leaves in the middle of its own command (audio_start, audio_stop, client_closed).
THEOREM SubscribersAreCounted == Spec => []CountedUnlessCut
<1> DEFINE Inv == part = "tci" => Tci!CountInv
<1>1. Init => Inv
  BY CountStart
<1>2. Inv /\ [Next]_vars => Inv'
  BY CountStep, PartStays
<1>3. Inv => CountedUnlessCut
  BY DEF CountedUnlessCut, Tci!CountInv
<1>4. QED
  BY <1>1, <1>2, <1>3, PTL DEF Spec

-----------------------------------------------------------------------------
(* The stamps of the IQ stream.  x1 is dial, x2 centre, x3 ctun, x4 pipe,  *)
(* x5 net, x6 iq, x7 stamps, x8 noted, x9 client, x10 out, x11 h,          *)
(* x12 turns.                                                              *)

\* The frames to come, f, of which there are n, carry what cur and the stamps st say.
Told(cur, st, i, f, n, centre) ==
  /\ Stream!After(cur, st, Len(st)) = centre
  /\ \A j \in 1..Len(st) : st[j].at <= n
  /\ \A m \in 0..Len(st), k \in i + 1..n :
       Stream!InForce(st, m, k) => f[k] = Stream!After(cur, st, m)

Frames == [k \in 1..Stream!ChangeIndex |-> Stream!FrameAt(k)]

LEMMA ForetoldIsTold ==
  ASSUME NEW cur, NEW st, NEW i \in Nat
  PROVE  Stream!Foretold(cur, st, i) <=> Told(cur, st, i, Frames, Stream!ChangeIndex, x2)
<1>1. \A k \in i + 1..Stream!ChangeIndex : Frames[k] = Stream!FrameAt(k)
  BY DEF Frames
<1>2. QED
  BY <1>1 DEF Stream!Foretold, Told

LEMMA StreamConstants ==
  /\ Centres \subseteq Nat \ {0} /\ Latency \in Nat
  /\ Chunk \in Nat /\ Chunk >= 1 /\ Block \in Nat /\ Block >= 2
BY PartAssumptions DEF Stream!StreamAssumption

LEMMA StampsOf ==
  ASSUME NEW st \in Seq(Stream!Stamp)
  PROVE  /\ Len(st) \in Nat /\ DOMAIN st = 1..Len(st)
         /\ \A j \in 1..Len(st) : st[j] \in Stream!Stamp /\ st[j].at \in Int /\ st[j].hz \in Centres
<1>1. Len(st) \in Nat /\ DOMAIN st = 1..Len(st) /\ \A j \in 1..Len(st) : st[j] \in Stream!Stamp
  OBVIOUS
<1>2. \A e \in Stream!Stamp : e.at \in Int /\ e.hz \in Centres
  BY DEF Stream!Stamp
<1>3. QED
  BY <1>1, <1>2

\* The loop that consumes the stamps stops.
LEMMA DueIs ==
  ASSUME NEW st \in Seq(Stream!Stamp), NEW i \in Int
  PROVE  /\ Stream!Due(st, i) \in 0..Len(st)
         /\ \A k \in 1..Stream!Due(st, i) : st[k].at < i
         /\ Stream!Due(st, i) < Len(st) => st[Stream!Due(st, i) + 1].at >= i
<1> DEFINE T == {n \in 0..Len(st) : n < Len(st) => st[n + 1].at >= i}
           P(n) == (\A k \in 1..n : st[k].at < i) /\ (n < Len(st) => st[n + 1].at >= i)
<1>1. Len(st) \in Nat /\ \A k \in 1..Len(st) : st[k] \in Stream!Stamp /\ st[k].at \in Int
  BY StampsOf
<1>2. T \in SUBSET Nat /\ Len(st) \in T
  BY <1>1
<1>3. PICK n \in T : \A k \in T : n <= k
  <2> HIDE DEF T
  <2>1. QED
    BY <1>2, Smallest
<1>4. ASSUME NEW k \in 1..n PROVE st[k].at < i
  <2>1. k - 1 \in 0..Len(st) /\ k - 1 \notin T /\ k \in 1..Len(st)
    BY <1>1, <1>3
  <2>2. ~ (st[(k - 1) + 1].at >= i) /\ (k - 1) + 1 = k
    BY <2>1
  <2>3. QED
    BY <1>1, <2>1, <2>2
<1>5. n \in 0..Len(st) /\ P(n)
  BY <1>3, <1>4
<1>6. Stream!Due(st, i) = CHOOSE m \in 0..Len(st) : P(m)
  BY DEF Stream!Due
<1> HIDE DEF P
<1>7. Stream!Due(st, i) \in 0..Len(st) /\ P(Stream!Due(st, i))
  BY <1>5, <1>6
<1>8. QED
  BY <1>7 DEF P

LEMMA AfterType ==
  ASSUME NEW cur \in Centres \cup {0}, NEW st \in Seq(Stream!Stamp), NEW n \in 0..Len(st)
  PROVE  Stream!After(cur, st, n) \in Centres \cup {0}
<1>1. n # 0 => st[n] \in Stream!Stamp
  OBVIOUS
<1>2. QED
  BY <1>1 DEF Stream!After, Stream!Stamp

\* A change is noted with the index its first frame will have.
LEMMA ToldNoted ==
  ASSUME NEW cur, NEW st \in Seq(Stream!Stamp), NEW f, NEW n \in Nat, NEW centre,
         Told(cur, st, 0, f, n, centre), NEW hz \in Centres
  PROVE  Told(cur, Append(st, [at |-> n, hz |-> hz]), 0, f, n, hz)
<1> DEFINE e == [at |-> n, hz |-> hz]
           u == Append(st, e)
<1>1. e \in Stream!Stamp /\ e.at = n /\ e.hz = hz
  BY DEF Stream!Stamp
<1> HIDE DEF e
<1>2. Len(u) = Len(st) + 1 /\ Len(st) \in Nat /\ u[Len(st) + 1] = e
      /\ \A k \in 1..Len(st) : u[k] = st[k]
  BY <1>1
<1> HIDE DEF u
<1>3. Stream!After(cur, u, Len(u)) = hz
  BY <1>1, <1>2 DEF Stream!After
<1>4. \A j \in 1..Len(u) : u[j].at <= n
  BY <1>1, <1>2 DEF Told
<1>5. ASSUME NEW m \in 0..Len(u), NEW k \in 0 + 1..n, Stream!InForce(u, m, k)
      PROVE  f[k] = Stream!After(cur, u, m)
  <2>1. m # Len(st) + 1
    BY <1>1, <1>2, <1>5 DEF Stream!InForce
  <2>2. m \in 0..Len(st)
    BY <1>2, <2>1
  <2>3. m > 0 => u[m] = st[m]
    BY <1>2, <2>2
  <2>4. m < Len(st) => u[m + 1] = st[m + 1]
    BY <1>2, <2>2
  <2>5. Stream!InForce(st, m, k)
    BY <1>2, <1>5, <2>2, <2>3, <2>4 DEF Stream!InForce
  <2>6. Stream!After(cur, u, m) = Stream!After(cur, st, m)
    BY <2>2, <2>3 DEF Stream!After
  <2>7. QED
    BY <2>2, <2>5, <2>6 DEF Told
<1>6. QED
  BY <1>3, <1>4, <1>5 DEF Told, u, e

\* A frame is received on the frequency of the centre.
LEMMA ToldCaptured ==
  ASSUME NEW cur, NEW st \in Seq(Stream!Stamp), NEW f, NEW g, NEW n \in Nat, NEW centre,
         Told(cur, st, 0, f, n, centre),
         \A k \in 1..n : g[k] = f[k], g[n + 1] = centre
  PROVE  Told(cur, st, 0, g, n + 1, centre)
<1>1. Len(st) \in Nat /\ \A j \in 1..Len(st) : st[j].at \in Int
  BY StampsOf
<1>2. \A j \in 1..Len(st) : st[j].at <= n + 1
  BY <1>1 DEF Told
<1>3. ASSUME NEW m \in 0..Len(st), NEW k \in 0 + 1..n + 1, Stream!InForce(st, m, k)
      PROVE  g[k] = Stream!After(cur, st, m)
  <2>1. CASE k = n + 1
    <3>1. ASSUME m < Len(st) PROVE FALSE
      <4>1. k <= st[m + 1].at /\ m + 1 \in 1..Len(st)
        BY <1>1, <1>3, <3>1 DEF Stream!InForce
      <4>2. st[m + 1].at <= n
        BY <4>1 DEF Told
      <4>3. QED
        BY <1>1, <2>1, <4>1, <4>2
    <3>2. m = Len(st)
      BY <1>1, <3>1
    <3>3. QED
      BY <2>1, <3>2 DEF Told
  <2>2. CASE k \in 1..n
    BY <2>2, <1>3 DEF Told
  <2>3. QED
    BY <2>1, <2>2
<1>4. QED
  BY <1>2, <1>3 DEF Told

\* The stamps that are due when frame i is pumped give the frequency of that frame, and
\* the others that of the frames after it.
LEMMA ToldPumped ==
  ASSUME NEW cur, NEW st \in Seq(Stream!Stamp), NEW f, NEW n \in Nat, NEW centre,
         NEW i \in 1..n, Told(cur, st, i - 1, f, n, centre)
  PROVE  LET d == Stream!Due(st, i)
         IN  /\ f[i] = Stream!After(cur, st, d)
             /\ Told(Stream!After(cur, st, d), SubSeq(st, d + 1, Len(st)), i, f, n, centre)
<1> DEFINE d == Stream!Due(st, i)
           now == Stream!After(cur, st, d)
           u == SubSeq(st, d + 1, Len(st))
<1>1. Len(st) \in Nat /\ \A j \in 1..Len(st) : st[j].at \in Int
  BY StampsOf
<1>2. d \in 0..Len(st) /\ (\A k \in 1..d : st[k].at < i) /\ (d < Len(st) => st[d + 1].at >= i)
  BY DueIs
<1> HIDE DEF d
<1>3. Len(u) = Len(st) - d /\ \A j \in 1..Len(u) : u[j] = st[d + j]
  <2>1. d + 1 \in 1..Len(st) + 1 /\ Len(st) \in 0..Len(st)
    BY <1>1, <1>2
  <2>2. Len(u) = IF d + 1 <= Len(st) THEN Len(st) - (d + 1) + 1 ELSE 0
    BY <2>1, SubSeqProperties
  <2>3. \A j \in 1..Len(st) - (d + 1) + 1 : u[j] = st[(d + 1) + j - 1]
    BY <2>1, SubSeqProperties
  <2>4. QED
    BY <1>1, <1>2, <2>2, <2>3
<1> HIDE DEF u
<1>4. f[i] = now
  <2>1. Stream!InForce(st, d, i)
    BY <1>2 DEF Stream!InForce
  <2>2. i \in (i - 1) + 1..n
    OBVIOUS
  <2>3. QED
    BY <1>2, <2>1, <2>2 DEF Told
<1>5. ASSUME NEW m \in 0..Len(u) PROVE Stream!After(now, u, m) = Stream!After(cur, st, d + m)
  BY <1>1, <1>2, <1>3 DEF Stream!After
<1>6. Stream!After(now, u, Len(u)) = centre
  BY <1>1, <1>2, <1>3, <1>5 DEF Told
<1>7. \A j \in 1..Len(u) : u[j].at <= n
  BY <1>1, <1>2, <1>3 DEF Told
<1>8. ASSUME NEW m \in 0..Len(u), NEW k \in i + 1..n, Stream!InForce(u, m, k)
      PROVE  f[k] = Stream!After(now, u, m)
  <2>1. d + m \in 0..Len(st) /\ k \in (i - 1) + 1..n
    BY <1>1, <1>2, <1>3
  <2>2. d + m > 0 => st[d + m].at < k
    <3>1. CASE m > 0
      BY <3>1, <1>3, <1>8 DEF Stream!InForce
    <3>2. CASE m = 0 /\ d > 0
      <4>1. st[d].at < i /\ st[d].at \in Int
        BY <1>1, <1>2, <3>2
      <4>2. QED
        BY <4>1, <3>2, <1>2
    <3>3. QED
      BY <3>1, <3>2, <1>2
  <2>3. d + m < Len(st) => k <= st[(d + m) + 1].at
    <3>1. ASSUME d + m < Len(st) PROVE k <= st[(d + m) + 1].at
      <4>1. m < Len(u) /\ m + 1 \in 1..Len(u) /\ d + (m + 1) = (d + m) + 1
        BY <3>1, <1>1, <1>2, <1>3
      <4>2. u[m + 1] = st[(d + m) + 1]
        BY <4>1, <1>3
      <4>3. QED
        BY <4>1, <4>2, <1>8 DEF Stream!InForce
    <3>2. QED
      BY <3>1
  <2>4. Stream!InForce(st, d + m, k)
    BY <2>2, <2>3 DEF Stream!InForce
  <2>5. QED
    BY <2>1, <2>4, <1>5 DEF Told
<1>9. Told(now, u, i, f, n, centre)
  BY <1>6, <1>7, <1>8 DEF Told
<1>10. QED
  BY <1>4, <1>9 DEF d, u

\* Indices are counted from the next frame to pump.
LEMMA ToldShifted ==
  ASSUME NEW cur, NEW st \in Seq(Stream!Stamp), NEW f, NEW g, NEW n \in Nat, NEW centre,
         NEW c \in Nat, c <= n, Told(cur, st, c, f, n, centre),
         \A k \in 1..n - c : g[k] = f[k + c]
  PROVE  LET u == [j \in DOMAIN st |-> [st[j] EXCEPT !.at = @ - c]]
         IN  u \in Seq(Stream!Stamp) /\ Told(cur, u, 0, g, n - c, centre)
<1> DEFINE u == [j \in DOMAIN st |-> [st[j] EXCEPT !.at = @ - c]]
<1>1. Len(st) \in Nat /\ DOMAIN st = 1..Len(st)
      /\ \A j \in 1..Len(st) : st[j] \in Stream!Stamp /\ st[j].at \in Int
  BY StampsOf
<1>2. ASSUME NEW j \in 1..Len(st)
      PROVE  u[j] \in Stream!Stamp /\ u[j].at = st[j].at - c /\ u[j].hz = st[j].hz
  BY <1>1 DEF Stream!Stamp
<1>3. u \in Seq(Stream!Stamp) /\ Len(u) = Len(st)
  <2>1. u \in [1..Len(st) -> Stream!Stamp]
    BY <1>1, <1>2
  <2> HIDE DEF u
  <2>2. QED
    BY <1>1, <2>1
<1> HIDE DEF u
<1>4. ASSUME NEW m \in 0..Len(st) PROVE Stream!After(cur, u, m) = Stream!After(cur, st, m)
  BY <1>1, <1>2 DEF Stream!After
<1>5. Stream!After(cur, u, Len(u)) = centre
  BY <1>1, <1>3, <1>4 DEF Told
<1>6. \A j \in 1..Len(u) : u[j].at <= n - c
  BY <1>1, <1>2, <1>3 DEF Told
<1>7. ASSUME NEW m \in 0..Len(u), NEW k \in 0 + 1..n - c, Stream!InForce(u, m, k)
      PROVE  g[k] = Stream!After(cur, u, m)
  <2>1. m \in 0..Len(st) /\ k + c \in c + 1..n /\ k \in 1..n - c
    BY <1>1, <1>3
  <2>2. m > 0 => st[m].at < k + c
    BY <1>1, <1>2, <1>7, <2>1 DEF Stream!InForce
  <2>3. ASSUME m < Len(st) PROVE k + c <= st[m + 1].at
    <3>1. m + 1 \in 1..Len(st)
      BY <1>1, <2>1, <2>3
    <3>2. k <= u[m + 1].at
      BY <1>3, <1>7, <2>3 DEF Stream!InForce
    <3>3. QED
      BY <1>1, <1>2, <3>1, <3>2
  <2>4. Stream!InForce(st, m, k + c)
    BY <2>2, <2>3 DEF Stream!InForce
  <2>5. f[k + c] = Stream!After(cur, st, m)
    BY <2>1, <2>4 DEF Told
  <2>6. QED
    BY <2>1, <2>5, <1>4
<1>8. QED
  BY <1>3, <1>5, <1>6, <1>7 DEF Told, u

\* A block of n frames, n not 0, as BlockSoFar has it.
Filled(c, frames, marks, n) ==
  /\ Len(frames) = n /\ frames[n] = c.cur
  /\ c.off < n /\ (c.off = 0 <=> marks = 0)
  /\ \A k \in 1..n : (marks = 0 \/ k <= c.off) => frames[k] = c.hz0
  /\ marks > 0 => c.hz1 = c.cur
  /\ marks = 1 => \A k \in c.off + 1..n : frames[k] = c.hz1

\* The client c once d stamps have taken effect, the last with hz.
Labelled(c, d, hz) ==
  [c EXCEPT !.cur = hz,
            !.hz0 = IF c.fill = 0 THEN hz ELSE @,
            !.off = IF c.fill = 0 THEN 0 ELSE IF d > 0 /\ @ = 0 THEN c.fill ELSE @,
            !.hz1 = IF c.fill = 0 THEN 0 ELSE IF d > 0 THEN hz ELSE @]

\* The marks of a block that was left with marks.
Marked(c, marks, d) == IF c.fill = 0 THEN 0 ELSE marks + d

LEMMA LabelledIs ==
  ASSUME NEW c \in Stream!ClientType, NEW d \in Nat, NEW hz \in Centres \cup {0}
  PROVE  /\ Labelled(c, d, hz) \in Stream!ClientType
         /\ Labelled(c, d, hz).sub = c.sub /\ Labelled(c, d, hz).fill = c.fill
         /\ Labelled(c, d, hz).cur = hz
         /\ Labelled(c, d, hz).hz0 = IF c.fill = 0 THEN hz ELSE c.hz0
         /\ Labelled(c, d, hz).off = IF c.fill = 0 THEN 0
                                     ELSE IF d > 0 /\ c.off = 0 THEN c.fill ELSE c.off
         /\ Labelled(c, d, hz).hz1 = IF c.fill = 0 THEN 0 ELSE IF d > 0 THEN hz ELSE c.hz1
BY StreamConstants DEF Labelled, Stream!ClientType

LEMMA ClientIs ==
  ASSUME NEW c \in Stream!ClientType
  PROVE  /\ c.sub \in BOOLEAN /\ c.fill \in 0..Block - 1 /\ c.off \in 0..Block - 1
         /\ c.cur \in Centres \cup {0} /\ c.hz0 \in Centres \cup {0} /\ c.hz1 \in Centres \cup {0}
BY DEF Stream!ClientType

\* A frame on the frequency hz joins the block; d stamps were due before it.
LEMMA BlockGrows ==
  ASSUME NEW c \in Stream!ClientType, NEW frames \in Seq(Centres), NEW marks \in Nat,
         Stream!BlockSoFar(c, frames, marks),
         NEW d \in Nat, NEW hz \in Centres, d = 0 => hz = c.cur
  PROVE  Filled(Labelled(c, d, hz), Append(frames, hz), Marked(c, marks, d), c.fill + 1)
<1> DEFINE b == Labelled(c, d, hz)
           now == Append(frames, hz)
           marked == Marked(c, marks, d)
           n == c.fill + 1
<1>1. /\ b.cur = hz /\ b.hz0 = (IF c.fill = 0 THEN hz ELSE c.hz0)
      /\ b.off = (IF c.fill = 0 THEN 0 ELSE IF d > 0 /\ c.off = 0 THEN c.fill ELSE c.off)
      /\ b.hz1 = (IF c.fill = 0 THEN 0 ELSE IF d > 0 THEN hz ELSE c.hz1)
  BY LabelledIs
<1>2. c.fill \in Nat /\ c.off \in Nat
  BY ClientIs, StreamConstants
<1>3. /\ Len(frames) = c.fill
      /\ c.fill > 0 => Filled(c, frames, marks, c.fill)
  BY DEF Stream!BlockSoFar, Filled
<1>4. Len(now) = n /\ now[n] = hz /\ \A k \in 1..c.fill : now[k] = frames[k]
  BY <1>3
<1>5. marked = IF c.fill = 0 THEN 0 ELSE marks + d
  BY DEF Marked
<1> HIDE DEF b, now, marked
<1>6. ASSUME c.fill = 0 PROVE Filled(b, now, marked, n)
  <2>1. b.off = 0 /\ marked = 0 /\ n = 1 /\ b.hz0 = hz
    BY <1>1, <1>5, <1>6
  <2>2. \A k \in 1..n : now[k] = b.hz0
    BY <1>4, <2>1
  <2>3. QED
    BY <1>1, <1>4, <2>1, <2>2 DEF Filled
<1>7. ASSUME c.fill > 0 PROVE Filled(b, now, marked, n)
  <2>1. /\ frames[c.fill] = c.cur /\ c.off < c.fill /\ (c.off = 0 <=> marks = 0)
        /\ \A k \in 1..c.fill : (marks = 0 \/ k <= c.off) => frames[k] = c.hz0
        /\ marks > 0 => c.hz1 = c.cur
        /\ marks = 1 => \A k \in c.off + 1..c.fill : frames[k] = c.hz1
    BY <1>3, <1>7 DEF Filled
  <2>2. /\ b.hz0 = c.hz0 /\ b.off = (IF d > 0 /\ c.off = 0 THEN c.fill ELSE c.off)
        /\ b.hz1 = (IF d > 0 THEN hz ELSE c.hz1) /\ marked = marks + d
    BY <1>1, <1>5, <1>7
  <2>3. b.off < n /\ (b.off = 0 <=> marked = 0)
    BY <1>2, <1>7, <2>1, <2>2
  <2>4. ASSUME NEW k \in 1..n, marked = 0 \/ k <= b.off PROVE now[k] = b.hz0
    <3>1. CASE k = n
      <4>1. d = 0 /\ marks = 0
        BY <1>2, <2>1, <2>2, <2>4, <3>1
      <4>2. c.fill \in 1..c.fill
        BY <1>2, <1>7
      <4>3. hz = c.hz0
        BY <2>1, <4>1, <4>2
      <4>4. QED
        BY <1>4, <2>2, <3>1, <4>3
    <3>2. CASE k \in 1..c.fill
      <4>1. marks = 0 \/ k <= c.off
        BY <1>2, <2>1, <2>2, <2>4, <3>2
      <4>2. QED
        BY <1>4, <2>1, <2>2, <3>2, <4>1
    <3>3. QED
      BY <3>1, <3>2, <1>2
  <2>5. marked > 0 => b.hz1 = b.cur
    BY <1>1, <2>1, <2>2
  <2>6. ASSUME marked = 1, NEW k \in b.off + 1..n PROVE now[k] = b.hz1
    <3>1. CASE k = n
      BY <1>1, <1>4, <2>5, <2>6, <3>1
    <3>2. CASE k # n
      <4>1. d = 0 /\ marks = 1
        BY <1>2, <2>1, <2>2, <2>6, <3>2
      <4>2. k \in c.off + 1..c.fill /\ k \in 1..c.fill
        BY <1>2, <2>1, <2>2, <2>6, <3>2, <4>1
      <4>3. QED
        BY <1>4, <2>1, <2>2, <4>1, <4>2
    <3>3. QED
      BY <3>1, <3>2
  <2>7. Len(now) = n /\ now[n] = b.cur
    BY <1>1, <1>4
  <2> HIDE DEF n
  <2>8. QED
    BY <2>3, <2>4, <2>5, <2>6, <2>7 DEF Filled
<1>8. QED
  BY <1>2, <1>6, <1>7 DEF b, now, marked

\* A block that is full says the truth of its frames.
LEMMA FullIsTruthful ==
  ASSUME NEW c \in Stream!ClientType, NEW frames, NEW marks \in Nat,
         Filled(c, frames, marks, Block)
  PROVE  Stream!Truthful(Stream!BlockOf(c, frames, marks))
<1> DEFINE b == Stream!BlockOf(c, frames, marks)
<1>1. b.hz0 = c.hz0 /\ b.off = c.off /\ b.hz1 = c.hz1 /\ b.frames = frames /\ b.marks = marks
  BY DEF Stream!BlockOf
<1> HIDE DEF b
<1>2. c.off \in Nat /\ c.off < Block /\ Block \in Nat
  BY ClientIs, StreamConstants DEF Filled
<1>3. ASSUME NEW k \in 1..Block, k <= c.off \/ k = Block \/ marks <= 1
      PROVE  frames[k] = IF c.off = 0 \/ k <= c.off THEN c.hz0 ELSE c.hz1
  <2>1. CASE marks = 0 \/ k <= c.off
    BY <1>2, <2>1 DEF Filled
  <2>2. CASE marks > 0 /\ k > c.off
    <3>1. c.off # 0
      BY <2>2 DEF Filled
    <3>2. CASE marks = 1
      <4>1. k \in c.off + 1..Block
        BY <1>2, <2>2
      <4>2. QED
        BY <1>2, <2>2, <3>1, <3>2, <4>1 DEF Filled
    <3>3. CASE marks # 1
      <4>1. k = Block
        BY <1>2, <1>3, <2>2, <3>3
      <4>2. QED
        BY <1>2, <2>2, <3>1, <4>1 DEF Filled
    <3>4. QED
      BY <3>2, <3>3
  <2>3. QED
    BY <1>2, <2>1, <2>2
<1>4. QED
  BY <1>1, <1>3 DEF Stream!Truthful, Stream!Stamped, b

\* What the loop over the frames has, o being the last block sent before it.
Blocks     == [hz0 : Centres \cup {0}, off : 0..Block - 1, hz1 : Centres \cup {0},
               frames : Seq(Centres), marks : Nat]
Pumping(o) == [c : {c \in Stream!ClientType : c.sub}, stamps : Seq(Stream!Stamp),
               frames : Seq(Centres), marks : Nat, out : Blocks \cup {o}]

\* With i frames pumped, what is left and what was sent is right.
Right(s, i, f, n, centre) ==
  /\ Told(s.c.cur, s.stamps, i, f, n, centre)
  /\ Stream!BlockSoFar(s.c, s.frames, s.marks)
  /\ s.out # <<>> => Stream!Truthful(s.out)

\* The frame that arrives, in parts: c is the client with the stamps that are due.
LEMMA PumpFrameIs ==
  ASSUME NEW o, NEW s \in Pumping(o), NEW i
  PROVE  LET d      == Stream!Due(s.stamps, i)
             c      == Labelled(s.c, d, Stream!After(s.c.cur, s.stamps, d))
             frames == Append(s.frames, x6[i])
             marks  == Marked(s.c, s.marks, d)
             full   == s.c.fill + 1 = Block
         IN  Stream!PumpFrame(s, i) =
               [c      |-> [c EXCEPT !.fill = IF full THEN 0 ELSE @ + 1],
                stamps |-> SubSeq(s.stamps, d + 1, Len(s.stamps)),
                frames |-> IF full THEN <<>> ELSE frames,
                marks  |-> IF full THEN 0 ELSE marks,
                out    |-> IF full THEN Stream!BlockOf(c, frames, marks) ELSE s.out]
BY DEF Stream!PumpFrame, Labelled, Marked

LEMMA PumpFrameStays ==
  ASSUME NEW o, NEW s \in Pumping(o), NEW i \in Int, x6[i] \in Centres
  PROVE  Stream!PumpFrame(s, i) \in Pumping(o)
<1> DEFINE d      == Stream!Due(s.stamps, i)
           hz     == Stream!After(s.c.cur, s.stamps, d)
           c      == Labelled(s.c, d, hz)
           frames == Append(s.frames, x6[i])
           marks  == Marked(s.c, s.marks, d)
           full   == s.c.fill + 1 = Block
           left   == SubSeq(s.stamps, d + 1, Len(s.stamps))
           b      == Stream!BlockOf(c, frames, marks)
           filled == [c EXCEPT !.fill = IF full THEN 0 ELSE @ + 1]
<1>1. /\ s.c \in Stream!ClientType /\ s.c.sub /\ s.stamps \in Seq(Stream!Stamp)
      /\ s.frames \in Seq(Centres) /\ s.marks \in Nat /\ s.out \in Blocks \cup {o}
  BY DEF Pumping
<1>2. d \in 0..Len(s.stamps) /\ d \in Nat
  <2>1. Len(s.stamps) \in Nat
    BY <1>1, StampsOf
  <2>2. d \in 0..Len(s.stamps)
    BY <1>1, DueIs
  <2>3. QED
    BY <2>1, <2>2
<1>3. hz \in Centres \cup {0}
  BY <1>1, <1>2, ClientIs, AfterType
<1>4. c \in Stream!ClientType /\ c.sub = s.c.sub /\ c.fill = s.c.fill
  BY <1>1, <1>2, <1>3, LabelledIs
<1>5. frames \in Seq(Centres) /\ marks \in Nat
  BY <1>1, <1>2, AppendProperties DEF Marked
<1>6. left \in Seq(Stream!Stamp)
  <2>1. d + 1 \in 1..Len(s.stamps) + 1 /\ Len(s.stamps) \in 0..Len(s.stamps)
    BY <1>1, <1>2, StampsOf
  <2>2. QED
    BY <1>1, <2>1, SubSeqProperties
<1>7. Stream!PumpFrame(s, i) =
        [c |-> filled, stamps |-> left, frames |-> IF full THEN <<>> ELSE frames,
         marks |-> IF full THEN 0 ELSE marks, out |-> IF full THEN b ELSE s.out]
  <2> HIDE DEF Labelled, Marked
  <2>1. QED
    BY PumpFrameIs
<1> HIDE DEF hz, c, frames, marks, left, d
<1>8. b \in Blocks
  BY <1>4, <1>5, ClientIs DEF Stream!BlockOf, Blocks
<1>9. filled \in Stream!ClientType /\ filled.sub
  <2>1. c.fill \in 0..Block - 1
    BY <1>4, ClientIs
  <2>2. (IF full THEN 0 ELSE c.fill + 1) \in 0..Block - 1
    BY <2>1, <1>4, StreamConstants
  <2>3. QED
    BY <1>1, <1>4, <2>2 DEF Stream!ClientType
<1> HIDE DEF b, filled, full
<1>10. <<>> \in Seq(Centres) /\ 0 \in Nat
  OBVIOUS
<1>11. QED
  BY <1>1, <1>5, <1>6, <1>7, <1>8, <1>9, <1>10 DEF Pumping

LEMMA PumpFrameIsRight ==
  ASSUME NEW o, NEW s \in Pumping(o), NEW f, NEW n \in Nat, NEW centre, NEW i \in 1..n,
         x6[i] = f[i], f[i] \in Centres, Right(s, i - 1, f, n, centre)
  PROVE  Right(Stream!PumpFrame(s, i), i, f, n, centre)
<1> DEFINE d      == Stream!Due(s.stamps, i)
           hz     == Stream!After(s.c.cur, s.stamps, d)
           c      == Labelled(s.c, d, hz)
           frames == Append(s.frames, x6[i])
           marks  == Marked(s.c, s.marks, d)
           full   == s.c.fill + 1 = Block
           left   == SubSeq(s.stamps, d + 1, Len(s.stamps))
           b      == Stream!BlockOf(c, frames, marks)
           filled == [c EXCEPT !.fill = IF full THEN 0 ELSE @ + 1]
           r      == Stream!PumpFrame(s, i)
<1>1. /\ s.c \in Stream!ClientType /\ s.c.sub /\ s.stamps \in Seq(Stream!Stamp)
      /\ s.frames \in Seq(Centres) /\ s.marks \in Nat
  BY DEF Pumping
<1>2. d \in 0..Len(s.stamps) /\ d \in Nat /\ i \in Int
  <2>1. Len(s.stamps) \in Nat /\ i \in Int
    BY <1>1, StampsOf
  <2>2. d \in 0..Len(s.stamps)
    BY <1>1, <2>1, DueIs
  <2>3. QED
    BY <2>1, <2>2
<1>3. f[i] = hz /\ Told(hz, left, i, f, n, centre)
  BY <1>1, ToldPumped DEF Right
<1>4. c \in Stream!ClientType /\ c.fill = s.c.fill /\ c.cur = hz
  <2>1. hz \in Centres \cup {0}
    BY <1>3
  <2> HIDE DEF d, hz
  <2>2. QED
    BY <1>1, <1>2, <2>1, LabelledIs
<1>5. marks \in Nat
  BY <1>1, <1>2 DEF Marked
<1>6. r = [c |-> filled, stamps |-> left, frames |-> IF full THEN <<>> ELSE frames,
           marks |-> IF full THEN 0 ELSE marks, out |-> IF full THEN b ELSE s.out]
  BY PumpFrameIs
<1>7. Filled(c, frames, marks, s.c.fill + 1)
  <2>1. d = 0 => hz = s.c.cur
    BY DEF Stream!After
  <2>2. Stream!BlockSoFar(s.c, s.frames, s.marks)
    BY DEF Right
  <2>3. frames = Append(s.frames, hz) /\ hz \in Centres
    BY <1>3
  <2> HIDE DEF d, hz
  <2>4. QED
    BY <1>1, <1>2, <2>1, <2>2, <2>3, BlockGrows
<1> HIDE DEF hz, c, frames, marks, left, d, r
<1>8. filled.cur = hz /\ filled.fill = (IF full THEN 0 ELSE c.fill + 1)
      /\ filled.off = c.off /\ filled.hz0 = c.hz0 /\ filled.hz1 = c.hz1
  BY <1>4 DEF Stream!ClientType
<1>9. ASSUME full PROVE Right(r, i, f, n, centre)
  <2>1. Stream!Truthful(b)
    <3>1. Filled(c, frames, marks, Block)
      BY <1>7, <1>9
    <3>2. QED
      BY <3>1, <1>4, <1>5, FullIsTruthful
  <2>2. r.c = filled /\ r.stamps = left /\ r.frames = <<>> /\ r.marks = 0 /\ r.out = b
    BY <1>6, <1>9
  <2>3. Stream!BlockSoFar(filled, <<>>, 0)
    BY <1>8, <1>9 DEF Stream!BlockSoFar
  <2> HIDE DEF b, filled, full
  <2>4. QED
    BY <1>3, <1>8, <2>1, <2>2, <2>3 DEF Right
<1>10. ASSUME ~full PROVE Right(r, i, f, n, centre)
  <2>1. r.c = filled /\ r.stamps = left /\ r.frames = frames /\ r.marks = marks
        /\ r.out = s.out
    BY <1>6, <1>10
  <2>2. Stream!BlockSoFar(filled, frames, marks)
    <3>1. filled.fill = s.c.fill + 1 /\ s.c.fill \in Nat
      BY <1>1, <1>4, <1>8, <1>10, ClientIs, StreamConstants
    <3> HIDE DEF filled
    <3>2. QED
      BY <1>4, <1>7, <1>8, <3>1 DEF Stream!BlockSoFar, Filled
  <2> HIDE DEF filled, full
  <2>3. QED
    BY <1>3, <1>8, <2>1, <2>2 DEF Right
<1>11. QED
  BY <1>9, <1>10 DEF r

\* The invariant in two parts: the types, and what is right of a stream that was
\* started on the centre.
StreamTypes ==
  /\ {x1, x2} \subseteq Centres /\ x8 \in {0, x2}
  /\ x4 \in [1..Latency -> Centres] /\ {x5, x6} \subseteq Seq(Centres)
  /\ x7 \in Seq(Stream!Stamp) /\ x9 \in Stream!ClientType
  /\ x11 \in [frames : Seq(Centres), marks : Nat, settled : BOOLEAN, onDial : BOOLEAN]
  /\ ~x9.sub => x10 = <<>>

Start == [c |-> x9, stamps |-> x7, frames |-> x11.frames, marks |-> x11.marks, out |-> x10]

StreamRight ==
  (x9.sub /\ x11.settled /\ x11.onDial) => Right(Start, 0, Frames, Stream!ChangeIndex, x2)

LEMMA StreamIs == Stream!StreamInv <=> StreamTypes /\ StreamRight
<1>1. Stream!Foretold(x9.cur, x7, 0) <=> Told(x9.cur, x7, 0, Frames, Stream!ChangeIndex, x2)
  BY ForetoldIsTold
<1>2. Start.c = x9 /\ Start.stamps = x7 /\ Start.frames = x11.frames
      /\ Start.marks = x11.marks /\ Start.out = x10
  BY DEF Start
<1>3. Right(Start, 0, Frames, Stream!ChangeIndex, x2)
        <=> /\ Stream!Foretold(x9.cur, x7, 0)
            /\ Stream!BlockSoFar(x9, x11.frames, x11.marks)
            /\ x10 # <<>> => Stream!Truthful(x10)
  BY <1>1, <1>2 DEF Right
<1>4. QED
  BY <1>3, Zenon DEF Stream!StreamInv, StreamTypes, StreamRight

LEMMA StreamIsNext == Stream!StreamInv' <=> StreamTypes' /\ StreamRight'
BY StreamIs, PTL

\* The frames lie in the ring, at the listener and at the radio.
LaidOut ==
  /\ Stream!ChangeIndex = Len(x6) + Len(x5) + Latency /\ Stream!ChangeIndex \in Nat
  /\ Len(x6) \in Nat /\ Len(x5) \in Nat
  /\ \A k \in 1..Stream!ChangeIndex :
       /\ Frames[k] \in Centres
       /\ Frames[k] = IF k <= Len(x6) THEN x6[k]
                      ELSE IF k <= Len(x6) + Len(x5) THEN x5[k - Len(x6)]
                      ELSE x4[k - Len(x6) - Len(x5)]

LEMMA FramesAre == StreamTypes => LaidOut
<1> SUFFICES ASSUME StreamTypes PROVE LaidOut
  OBVIOUS
<1>1. x5 \in Seq(Centres) /\ x6 \in Seq(Centres) /\ x4 \in [1..Latency -> Centres]
  BY DEF StreamTypes
<1>2. Len(x6) \in Nat /\ Len(x5) \in Nat /\ Latency \in Nat
  BY <1>1, StreamConstants
<1>3. Stream!ChangeIndex = Len(x6) + Len(x5) + Latency
  BY DEF Stream!ChangeIndex
<1>4. ASSUME NEW k \in 1..Stream!ChangeIndex
      PROVE  /\ Frames[k] = IF k <= Len(x6) THEN x6[k]
                            ELSE IF k <= Len(x6) + Len(x5) THEN x5[k - Len(x6)]
                            ELSE x4[k - Len(x6) - Len(x5)]
             /\ Frames[k] \in Centres
  <2>1. Frames[k] = IF k <= Len(x6) THEN x6[k]
                    ELSE IF k <= Len(x6) + Len(x5) THEN x5[k - Len(x6)]
                    ELSE x4[k - Len(x6) - Len(x5)]
    BY DEF Frames, Stream!FrameAt
  <2>2. CASE k <= Len(x6)
    BY <1>1, <1>2, <2>1, <2>2
  <2>3. CASE k > Len(x6) /\ k <= Len(x6) + Len(x5)
    <3>1. k - Len(x6) \in 1..Len(x5)
      BY <1>2, <2>3
    <3>2. QED
      BY <1>1, <1>2, <2>1, <2>3, <3>1
  <2>4. CASE k > Len(x6) + Len(x5)
    <3>1. k - Len(x6) - Len(x5) \in 1..Latency
      BY <1>2, <1>3, <2>4
    <3>2. QED
      BY <1>1, <1>2, <2>1, <2>4, <3>1
  <2>5. QED
    BY <1>2, <2>2, <2>3, <2>4
<1>5. QED
  BY <1>2, <1>3, <1>4 DEF LaidOut

LEMMA FramesAreNext == StreamTypes' => LaidOut'
BY FramesAre, PTL

LEMMA StartStays ==
  ASSUME StreamTypes, x9.sub PROVE Start \in Pumping(x10)
BY DEF StreamTypes, Start, Pumping

\* The loop over the frames of a chunk does what its recursive function says.
LEMMA PumpedUnfolds ==
  ASSUME StreamTypes, x9.sub, Len(x6) >= Chunk
  PROVE  /\ Stream!Pumped[0] = Start
         /\ \A i \in 1..Chunk : Stream!Pumped[i] = Stream!PumpFrame(Stream!Pumped[i - 1], i)
         /\ \A i \in 0..Chunk : Stream!Pumped[i] \in Pumping(x10)
<1> DEFINE S == Pumping(x10)
           Eq(f) == f = [i \in 0..Chunk |-> IF i = 0 THEN Start
                                            ELSE Stream!PumpFrame(f[i - 1], i)]
           step == [p \in S \X (1..Chunk) |-> Stream!PumpFrame(p[1], p[2])]
<1>1. Stream!Pumped = CHOOSE f : Eq(f)
  BY DEF Stream!Pumped, Start
<1>2. ASSUME NEW s \in S, NEW i \in 1..Chunk
      PROVE  Stream!PumpFrame(s, i) \in S /\ step[<<s, i>>] = Stream!PumpFrame(s, i)
  <2>1. x6[i] \in Centres /\ i \in Int
    <3>1. x6 \in Seq(Centres) /\ Len(x6) \in Nat
      BY DEF StreamTypes
    <3>2. i \in 1..Len(x6)
      BY <3>1, StreamConstants
    <3>3. QED
      BY <3>1, <3>2
  <2>2. <<s, i>> \in S \X (1..Chunk)
    OBVIOUS
  <2> HIDE DEF S
  <2>3. step[<<s, i>>] = Stream!PumpFrame(s, i)
    BY <2>2
  <2>4. QED
    BY <2>1, <2>3, PumpFrameStays DEF S
<1>3. Start \in S
  BY StartStays
<1> HIDE DEF S
<1>4. StepIn(step, Chunk, S)
  <2>1. ASSUME NEW p \in S \X (1..Chunk) PROVE Stream!PumpFrame(p[1], p[2]) \in S
    <3>1. p[1] \in S /\ p[2] \in 1..Chunk
      OBVIOUS
    <3>2. QED
      BY <3>1, <1>2
  <2>2. QED
    BY <2>1 DEF StepIn
<1> HIDE DEF step
<1>5. PICK g : Stepped(g, Start, step, Chunk, S)
  BY <1>3, <1>4, StreamConstants, Unfolds
<1>6. ASSUME NEW i \in 0..Chunk
      PROVE  g[i] \in S /\ g[i] = IF i = 0 THEN Start ELSE Stream!PumpFrame(g[i - 1], i)
  <2>1. g[i] \in S /\ (i # 0 => g[i - 1] \in S /\ i \in 1..Chunk)
    BY <1>5, StreamConstants DEF Stepped
  <2>2. QED
    BY <1>2, <1>5, <2>1 DEF Stepped
<1>7. Eq(g)
  BY <1>5, <1>6 DEF Stepped
<1>8. Eq(Stream!Pumped)
  <2> HIDE DEF Eq
  <2>1. QED
    BY <1>1, <1>7, Zenon
<1>9. /\ Stream!Pumped[0] = Start
      /\ \A i \in 1..Chunk : Stream!Pumped[i] = Stream!PumpFrame(Stream!Pumped[i - 1], i)
  BY <1>8, StreamConstants
<1> DEFINE In == {i \in Nat : i <= Chunk => Stream!Pumped[i] \in S}
<1>10. 0 \in In
  BY <1>3, <1>9
<1>11. ASSUME NEW i \in Nat, i \in In PROVE i + 1 \in In
  <2> SUFFICES ASSUME i + 1 <= Chunk PROVE Stream!Pumped[i + 1] \in S
    OBVIOUS
  <2>1. i + 1 \in 1..Chunk /\ Stream!Pumped[i] \in S
    BY <1>11, StreamConstants
  <2>2. Stream!Pumped[i + 1] = Stream!PumpFrame(Stream!Pumped[i], i + 1)
    BY <1>9, <2>1
  <2>3. QED
    BY <1>2, <2>1, <2>2
<1>12. Nat \subseteq In
  <2> HIDE DEF In
  <2>1. QED
    BY <1>10, <1>11, SetInduction
<1>13. QED
  BY <1>9, <1>12, StreamConstants DEF S

LEMMA PumpedIsRight ==
  ASSUME StreamTypes, x9.sub, Len(x6) >= Chunk,
         Right(Start, 0, Frames, Stream!ChangeIndex, x2)
  PROVE  Right(Stream!Pumped[Chunk], Chunk, Frames, Stream!ChangeIndex, x2)
<1> DEFINE R(i) == Right(Stream!Pumped[i], i, Frames, Stream!ChangeIndex, x2)
           Rights == {i \in Nat : i <= Chunk => R(i)}
<1>1. 0 \in Rights
  BY PumpedUnfolds
<1>2. ASSUME NEW i \in Nat, i \in Rights PROVE i + 1 \in Rights
  <2> SUFFICES ASSUME i + 1 <= Chunk PROVE R(i + 1)
    OBVIOUS
  <2>1. Stream!ChangeIndex \in Nat /\ Stream!ChangeIndex >= Chunk /\ i + 1 \in 1..Chunk
        /\ i \in 0..Chunk
    BY FramesAre, StreamConstants DEF LaidOut
  <2>2. i + 1 \in 1..Stream!ChangeIndex /\ (i + 1) - 1 = i
    BY <2>1, StreamConstants
  <2>3. x6[i + 1] = Frames[i + 1] /\ Frames[i + 1] \in Centres
    BY <2>1, <2>2, FramesAre, StreamConstants DEF LaidOut
  <2>4. R(i)
    BY <1>2, <2>1
  <2>5. Stream!Pumped[i] \in Pumping(x10)
        /\ Stream!Pumped[i + 1] = Stream!PumpFrame(Stream!Pumped[i], i + 1)
    BY <2>1, <2>2, PumpedUnfolds
  <2>6. Right(Stream!Pumped[i], (i + 1) - 1, Frames, Stream!ChangeIndex, x2)
    BY <2>2, <2>4
  <2>7. QED
    BY <2>1, <2>2, <2>3, <2>5, <2>6, PumpFrameIsRight
<1>3. Chunk \in Rights
  <2> HIDE DEF Rights
  <2>1. QED
    BY <1>1, <1>2, SetInduction, StreamConstants
<1>4. QED
  BY <1>3, StreamConstants

\* What the three ways to tune do with the stamps: Note.
LEMMA NoteKeeps ==
  ASSUME StreamTypes, StreamRight, NEW hz \in Centres, Stream!Note(hz),
         x1' \in Centres, x2' = hz, x4' = x4, x5' = x5, x6' = x6, x9' = x9, x10' = x10, x11' = x11
  PROVE  StreamTypes' /\ StreamRight'
<1> DEFINE e == [at |-> Stream!ChangeIndex, hz |-> hz]
<1>1. LaidOut
  BY FramesAre
<1>2. e \in Stream!Stamp
  BY <1>1 DEF LaidOut, Stream!Stamp
<1>3. x8' = hz /\ x7' = IF x9.sub /\ hz # x8 THEN Append(x7, e) ELSE x7
  BY DEF Stream!Note
<1>4. StreamTypes'
  <2>1. x7' \in Seq(Stream!Stamp)
    <3> HIDE DEF e
    <3>1. QED
      BY <1>2, <1>3 DEF StreamTypes
  <2>2. QED
    BY <1>3, <2>1 DEF StreamTypes
<1>5. Frames' = Frames /\ Stream!ChangeIndex' = Stream!ChangeIndex
  BY DEF Frames, Stream!ChangeIndex, Stream!FrameAt
<1>6. ASSUME x9.sub, x11.settled, x11.onDial
      PROVE  Right(Start', 0, Frames, Stream!ChangeIndex, x2')
  <2>1. Right(Start, 0, Frames, Stream!ChangeIndex, x2)
    BY <1>6 DEF StreamRight
  <2>2. Start'.c = x9 /\ Start'.stamps = x7' /\ Start'.frames = x11.frames
        /\ Start'.marks = x11.marks /\ Start'.out = x10
    BY DEF Start
  <2>3. Start.c = x9 /\ Start.stamps = x7 /\ Start.frames = x11.frames
        /\ Start.marks = x11.marks /\ Start.out = x10
    BY DEF Start
  <2>4. Told(x9.cur, x7, 0, Frames, Stream!ChangeIndex, x2)
    BY <2>1, <2>3 DEF Right
  <2>5. Told(x9.cur, x7', 0, Frames, Stream!ChangeIndex, hz)
    <3>1. CASE hz = x8
      <4>1. x8 = x2
        BY <3>1, StreamConstants DEF StreamTypes
      <4>2. QED
        BY <1>3, <2>4, <3>1, <4>1
    <3>2. CASE hz # x8
      <4>1. x7 \in Seq(Stream!Stamp) /\ Stream!ChangeIndex \in Nat
        BY <1>1 DEF StreamTypes, LaidOut
      <4>2. QED
        BY <1>3, <1>6, <2>4, <3>2, <4>1, ToldNoted
    <3>3. QED
      BY <3>1, <3>2
  <2>6. QED
    BY <2>1, <2>2, <2>3, <2>5 DEF Right
<1>7. QED
  BY <1>4, <1>5, <1>6 DEF StreamRight

LEMMA IqStartKeeps ==
  ASSUME StreamTypes, Stream!IqStart
  PROVE  StreamTypes' /\ StreamRight'
<1>1. /\ x9' = [Stream!Quiet EXCEPT !.sub = TRUE, !.cur = x1, !.hz0 = x1] /\ x7' = <<>>
      /\ x11' = [frames |-> <<>>, marks |-> 0,
                 settled |-> \A s \in {x4, x5, x6} : \A i \in DOMAIN s : s[i] = x2,
                 onDial |-> x1 = x2]
      /\ ~x9.sub /\ x1' = x1 /\ x2' = x2 /\ x4' = x4 /\ x5' = x5 /\ x6' = x6 /\ x8' = x8
      /\ x10' = x10
  BY DEF Stream!IqStart, Stream!tuneVars
<1>2. x9' = [sub |-> TRUE, cur |-> x1, fill |-> 0, hz0 |-> x1, off |-> 0, hz1 |-> 0]
  BY <1>1 DEF Stream!Quiet
<1>3. x10' = <<>> /\ x1 \in Centres /\ x2 \in Centres
  BY <1>1 DEF StreamTypes
<1>4. StreamTypes'
  <2>1. x9' \in Stream!ClientType
    BY <1>2, <1>3, StreamConstants DEF Stream!ClientType
  <2>2. <<>> \in Seq(Centres) /\ <<>> \in Seq(Stream!Stamp)
    OBVIOUS
  <2>3. x11' \in [frames : Seq(Centres), marks : Nat, settled : BOOLEAN, onDial : BOOLEAN]
    BY <1>1, <2>2
  <2>4. QED
    BY <1>1, <1>3, <2>1, <2>2, <2>3 DEF StreamTypes
<1>5. LaidOut'
  BY <1>4, FramesAreNext
<1>6. ASSUME x11'.settled, x11'.onDial
      PROVE  Right(Start', 0, Frames', Stream!ChangeIndex', x2')
  <2>1. /\ x1 = x2 /\ \A i \in DOMAIN x4 : x4[i] = x2
        /\ \A i \in DOMAIN x5 : x5[i] = x2
        /\ \A i \in DOMAIN x6 : x6[i] = x2
    BY <1>1, <1>6
  <2>2. DOMAIN x4 = 1..Latency /\ DOMAIN x5 = 1..Len(x5) /\ DOMAIN x6 = 1..Len(x6)
    BY DEF StreamTypes
  <2>3. Len(x6) \in Nat /\ Len(x5) \in Nat /\ Latency \in Nat
        /\ Stream!ChangeIndex' = Len(x6) + Len(x5) + Latency
    BY <1>1, <1>5, StreamConstants DEF LaidOut
  <2>4. ASSUME NEW k \in 1..Stream!ChangeIndex' PROVE Frames'[k] = x2
    <3>1. Frames'[k] = IF k <= Len(x6) THEN x6[k]
                       ELSE IF k <= Len(x6) + Len(x5) THEN x5[k - Len(x6)]
                       ELSE x4[k - Len(x6) - Len(x5)]
      BY <1>1, <1>5 DEF LaidOut
    <3>2. CASE k <= Len(x6)
      BY <2>1, <2>2, <2>3, <3>1, <3>2
    <3>3. CASE k > Len(x6) /\ k <= Len(x6) + Len(x5)
      <4>1. k - Len(x6) \in 1..Len(x5)
        BY <2>3, <3>3
      <4>2. QED
        BY <2>1, <2>2, <2>3, <3>1, <3>3, <4>1
    <3>4. CASE k > Len(x6) + Len(x5)
      <4>1. k - Len(x6) - Len(x5) \in 1..Latency
        BY <2>3, <3>4
      <4>2. QED
        BY <2>1, <2>2, <2>3, <3>1, <3>4, <4>1
    <3>5. QED
      BY <2>3, <3>2, <3>3, <3>4
  <2>5. Told(x1, <<>>, 0, Frames', Stream!ChangeIndex', x2)
    BY <2>1, <2>4 DEF Told, Stream!After
  <2>6. Stream!BlockSoFar(x9', <<>>, 0)
    BY <1>2 DEF Stream!BlockSoFar
  <2>7. Start'.c = x9' /\ Start'.stamps = <<>> /\ Start'.frames = <<>>
        /\ Start'.marks = 0 /\ Start'.out = <<>> /\ x9'.cur = x1
    BY <1>1, <1>2, <1>3 DEF Start
  <2>8. QED
    BY <1>1, <2>5, <2>6, <2>7 DEF Right
<1>7. QED
  BY <1>4, <1>6 DEF StreamRight

LEMMA IqStopKeeps ==
  ASSUME StreamTypes, Stream!IqStop
  PROVE  StreamTypes' /\ StreamRight'
<1>1. /\ x9' = Stream!Quiet /\ x7' = <<>> /\ x10' = <<>>
      /\ x11' = [x11 EXCEPT !.frames = <<>>, !.marks = 0]
      /\ x1' = x1 /\ x2' = x2 /\ x4' = x4 /\ x5' = x5 /\ x6' = x6 /\ x8' = x8
  BY DEF Stream!IqStop, Stream!tuneVars
<1>2. ~x9'.sub /\ x9' \in Stream!ClientType
  BY <1>1, StreamConstants DEF Stream!Quiet, Stream!ClientType
<1>3. <<>> \in Seq(Centres) /\ <<>> \in Seq(Stream!Stamp)
  OBVIOUS
<1>4. x11' \in [frames : Seq(Centres), marks : Nat, settled : BOOLEAN, onDial : BOOLEAN]
  BY <1>1, <1>3 DEF StreamTypes
<1>5. StreamTypes'
  BY <1>1, <1>2, <1>3, <1>4 DEF StreamTypes
<1>6. QED
  BY <1>2, <1>5 DEF StreamRight

LEMMA CaptureKeeps ==
  ASSUME StreamTypes, StreamRight, Stream!Capture
  PROVE  StreamTypes' /\ StreamRight'
<1> DEFINE p == Append(x4, x2)
<1>1. /\ x5' = Append(x5, p[1]) /\ x4' = Tail(p)
      /\ x1' = x1 /\ x2' = x2 /\ x6' = x6 /\ x7' = x7 /\ x8' = x8 /\ x9' = x9 /\ x10' = x10
      /\ x11' = x11
  BY DEF Stream!Capture, Stream!tuneVars
<1>2. x4 \in [1..Latency -> Centres] /\ x5 \in Seq(Centres) /\ x6 \in Seq(Centres)
      /\ x2 \in Centres
  BY DEF StreamTypes
<1>3. x4 \in Seq(Centres) /\ Len(x4) = Latency /\ Latency \in Nat
  BY <1>2, StreamConstants
<1>4. p \in Seq(Centres) /\ Len(p) = Latency + 1 /\ p[Latency + 1] = x2
      /\ \A k \in 1..Latency : p[k] = x4[k]
  BY <1>2, <1>3
<1> HIDE DEF p
<1>5. p[1] \in Centres /\ p # <<>>
  BY <1>3, <1>4
<1>6. x4' \in Seq(Centres) /\ Len(x4') = Latency /\ \A k \in 1..Latency : x4'[k] = p[k + 1]
  BY <1>1, <1>3, <1>4, <1>5
<1>7. x5' \in Seq(Centres) /\ Len(x5') = Len(x5) + 1 /\ x5'[Len(x5) + 1] = p[1]
      /\ \A k \in 1..Len(x5) : x5'[k] = x5[k]
  BY <1>1, <1>2, <1>5
<1>8. x4' \in [1..Latency -> Centres]
  BY <1>6
<1>9. StreamTypes'
  BY <1>1, <1>7, <1>8 DEF StreamTypes
<1>10. LaidOut /\ LaidOut'
  BY <1>9, FramesAre, FramesAreNext
<1>11. Len(x6) \in Nat /\ Len(x5) \in Nat /\ Stream!ChangeIndex = Len(x6) + Len(x5) + Latency
       /\ Stream!ChangeIndex' = Stream!ChangeIndex + 1
  BY <1>1, <1>3, <1>7, <1>10 DEF LaidOut
<1>12. ASSUME NEW k \in 1..Stream!ChangeIndex + 1
       PROVE  Frames'[k] = IF k <= Len(x6) THEN x6[k]
                           ELSE IF k <= Len(x6) + Len(x5) THEN x5[k - Len(x6)]
                           ELSE p[k - Len(x6) - Len(x5)]
  <2>1. Frames'[k] = IF k <= Len(x6) THEN x6[k]
                     ELSE IF k <= Len(x6) + Len(x5) + 1 THEN x5'[k - Len(x6)]
                     ELSE x4'[k - Len(x6) - (Len(x5) + 1)]
    <3>1. k \in 1..Stream!ChangeIndex' /\ Len(x6) + Len(x5') = Len(x6) + Len(x5) + 1
      BY <1>7, <1>11
    <3>2. QED
      BY <1>1, <1>7, <1>10, <3>1 DEF LaidOut
  <2>2. CASE k <= Len(x6)
    BY <2>1, <2>2
  <2>3. CASE k > Len(x6) /\ k <= Len(x6) + Len(x5)
    <3>1. k - Len(x6) \in 1..Len(x5)
      BY <1>11, <2>3
    <3>2. QED
      BY <1>7, <1>11, <2>1, <2>3, <3>1
  <2>4. CASE k = Len(x6) + Len(x5) + 1
    <3>1. k - Len(x6) = Len(x5) + 1 /\ k - Len(x6) - Len(x5) = 1
      BY <1>11, <2>4
    <3>2. QED
      BY <1>7, <1>11, <2>1, <2>4, <3>1
  <2>5. CASE k > Len(x6) + Len(x5) + 1
    <3>1. k - Len(x6) - (Len(x5) + 1) \in 1..Latency
          /\ (k - Len(x6) - (Len(x5) + 1)) + 1 = k - Len(x6) - Len(x5)
      BY <1>3, <1>11, <2>5
    <3>2. QED
      BY <1>6, <1>11, <2>1, <2>5, <3>1
  <2>6. QED
    BY <1>11, <2>2, <2>3, <2>4, <2>5
<1>13. ASSUME NEW k \in 1..Stream!ChangeIndex PROVE Frames'[k] = Frames[k]
  <2>1. Frames[k] = IF k <= Len(x6) THEN x6[k]
                    ELSE IF k <= Len(x6) + Len(x5) THEN x5[k - Len(x6)]
                    ELSE x4[k - Len(x6) - Len(x5)]
    BY <1>10 DEF LaidOut
  <2>2. k \in 1..Stream!ChangeIndex + 1
    BY <1>3, <1>11
  <2>3. k > Len(x6) + Len(x5) => k - Len(x6) - Len(x5) \in 1..Latency
    BY <1>3, <1>11
  <2>4. QED
    BY <1>4, <1>11, <1>12, <2>1, <2>2, <2>3
<1>14. Frames'[Stream!ChangeIndex + 1] = x2
  <2>1. Stream!ChangeIndex + 1 \in 1..Stream!ChangeIndex + 1
        /\ Stream!ChangeIndex + 1 - Len(x6) - Len(x5) = Latency + 1
        /\ Stream!ChangeIndex + 1 > Len(x6) + Len(x5) /\ Stream!ChangeIndex + 1 > Len(x6)
    BY <1>3, <1>11
  <2>2. QED
    BY <1>4, <1>11, <1>12, <2>1
<1>15. StreamRight'
  <2> SUFFICES ASSUME x9.sub, x11.settled, x11.onDial
               PROVE  Right(Start', 0, Frames', Stream!ChangeIndex', x2')
    BY <1>1 DEF StreamRight
  <2>1. Right(Start, 0, Frames, Stream!ChangeIndex, x2) /\ Start' = Start
    BY <1>1 DEF StreamRight, Start
  <2>2. Start.c = x9 /\ Start.stamps = x7
    BY DEF Start
  <2>3. Told(x9.cur, x7, 0, Frames, Stream!ChangeIndex, x2) /\ x7 \in Seq(Stream!Stamp)
        /\ Stream!ChangeIndex \in Nat
    BY <2>1, <2>2, <1>10 DEF Right, StreamTypes, LaidOut
  <2>4. Told(x9.cur, x7, 0, Frames', Stream!ChangeIndex + 1, x2)
    BY <2>3, <1>13, <1>14, ToldCaptured
  <2>5. QED
    BY <1>1, <1>11, <2>1, <2>2, <2>4 DEF Right
<1>16. QED
  BY <1>9, <1>15

LEMMA IqPushKeeps ==
  ASSUME StreamTypes, StreamRight, Stream!IqPush
  PROVE  StreamTypes' /\ StreamRight'
<1>1. /\ x5 # <<>> /\ x5' = Tail(x5) /\ x6' = (IF x9.sub THEN Append(x6, Head(x5)) ELSE x6)
      /\ x1' = x1 /\ x2' = x2 /\ x4' = x4 /\ x7' = x7 /\ x8' = x8 /\ x9' = x9 /\ x10' = x10
      /\ x11' = x11
  BY DEF Stream!IqPush, Stream!tuneVars
<1>2. x5 \in Seq(Centres) /\ x6 \in Seq(Centres) /\ Latency \in Nat
  BY StreamConstants DEF StreamTypes
<1>3. Len(x5) \in Nat /\ Len(x5) >= 1 /\ Head(x5) = x5[1] /\ x5[1] \in Centres
      /\ x5' \in Seq(Centres) /\ Len(x5') = Len(x5) - 1
      /\ \A k \in 1..Len(x5) - 1 : x5'[k] = x5[k + 1]
  BY <1>1, <1>2
<1>4. x9.sub => /\ x6' \in Seq(Centres) /\ Len(x6') = Len(x6) + 1
                /\ x6'[Len(x6) + 1] = x5[1] /\ \A k \in 1..Len(x6) : x6'[k] = x6[k]
  BY <1>1, <1>2, <1>3
<1>5. x6' \in Seq(Centres)
  BY <1>1, <1>2, <1>4
<1>6. StreamTypes'
  BY <1>1, <1>3, <1>5 DEF StreamTypes
<1>7. LaidOut /\ LaidOut'
  BY <1>6, FramesAre, FramesAreNext
<1>8. ASSUME x9.sub PROVE Frames' = Frames /\ Stream!ChangeIndex' = Stream!ChangeIndex
  <2>1. Len(x6) \in Nat /\ Len(x6') = Len(x6) + 1
        /\ Stream!ChangeIndex = Len(x6) + Len(x5) + Latency
        /\ Stream!ChangeIndex' = Len(x6') + Len(x5') + Latency
    BY <1>4, <1>7, <1>8 DEF LaidOut
  <2>2. Stream!ChangeIndex' = Stream!ChangeIndex
    BY <1>2, <1>3, <2>1
  <2>3. ASSUME NEW k \in 1..Stream!ChangeIndex PROVE Frames'[k] = Frames[k]
    <3>1. Frames[k] = IF k <= Len(x6) THEN x6[k]
                      ELSE IF k <= Len(x6) + Len(x5) THEN x5[k - Len(x6)]
                      ELSE x4[k - Len(x6) - Len(x5)]
      BY <1>7 DEF LaidOut
    <3>2. Frames'[k] = IF k <= Len(x6') THEN x6'[k]
                       ELSE IF k <= Len(x6') + Len(x5') THEN x5'[k - Len(x6')]
                       ELSE x4'[k - Len(x6') - Len(x5')]
      BY <1>7, <2>2 DEF LaidOut
    <3>3. CASE k <= Len(x6)
      BY <1>4, <1>8, <2>1, <3>1, <3>2, <3>3
    <3>4. CASE k = Len(x6) + 1
      <4>1. k - Len(x6) = 1 /\ k <= Len(x6) + Len(x5) /\ k > Len(x6)
        BY <1>3, <2>1, <3>4
      <4>2. QED
        BY <1>4, <1>8, <2>1, <3>1, <3>2, <3>4, <4>1
    <3>5. CASE k > Len(x6) + 1 /\ k <= Len(x6) + Len(x5)
      <4>1. k - Len(x6') \in 1..Len(x5) - 1 /\ (k - Len(x6')) + 1 = k - Len(x6)
            /\ k <= Len(x6') + Len(x5') /\ k > Len(x6') /\ k > Len(x6)
        BY <1>3, <2>1, <3>5
      <4>2. x5'[k - Len(x6')] = x5[(k - Len(x6')) + 1]
        BY <1>3, <4>1
      <4>3. QED
        BY <3>1, <3>2, <3>5, <4>1, <4>2
    <3>6. CASE k > Len(x6) + Len(x5)
      <4>1. k - Len(x6') - Len(x5') = k - Len(x6) - Len(x5)
            /\ k > Len(x6') + Len(x5') /\ k > Len(x6') /\ k > Len(x6)
        BY <1>3, <2>1, <3>6
      <4>2. QED
        BY <1>1, <2>1, <1>3, <3>1, <3>2, <3>6, <4>1
    <3>7. QED
      BY <1>3, <2>1, <3>3, <3>4, <3>5, <3>6
  <2>4. Frames = [k \in 1..Stream!ChangeIndex |-> Frames[k]]
        /\ Frames' = [k \in 1..Stream!ChangeIndex' |-> Frames'[k]]
    BY DEF Frames
  <2>5. QED
    BY <2>2, <2>3, <2>4
<1>9. StreamRight'
  <2> SUFFICES ASSUME x9.sub, x11.settled, x11.onDial
               PROVE  Right(Start', 0, Frames', Stream!ChangeIndex', x2')
    BY <1>1 DEF StreamRight
  <2>1. Right(Start, 0, Frames, Stream!ChangeIndex, x2) /\ Start' = Start
    BY <1>1 DEF StreamRight, Start
  <2>2. QED
    BY <1>1, <1>8, <2>1
<1>10. QED
  BY <1>6, <1>9

LEMMA IqPumpKeeps ==
  ASSUME StreamTypes, StreamRight, Stream!IqPump
  PROVE  StreamTypes' /\ StreamRight'
<1> DEFINE s == Stream!Pumped[Chunk]
           u == [j \in DOMAIN s.stamps |-> [s.stamps[j] EXCEPT !.at = @ - Chunk]]
<1>1. /\ x9.sub /\ Len(x6) >= Chunk /\ x9' = s.c /\ x10' = s.out /\ x7' = u
      /\ x11' = [x11 EXCEPT !.frames = s.frames, !.marks = s.marks]
      /\ x6' = SubSeq(x6, Chunk + 1, Len(x6))
      /\ x1' = x1 /\ x2' = x2 /\ x4' = x4 /\ x5' = x5 /\ x8' = x8
  BY DEF Stream!IqPump, Stream!tuneVars
<1>2. s \in Pumping(x10)
  BY <1>1, PumpedUnfolds, StreamConstants
<1> HIDE DEF s
<1>3. /\ s.c \in Stream!ClientType /\ s.c.sub /\ s.stamps \in Seq(Stream!Stamp)
      /\ s.frames \in Seq(Centres) /\ s.marks \in Nat
  BY <1>2 DEF Pumping
<1>4. u \in Seq(Stream!Stamp)
  <2>1. Len(s.stamps) \in Nat /\ DOMAIN s.stamps = 1..Len(s.stamps)
    BY <1>3, StampsOf
  <2>2. ASSUME NEW j \in 1..Len(s.stamps) PROVE [s.stamps[j] EXCEPT !.at = @ - Chunk] \in Stream!Stamp
    <3>1. s.stamps[j] \in Stream!Stamp /\ s.stamps[j].at - Chunk \in Int
      BY <1>3, StampsOf, StreamConstants
    <3>2. QED
      BY <3>1 DEF Stream!Stamp
  <2>3. u \in [1..Len(s.stamps) -> Stream!Stamp]
    BY <2>1, <2>2
  <2> HIDE DEF u
  <2>4. QED
    BY <2>1, <2>3
<1>5. x6 \in Seq(Centres) /\ Len(x6) \in Nat /\ Chunk \in Nat /\ Latency \in Nat
  BY StreamConstants DEF StreamTypes
<1>6. x6' \in Seq(Centres) /\ Len(x6') = Len(x6) - Chunk
      /\ \A k \in 1..Len(x6) - Chunk : x6'[k] = x6[k + Chunk]
  <2>1. Chunk + 1 \in 1..Len(x6) + 1 /\ Len(x6) \in 0..Len(x6)
    BY <1>1, <1>5
  <2>2. x6' \in Seq(Centres)
        /\ Len(x6') = (IF Chunk + 1 <= Len(x6) THEN Len(x6) - (Chunk + 1) + 1 ELSE 0)
    BY <1>1, <1>5, <2>1, SubSeqProperties
  <2>3. \A k \in 1..Len(x6) - (Chunk + 1) + 1 : x6'[k] = x6[(Chunk + 1) + k - 1]
    BY <1>1, <1>5, <2>1, SubSeqProperties
  <2>4. QED
    BY <1>1, <1>5, <2>2, <2>3
<1>7. x11' \in [frames : Seq(Centres), marks : Nat, settled : BOOLEAN, onDial : BOOLEAN]
      /\ x11'.frames = s.frames /\ x11'.marks = s.marks
      /\ x11'.settled = x11.settled /\ x11'.onDial = x11.onDial
  BY <1>1, <1>3 DEF StreamTypes
<1>8. StreamTypes'
  <2> HIDE DEF u
  <2>1. QED
    BY <1>1, <1>3, <1>4, <1>6, <1>7 DEF StreamTypes
<1>9. LaidOut /\ LaidOut'
  BY <1>8, FramesAre, FramesAreNext
<1>10. /\ Len(x5) \in Nat /\ Stream!ChangeIndex = Len(x6) + Len(x5) + Latency
       /\ Stream!ChangeIndex' = Stream!ChangeIndex - Chunk
  BY <1>1, <1>5, <1>6, <1>9 DEF LaidOut
<1>11. ASSUME NEW k \in 1..Stream!ChangeIndex - Chunk PROVE Frames'[k] = Frames[k + Chunk]
  <2> DEFINE m == k + Chunk
  <2>1. /\ m \in 1..Stream!ChangeIndex
        /\ k <= Len(x6') <=> m <= Len(x6)
        /\ k <= Len(x6') + Len(x5) <=> m <= Len(x6) + Len(x5)
        /\ k - Len(x6') = m - Len(x6)
        /\ k - Len(x6') - Len(x5) = m - Len(x6) - Len(x5)
    BY <1>5, <1>6, <1>10
  <2>2. k <= Len(x6') => x6'[k] = x6[m]
    BY <1>6
  <2> HIDE DEF m
  <2>3. Frames[m] = IF m <= Len(x6) THEN x6[m]
                    ELSE IF m <= Len(x6) + Len(x5) THEN x5[m - Len(x6)]
                    ELSE x4[m - Len(x6) - Len(x5)]
    BY <1>9, <2>1 DEF LaidOut
  <2>4. Frames'[k] = IF k <= Len(x6') THEN x6'[k]
                     ELSE IF k <= Len(x6') + Len(x5) THEN x5[k - Len(x6')]
                     ELSE x4[k - Len(x6') - Len(x5)]
    BY <1>1, <1>9, <1>10 DEF LaidOut
  <2>5. Frames'[k] = Frames[m]
    BY <2>1, <2>2, <2>3, <2>4
  <2>6. QED
    BY <2>5 DEF m
<1>12. StreamRight'
  <2> SUFFICES ASSUME x11.settled, x11.onDial
               PROVE  Right(Start', 0, Frames', Stream!ChangeIndex', x2')
    BY <1>7 DEF StreamRight
  <2>1. Right(s, Chunk, Frames, Stream!ChangeIndex, x2)
    BY <1>1, PumpedIsRight DEF StreamRight, s
  <2>2. Told(s.c.cur, s.stamps, Chunk, Frames, Stream!ChangeIndex, x2)
        /\ Stream!ChangeIndex \in Nat /\ Chunk <= Stream!ChangeIndex
    BY <2>1, <1>1, <1>5, <1>10 DEF Right
  <2>3. Told(s.c.cur, u, 0, Frames', Stream!ChangeIndex - Chunk, x2)
    BY <1>3, <1>5, <1>11, <2>2, ToldShifted
  <2>4. Start'.c = s.c /\ Start'.stamps = u /\ Start'.frames = s.frames
        /\ Start'.marks = s.marks /\ Start'.out = s.out
    BY <1>1, <1>7 DEF Start
  <2> HIDE DEF u
  <2>5. QED
    BY <1>1, <1>10, <2>1, <2>3, <2>4 DEF Right
<1>13. QED
  BY <1>8, <1>12

LEMMA StreamSteps ==
  ASSUME Stream!StreamInv,
         \/ \E f \in Centres : Stream!Retune(f)
         \/ \E c \in Centres : Stream!SetCentre(c)
         \/ Stream!Ctun \/ Stream!IqStart \/ Stream!IqStop
         \/ Stream!Capture \/ Stream!IqPush \/ Stream!IqPump
  PROVE  Stream!StreamInv'
<1>1. StreamTypes /\ StreamRight /\ x1 \in Centres /\ x2 \in Centres
  BY StreamIs DEF StreamTypes
<1>2. SUFFICES StreamTypes' /\ StreamRight'
  BY StreamIsNext
<1>3. ASSUME NEW f \in Centres, Stream!Retune(f) PROVE StreamTypes' /\ StreamRight'
  <2> DEFINE hz == IF x3 THEN x2 ELSE f
  <2>1. /\ x1' = f /\ x2' = hz /\ Stream!Note(x2') /\ hz \in Centres
        /\ x4' = x4 /\ x5' = x5 /\ x6' = x6 /\ x9' = x9 /\ x10' = x10 /\ x11' = x11
    BY <1>1, <1>3 DEF Stream!Retune
  <2> HIDE DEF hz
  <2>2. Stream!Note(hz)
    BY <2>1
  <2>3. QED
    BY <1>1, <2>1, <2>2, NoteKeeps
<1>4. ASSUME NEW c \in Centres, Stream!SetCentre(c) PROVE StreamTypes' /\ StreamRight'
  <2>1. /\ x1' = x1 /\ x2' = c /\ Stream!Note(c)
        /\ x4' = x4 /\ x5' = x5 /\ x6' = x6 /\ x9' = x9 /\ x10' = x10 /\ x11' = x11
    BY <1>4 DEF Stream!SetCentre
  <2>2. QED
    BY <1>1, <2>1, NoteKeeps
<1>5. ASSUME Stream!Ctun PROVE StreamTypes' /\ StreamRight'
  <2> DEFINE hz == IF x3 THEN x1 ELSE x2
  <2>1. /\ x1' = x1 /\ x2' = hz /\ Stream!Note(x2') /\ hz \in Centres
        /\ x4' = x4 /\ x5' = x5 /\ x6' = x6 /\ x9' = x9 /\ x10' = x10 /\ x11' = x11
    BY <1>1, <1>5 DEF Stream!Ctun
  <2> HIDE DEF hz
  <2>2. Stream!Note(hz)
    BY <2>1
  <2>3. QED
    BY <1>1, <2>1, <2>2, NoteKeeps
<1>6. QED
  BY <1>1, <1>3, <1>4, <1>5, IqStartKeeps, IqStopKeeps, CaptureKeeps, IqPushKeeps, IqPumpKeeps

LEMMA StreamShows == ASSUME Stream!StreamInv PROVE Stream!StampsAreTrue
BY DEF Stream!StreamInv, Stream!StampsAreTrue

\* A block of the IQ stream says of its frames on which frequency they were received,
\* however retunes fall between the frames, the pushes of the listener, the chunks and
\* the blocks, with any latency: up to the first change noted inside it and at its end,
\* and everywhere when there was but one (stamp_note_freq, iq_pump, iq_emit).
THEOREM TheStampsAreTrue == Spec => []StampsAreTrue
<1> DEFINE Inv == part = "stream" => Stream!StreamInv
<1>1. Init => Inv
  <2> SUFFICES ASSUME Init, part = "stream" PROVE Stream!StreamInv
    OBVIOUS
  <2>1. Stream!Init
    BY DEF Init
  <2>2. /\ x1 \in Centres /\ x2 = x1 /\ x8 = 0 /\ x4 = [i \in 1..Latency |-> x1]
        /\ x5 = <<>> /\ x6 = <<>> /\ x7 = <<>> /\ x9 = Stream!Quiet /\ x10 = <<>>
        /\ x11 = [frames |-> <<>>, marks |-> 0, settled |-> TRUE, onDial |-> TRUE]
    BY <2>1 DEF Stream!Init
  <2>3. x4 \in [1..Latency -> Centres]
    BY <2>2
  <2>4. ~x9.sub /\ x9 \in Stream!ClientType
    BY <2>2, StreamConstants DEF Stream!Quiet, Stream!ClientType
  <2>5. <<>> \in Seq(Centres) /\ <<>> \in Seq(Stream!Stamp)
    OBVIOUS
  <2>6. x11 \in [frames : Seq(Centres), marks : Nat, settled : BOOLEAN, onDial : BOOLEAN]
    BY <2>2, <2>5
  <2>7. StreamTypes
    BY <2>2, <2>3, <2>4, <2>5, <2>6 DEF StreamTypes
  <2>8. StreamRight
    BY <2>4 DEF StreamRight
  <2>9. QED
    BY <2>7, <2>8, StreamIs
<1>2. Inv /\ [Next]_vars => Inv'
  <2> SUFFICES ASSUME Inv, [Next]_vars, part' = "stream" PROVE Stream!StreamInv'
    OBVIOUS
  <2>1. part = "stream" /\ Stream!StreamInv
    BY PartStays
  <2>2. CASE Next
    BY <2>1, <2>2, StreamSteps DEF Next
  <2>3. CASE UNCHANGED vars
    <3>1. StreamTypes /\ StreamRight
      BY <2>1, StreamIs
    <3>2. /\ x1' = x1 /\ x2' = x2 /\ x4' = x4 /\ x5' = x5 /\ x6' = x6 /\ x7' = x7 /\ x8' = x8
          /\ x9' = x9 /\ x10' = x10 /\ x11' = x11
      BY <2>3 DEF vars
    <3>3. StreamTypes'
      BY <3>1, <3>2 DEF StreamTypes
    <3>4. Start' = Start /\ Frames' = Frames /\ Stream!ChangeIndex' = Stream!ChangeIndex
      BY <3>2 DEF Start, Frames, Stream!ChangeIndex, Stream!FrameAt
    <3>5. StreamRight'
      BY <3>1, <3>2, <3>4 DEF StreamRight
    <3>6. QED
      BY <3>3, <3>5, StreamIsNext
  <2>4. QED
    BY <2>2, <2>3
<1>3. Inv => StampsAreTrue
  BY StreamShows DEF StampsAreTrue
<1>4. QED
  BY <1>1, <1>2, <1>3, PTL DEF Spec

-----------------------------------------------------------------------------
(* The merging of the answers.  x1 is table, x2 shown, x3 target, x4 stage, *)
(* x5 picked, x6 heard, x7 rounds.                                         *)

LEMMA RankRange == ASSUME NEW i PROVE Found!Rank(i) \in 0..3
BY DEF Found!Rank

\* An entry of the same radio that ranks no lower.
AsGood(e, f) == e.radio = f.radio /\ Found!Rank(e.iface) >= Found!Rank(f.iface)

\* The entries of t are kept in s, or better ones; s has no others, and one of each.
KeptIn(s, t) ==
  /\ s \in Seq(Found!Entry) /\ Found!OneEach(s)
  /\ \A k \in 1..Len(t) : \E j \in 1..Len(s) : AsGood(s[j], t[k])
  /\ \A j \in 1..Len(s) : \E k \in 1..Len(t) : s[j] = t[k]

LEMMA AsGoodOrder ==
  ASSUME NEW e, NEW f, NEW g
  PROVE  AsGood(e, e) /\ (AsGood(e, f) /\ AsGood(f, g) => AsGood(e, g))
<1>1. Found!Rank(e.iface) \in Int /\ Found!Rank(f.iface) \in Int /\ Found!Rank(g.iface) \in Int
  BY RankRange
<1>2. QED
  BY <1>1 DEF AsGood

LEMMA MergedKeeps ==
  ASSUME NEW s \in Seq(Found!Entry), Found!OneEach(s), NEW e \in Found!Entry
  PROVE  /\ Found!Merged(s, e) \in Seq(Found!Entry) /\ Found!OneEach(Found!Merged(s, e))
         /\ \A k \in 1..Len(s) : \E j \in 1..Len(Found!Merged(s, e)) :
              AsGood(Found!Merged(s, e)[j], s[k])
         /\ \E j \in 1..Len(Found!Merged(s, e)) : AsGood(Found!Merged(s, e)[j], e)
         /\ \A j \in 1..Len(Found!Merged(s, e)) :
              Found!Merged(s, e)[j] = e \/ \E k \in 1..Len(s) : Found!Merged(s, e)[j] = s[k]
<1> DEFINE same == {k \in 1..Len(s) : s[k].radio = e.radio}
           m == Found!Merged(s, e)
<1>1. CASE same = {}
  <2>1. m = Append(s, e)
    BY <1>1 DEF Found!Merged
  <2> HIDE DEF m
  <2>2. m \in Seq(Found!Entry) /\ Len(m) = Len(s) + 1 /\ m[Len(s) + 1] = e
        /\ \A k \in 1..Len(s) : m[k] = s[k]
    BY <2>1
  <2>3. \A k \in 1..Len(s) : s[k].radio # e.radio
    BY <1>1
  <2>4. Found!OneEach(m)
    BY <2>2, <2>3 DEF Found!OneEach
  <2>5. \A k \in 1..Len(s) : AsGood(m[k], s[k])
    BY <2>2, AsGoodOrder
  <2>6. AsGood(m[Len(s) + 1], e)
    BY <2>2, AsGoodOrder
  <2>7. \A j \in 1..Len(m) : m[j] = e \/ \E k \in 1..Len(s) : m[j] = s[k]
    BY <2>2
  <2>8. \A k \in 1..Len(s) : \E j \in 1..Len(m) : AsGood(m[j], s[k])
    BY <2>2, <2>5
  <2>9. \E j \in 1..Len(m) : AsGood(m[j], e)
    BY <2>2, <2>6
  <2>10. QED
    BY <2>2, <2>4, <2>7, <2>8, <2>9 DEF m
<1>2. CASE same # {}
  <2> DEFINE c == CHOOSE k \in same : TRUE
  <2>1. c \in same
    BY <1>2
  <2>2. m = IF Found!Rank(e.iface) > Found!Rank(s[c].iface) THEN [s EXCEPT ![c] = e] ELSE s
    BY <1>2 DEF Found!Merged
  <2>3. c \in 1..Len(s) /\ s[c].radio = e.radio
    BY <2>1
  <2> HIDE DEF c, m, same
  <2>4. Found!Rank(e.iface) \in Int /\ Found!Rank(s[c].iface) \in Int
    BY RankRange
  <2>5. CASE Found!Rank(e.iface) > Found!Rank(s[c].iface)
    <3>1. m = [s EXCEPT ![c] = e]
      BY <2>2, <2>5
    <3>2. m \in Seq(Found!Entry) /\ Len(m) = Len(s) /\ m[c] = e
          /\ \A k \in 1..Len(s) : k # c => m[k] = s[k]
      BY <3>1, <2>3, ExceptSeq
    <3>3. \A k \in 1..Len(s) : m[k].radio = s[k].radio
      BY <3>2, <2>3
    <3>4. Found!OneEach(m)
      BY <3>2, <3>3 DEF Found!OneEach
    <3>5. AsGood(m[c], s[c]) /\ AsGood(m[c], e)
      BY <3>2, <2>3, <2>4, <2>5, AsGoodOrder DEF AsGood
    <3>6. \A k \in 1..Len(s) : AsGood(m[k], s[k])
      BY <3>2, <3>5, AsGoodOrder
    <3>7. \A j \in 1..Len(m) : m[j] = e \/ \E k \in 1..Len(s) : m[j] = s[k]
      BY <3>2
    <3>8. \A k \in 1..Len(s) : \E j \in 1..Len(m) : AsGood(m[j], s[k])
      BY <3>2, <3>6
    <3>9. \E j \in 1..Len(m) : AsGood(m[j], e)
      BY <3>2, <3>5, <2>3
    <3>10. QED
      BY <3>2, <3>4, <3>7, <3>8, <3>9 DEF m
  <2>6. CASE ~ (Found!Rank(e.iface) > Found!Rank(s[c].iface))
    <3>1. m = s
      BY <2>2, <2>6
    <3>2. AsGood(s[c], e)
      BY <2>3, <2>4, <2>6 DEF AsGood
    <3>3. \A k \in 1..Len(s) : AsGood(s[k], s[k])
      BY AsGoodOrder
    <3>4. QED
      BY <3>1, <3>2, <3>3, <2>3 DEF m
  <2>7. QED
    BY <2>5, <2>6
<1>3. QED
  BY <1>1, <1>2

\* discovery_dedup keeps one entry of each radio, one that was there, and none that was
\* there ranks higher, however many met in whatever order.
THEOREM DedupKeeps ==
  ASSUME NEW t \in Seq(Found!Entry)
  PROVE  KeptIn(Found!Dedup(t), t)
<1> DEFINE S == {s \in Seq(Found!Entry) : Found!OneEach(s)}
           Eq(f) == f = [n \in 0..Len(t) |-> IF n = 0 THEN <<>>
                                             ELSE Found!Merged(f[n - 1], t[n])]
           merged == CHOOSE f : Eq(f)
           step == [p \in S \X (1..Len(t)) |-> Found!Merged(p[1], t[p[2]])]
<1>1. Found!Dedup(t) = merged[Len(t)]
  BY DEF Found!Dedup
<1>2. ASSUME NEW s \in S, NEW n \in 1..Len(t)
      PROVE  Found!Merged(s, t[n]) \in S /\ step[<<s, n>>] = Found!Merged(s, t[n])
  <2>1. s \in Seq(Found!Entry) /\ Found!OneEach(s) /\ t[n] \in Found!Entry
    OBVIOUS
  <2>2. <<s, n>> \in S \X (1..Len(t))
    OBVIOUS
  <2>3. QED
    BY <2>1, <2>2, MergedKeeps
<1>3. StepIn(step, Len(t), S)
  <2>1. ASSUME NEW p \in S \X (1..Len(t)) PROVE Found!Merged(p[1], t[p[2]]) \in S
    <3>1. p[1] \in S /\ p[2] \in 1..Len(t)
      OBVIOUS
    <3> HIDE DEF S
    <3>2. QED
      BY <3>1, <1>2
  <2>2. QED
    BY <2>1 DEF StepIn
<1>4. \E f : Eq(f)
  <2>1. Len(t) \in Nat /\ <<>> \in S
    BY DEF Found!OneEach
  <2> HIDE DEF S, step
  <2>2. PICK f : Stepped(f, <<>>, step, Len(t), S)
    BY <1>3, <2>1, Unfolds
  <2>3. ASSUME NEW i \in 0..Len(t)
        PROVE  f[i] = IF i = 0 THEN <<>> ELSE Found!Merged(f[i - 1], t[i])
    <3>1. i # 0 => f[i - 1] \in S /\ i \in 1..Len(t)
      BY <2>2 DEF Stepped
    <3>2. QED
      BY <2>2, <3>1, <1>2 DEF Stepped
  <2>4. Eq(f)
    BY <2>2, <2>3 DEF Stepped
  <2>5. QED
    BY <2>4
<1>5. Eq(merged)
  <2> HIDE DEF Eq
  <2>1. QED
    BY <1>4, Zenon
<1> HIDE DEF merged
<1>6. merged[0] = <<>> /\ \A n \in 1..Len(t) : merged[n] = Found!Merged(merged[n - 1], t[n])
  BY <1>5
<1> DEFINE Covers(s, n) == \A k \in 1..n : \E j \in 1..Len(s) : AsGood(s[j], t[k])
           Among(s, n) == \A j \in 1..Len(s) : \E k \in 1..n : s[j] = t[k]
           Keeps(n) == merged[n] \in S /\ Covers(merged[n], n) /\ Among(merged[n], n)
           Kept == {n \in Nat : n <= Len(t) => Keeps(n)}
<1>7. 0 \in Kept
  <2>1. <<>> \in S /\ Len(<<>>) = 0
    BY DEF Found!OneEach
  <2>2. Keeps(0)
    BY <1>6, <2>1
  <2>3. QED
    BY <2>2
<1>8. ASSUME NEW n \in Nat, n \in Kept PROVE n + 1 \in Kept
  <2> SUFFICES ASSUME n + 1 <= Len(t) PROVE Keeps(n + 1)
    OBVIOUS
  <2>1. n + 1 \in 1..Len(t) /\ Keeps(n)
    BY <1>8
  <2> DEFINE s == merged[n]
             e == t[n + 1]
             m == merged[n + 1]
  <2>2. s \in S /\ e \in Found!Entry
    BY <2>1
  <2>3. Covers(s, n) /\ Among(s, n)
    BY <2>1
  <2>4. m = Found!Merged(s, e)
    BY <1>6, <2>1
  <2> HIDE DEF s, m, e
  <2>5. /\ m \in S
        /\ \A k \in 1..Len(s) : \E j \in 1..Len(m) : AsGood(m[j], s[k])
        /\ \E j \in 1..Len(m) : AsGood(m[j], e)
        /\ \A j \in 1..Len(m) : m[j] = e \/ \E k \in 1..Len(s) : m[j] = s[k]
    BY <2>2, <2>4, MergedKeeps
  <2>6. ASSUME NEW k \in 1..n + 1 PROVE \E j \in 1..Len(m) : AsGood(m[j], t[k])
    <3>1. CASE k = n + 1
      BY <3>1, <2>5 DEF e
    <3>2. CASE k \in 1..n
      <4>1. PICK i \in 1..Len(s) : AsGood(s[i], t[k])
        BY <3>2, <2>3
      <4>2. PICK j \in 1..Len(m) : AsGood(m[j], s[i])
        BY <2>5
      <4>3. AsGood(m[j], t[k])
        BY <4>1, <4>2, AsGoodOrder
      <4>4. QED
        BY <4>3
    <3>3. QED
      BY <3>1, <3>2
  <2>7. ASSUME NEW j \in 1..Len(m) PROVE \E k \in 1..n + 1 : m[j] = t[k]
    <3>1. CASE m[j] = e
      BY <3>1 DEF e
    <3>2. CASE \E k \in 1..Len(s) : m[j] = s[k]
      <4>1. PICK i \in 1..Len(s) : m[j] = s[i]
        BY <3>2
      <4>2. PICK k \in 1..n : s[i] = t[k]
        BY <2>3
      <4>3. QED
        BY <4>1, <4>2
    <3>3. QED
      BY <3>1, <3>2, <2>5
  <2>8. QED
    BY <2>5, <2>6, <2>7 DEF m
<1>9. Len(t) \in Kept
  <2> HIDE DEF Kept
  <2>1. Len(t) \in Nat
    OBVIOUS
  <2>2. QED
    BY <2>1, <1>7, <1>8, SetInduction
<1>10. QED
  BY <1>1, <1>9 DEF KeptIn

LEMMA ListedIs ==
  ASSUME NEW s, NEW r
  PROVE  r \in Found!Listed(s) <=> \E k \in 1..Len(s) : s[k].radio = r
BY DEF Found!Listed

LEMMA MoreIsNoWorse ==
  ASSUME NEW s \in Seq(Found!Entry), NEW t \in Seq(Found!Entry),
         \A k \in 1..Len(s) : \E j \in 1..Len(t) : s[k] = t[j]
  PROVE  \A i \in 1..Len(Found!Dedup(s)) :
           \E j \in 1..Len(Found!Dedup(t)) : AsGood(Found!Dedup(t)[j], Found!Dedup(s)[i])
<1> DEFINE S == Found!Dedup(s)
           T == Found!Dedup(t)
<1>1. KeptIn(S, s) /\ KeptIn(T, t)
  BY DedupKeeps
<1> HIDE DEF S, T
<1>2. ASSUME NEW i \in 1..Len(S) PROVE \E j \in 1..Len(T) : AsGood(T[j], S[i])
  <2>1. PICK k \in 1..Len(s) : S[i] = s[k]
    BY <1>1 DEF KeptIn
  <2>2. PICK l \in 1..Len(t) : s[k] = t[l]
    OBVIOUS
  <2>3. PICK j \in 1..Len(T) : AsGood(T[j], t[l])
    BY <1>1 DEF KeptIn
  <2>4. QED
    BY <2>1, <2>2, <2>3
<1>3. QED
  BY <1>2 DEF S, T

\* "The pass is order-independent" (discovery_dedup.c:30): two tables with the same
\* entries, in whatever order and however often each, keep the same radios, and each of
\* them at the same rank.
THEOREM OrderIsImmaterial ==
  ASSUME NEW s \in Seq(Found!Entry), NEW t \in Seq(Found!Entry),
         \A k \in 1..Len(s) : \E j \in 1..Len(t) : s[k] = t[j],
         \A k \in 1..Len(t) : \E j \in 1..Len(s) : t[k] = s[j]
  PROVE  /\ Found!Listed(Found!Dedup(s)) = Found!Listed(Found!Dedup(t))
         /\ \A i \in 1..Len(Found!Dedup(s)), j \in 1..Len(Found!Dedup(t)) :
              Found!Dedup(s)[i].radio = Found!Dedup(t)[j].radio =>
                Found!Rank(Found!Dedup(s)[i].iface) = Found!Rank(Found!Dedup(t)[j].iface)
<1> DEFINE S == Found!Dedup(s)
           T == Found!Dedup(t)
<1>1. Found!OneEach(S) /\ Found!OneEach(T)
  BY DedupKeeps DEF KeptIn
<1>2. \A i \in 1..Len(S) : \E j \in 1..Len(T) : AsGood(T[j], S[i])
  BY MoreIsNoWorse
<1>3. \A j \in 1..Len(T) : \E i \in 1..Len(S) : AsGood(S[i], T[j])
  BY MoreIsNoWorse
<1> HIDE DEF S, T
<1>4. Found!Listed(S) = Found!Listed(T)
  <2>1. ASSUME NEW r PROVE r \in Found!Listed(S) => r \in Found!Listed(T)
    <3> SUFFICES ASSUME r \in Found!Listed(S) PROVE \E j \in 1..Len(T) : T[j].radio = r
      BY ListedIs
    <3>1. PICK i \in 1..Len(S) : S[i].radio = r
      BY ListedIs
    <3>2. PICK j \in 1..Len(T) : AsGood(T[j], S[i])
      BY <1>2
    <3>3. QED
      BY <3>1, <3>2 DEF AsGood
  <2>2. ASSUME NEW r PROVE r \in Found!Listed(T) => r \in Found!Listed(S)
    <3> SUFFICES ASSUME r \in Found!Listed(T) PROVE \E i \in 1..Len(S) : S[i].radio = r
      BY ListedIs
    <3>1. PICK j \in 1..Len(T) : T[j].radio = r
      BY ListedIs
    <3>2. PICK i \in 1..Len(S) : AsGood(S[i], T[j])
      BY <1>3
    <3>3. QED
      BY <3>1, <3>2 DEF AsGood
  <2>3. \A r : r \in Found!Listed(S) <=> r \in Found!Listed(T)
    BY <2>1, <2>2
  <2>4. QED
    BY <2>3, Zenon
<1>5. ASSUME NEW i \in 1..Len(S), NEW j \in 1..Len(T), S[i].radio = T[j].radio
      PROVE  Found!Rank(S[i].iface) = Found!Rank(T[j].iface)
  <2>1. PICK l \in 1..Len(T) : AsGood(T[l], S[i])
    BY <1>2
  <2>2. PICK k \in 1..Len(S) : AsGood(S[k], T[j])
    BY <1>3
  <2>3. l = j /\ k = i
    BY <1>1, <1>5, <2>1, <2>2 DEF AsGood, Found!OneEach
  <2>4. Found!Rank(S[i].iface) \in Int /\ Found!Rank(T[j].iface) \in Int
    BY RankRange
  <2>5. QED
    BY <2>1, <2>2, <2>3, <2>4 DEF AsGood
<1>6. QED
  BY <1>4, <1>5 DEF S, T

\* What FoundInv says of the table t and of what was heard.
Faithful(t, heard) ==
  /\ t \in Seq(Found!Entry)
  /\ heard \in [Found!AllRadios -> -1..3]
  /\ \A r \in Found!AllRadios : heard[r] = Found!Unheard <=> r \notin Found!Listed(t)
  /\ \A r \in P2Radios : r \in Found!Listed(t) =>
       /\ \A k \in 1..Len(t) : t[k].radio = r => Found!Rank(t[k].iface) <= heard[r]
       /\ \E k \in 1..Len(t) : t[k].radio = r /\ Found!Rank(t[k].iface) = heard[r]

\* The rest of it.
Rounded ==
  /\ x5 \in [radio : Found!AllRadios \cup {Found!NoRadio}, iface : -1..Interfaces]
  /\ x2 \subseteq Found!AllRadios
  /\ x3 \in Found!AllRadios \cup {Found!NoRadio} /\ x4.at \in -1..Interfaces
  /\ x4.of \in {"picker", "start"} => x4.at # -1
  /\ Found!Quiet => Found!OneEach(x1)
  /\ x4.of = "start" => x3 = x5.radio /\ x3 \in Found!AllRadios
  /\ x4.of = "done" /\ x5.radio \in P2Radios \cap Supported
       => x6[x5.radio] = IF x5.iface = -1 THEN Found!Unheard ELSE Found!Rank(x5.iface)

LEMMA FoundParts == Found!FoundInv <=> Faithful(x1, x6) /\ Rounded
BY DEF Found!FoundInv, Faithful, Rounded

LEMMA FaithfulEmpty == Faithful(<<>>, [r \in Found!AllRadios |-> Found!Unheard])
<1>1. <<>> \in Seq(Found!Entry) /\ Found!Listed(<<>>) = {}
  BY DEF Found!Listed
<1>2. [r \in Found!AllRadios |-> Found!Unheard] \in [Found!AllRadios -> -1..3]
  BY DEF Found!Unheard
<1>3. P2Radios \subseteq Found!AllRadios
  BY DEF Found!AllRadios
<1>4. QED
  BY <1>1, <1>2, <1>3 DEF Faithful

\* An answer is recorded.
LEMMA FaithfulRecorded ==
  ASSUME NEW t, NEW heard, Faithful(t, heard), NEW e \in Found!Entry,
         NEW better, better = IF Found!Rank(e.iface) > heard[e.radio] THEN Found!Rank(e.iface)
                                                                      ELSE heard[e.radio]
  PROVE  Faithful(Append(t, e), [heard EXCEPT ![e.radio] = better])
<1> DEFINE u == Append(t, e)
           now == [heard EXCEPT ![e.radio] = better]
<1>1. t \in Seq(Found!Entry) /\ heard \in [Found!AllRadios -> -1..3] /\ e.radio \in Found!AllRadios
  BY DEF Faithful, Found!Entry
<1>2. u \in Seq(Found!Entry) /\ Len(u) = Len(t) + 1 /\ u[Len(t) + 1] = e
      /\ \A k \in 1..Len(t) : u[k] = t[k]
  BY <1>1
<1>3. Found!Rank(e.iface) \in 0..3 /\ heard[e.radio] \in -1..3
  BY <1>1, RankRange
<1>4. better \in 0..3 /\ better >= heard[e.radio] /\ better >= Found!Rank(e.iface)
  BY <1>3
<1>5. now \in [Found!AllRadios -> -1..3] /\ now[e.radio] = better
      /\ \A r \in Found!AllRadios : r # e.radio => now[r] = heard[r]
  BY <1>1, <1>4
<1> HIDE DEF u, now
<1>6. Found!Listed(u) = Found!Listed(t) \cup {e.radio}
  <2>1. ASSUME NEW k \in 1..Len(u) PROVE u[k].radio \in Found!Listed(t) \cup {e.radio}
    BY <1>1, <1>2 DEF Found!Listed
  <2>2. ASSUME NEW k \in 1..Len(t) PROVE t[k].radio \in Found!Listed(u)
    BY <1>1, <1>2 DEF Found!Listed
  <2>3. e.radio \in Found!Listed(u)
    BY <1>1, <1>2 DEF Found!Listed
  <2>4. QED
    BY <2>1, <2>2, <2>3 DEF Found!Listed
<1>7. ASSUME NEW r \in Found!AllRadios PROVE now[r] = Found!Unheard <=> r \notin Found!Listed(u)
  <2>1. heard[r] = Found!Unheard <=> r \notin Found!Listed(t)
    BY DEF Faithful
  <2>2. QED
    BY <2>1, <1>4, <1>5, <1>6 DEF Found!Unheard
<1>8. ASSUME NEW r \in P2Radios, r \in Found!Listed(u)
      PROVE  /\ \A k \in 1..Len(u) : u[k].radio = r => Found!Rank(u[k].iface) <= now[r]
             /\ \E k \in 1..Len(u) : u[k].radio = r /\ Found!Rank(u[k].iface) = now[r]
  <2>1. r \in Found!AllRadios
    BY DEF Found!AllRadios
  <2>2. ASSUME NEW k \in 1..Len(t), t[k].radio = r PROVE Found!Rank(t[k].iface) <= heard[r]
    BY <2>2, <1>1 DEF Faithful, Found!Listed
  <2>3. r \in Found!Listed(t) =>
          \E k \in 1..Len(t) : t[k].radio = r /\ Found!Rank(t[k].iface) = heard[r]
    BY DEF Faithful
  <2>4. ASSUME NEW k \in 1..Len(u), u[k].radio = r PROVE Found!Rank(u[k].iface) <= now[r]
    <3>1. CASE k = Len(t) + 1
      BY <3>1, <2>4, <1>2, <1>4, <1>5
    <3>2. CASE k \in 1..Len(t)
      <4>1. Found!Rank(t[k].iface) <= heard[r] /\ u[k] = t[k] /\ Found!Rank(t[k].iface) \in Int
        BY <3>2, <2>2, <2>4, <1>2, RankRange
      <4>2. heard[r] <= now[r] /\ heard[r] \in Int /\ now[r] \in Int
        BY <2>1, <1>1, <1>4, <1>5
      <4>3. QED
        BY <4>1, <4>2
    <3>3. QED
      BY <3>1, <3>2, <1>1, <1>2
  <2>5. \E k \in 1..Len(u) : u[k].radio = r /\ Found!Rank(u[k].iface) = now[r]
    <3>1. CASE r = e.radio /\ better = Found!Rank(e.iface)
      BY <3>1, <1>1, <1>2, <1>5
    <3>2. CASE r = e.radio /\ better # Found!Rank(e.iface)
      <4>1. better = heard[r] /\ heard[r] # -1
        BY <3>2, <1>3, <1>4
      <4>2. r \in Found!Listed(t)
        BY <4>1, <2>1 DEF Faithful, Found!Unheard
      <4>3. QED
        BY <4>1, <4>2, <2>3, <1>1, <1>2, <1>5, <3>2
    <3>3. CASE r # e.radio
      <4>1. r \in Found!Listed(t) /\ now[r] = heard[r]
        BY <3>3, <1>8, <1>6, <2>1, <1>5
      <4>2. QED
        BY <4>1, <2>3, <1>1, <1>2
    <3>4. QED
      BY <3>1, <3>2, <3>3
  <2>6. QED
    BY <2>4, <2>5
<1>9. QED
  BY <1>2, <1>5, <1>7, <1>8 DEF Faithful, u, now

\* The merging leaves the table as faithful as it was.
LEMMA FaithfulMerged ==
  ASSUME NEW t, NEW heard, Faithful(t, heard)
  PROVE  /\ Faithful(Found!Dedup(t), heard) /\ Found!OneEach(Found!Dedup(t))
         /\ Found!Listed(Found!Dedup(t)) = Found!Listed(t)
<1> DEFINE s == Found!Dedup(t)
<1>1. t \in Seq(Found!Entry) /\ heard \in [Found!AllRadios -> -1..3]
  BY DEF Faithful
<1>2. KeptIn(s, t)
  BY <1>1, DedupKeeps
<1> HIDE DEF s
<1>3. /\ s \in Seq(Found!Entry) /\ Found!OneEach(s)
      /\ \A k \in 1..Len(t) : \E j \in 1..Len(s) : AsGood(s[j], t[k])
      /\ \A j \in 1..Len(s) : \E k \in 1..Len(t) : s[j] = t[k]
  BY <1>2 DEF KeptIn
<1>4. Found!Listed(s) = Found!Listed(t)
  <2>1. ASSUME NEW k \in 1..Len(t) PROVE t[k].radio \in Found!Listed(s)
    BY <1>3 DEF AsGood, Found!Listed
  <2>2. ASSUME NEW j \in 1..Len(s) PROVE s[j].radio \in Found!Listed(t)
    BY <1>3 DEF Found!Listed
  <2>3. QED
    BY <2>1, <2>2 DEF Found!Listed
<1>5. ASSUME NEW r \in P2Radios, r \in Found!Listed(s)
      PROVE  /\ \A j \in 1..Len(s) : s[j].radio = r => Found!Rank(s[j].iface) <= heard[r]
             /\ \E j \in 1..Len(s) : s[j].radio = r /\ Found!Rank(s[j].iface) = heard[r]
  <2>1. /\ \A k \in 1..Len(t) : t[k].radio = r => Found!Rank(t[k].iface) <= heard[r]
        /\ \E k \in 1..Len(t) : t[k].radio = r /\ Found!Rank(t[k].iface) = heard[r]
    BY <1>4, <1>5 DEF Faithful
  <2>2. \A j \in 1..Len(s) : s[j].radio = r => Found!Rank(s[j].iface) <= heard[r]
    BY <2>1, <1>3
  <2>3. PICK k \in 1..Len(t) : t[k].radio = r /\ Found!Rank(t[k].iface) = heard[r]
    BY <2>1
  <2>4. PICK j \in 1..Len(s) : AsGood(s[j], t[k])
    BY <1>3
  <2>5. s[j].radio = r /\ Found!Rank(s[j].iface) >= heard[r] /\ Found!Rank(s[j].iface) <= heard[r]
    BY <2>2, <2>3, <2>4 DEF AsGood
  <2>6. r \in Found!AllRadios
    BY DEF Found!AllRadios
  <2>7. Found!Rank(s[j].iface) \in Int /\ heard[r] \in Int
    BY <1>1, <2>6, RankRange
  <2>8. QED
    BY <2>2, <2>5, <2>7
<1>6. QED
  BY <1>1, <1>3, <1>4, <1>5 DEF Faithful, s

LEMMA FoundSteps ==
  ASSUME Found!FoundInv,
         \/ Found!Rescan
         \/ \E r \in Found!AllRadios : Found!Probe(r)
         \/ \E r \in Found!AllRadios : Found!Pick(r)
         \/ \E r \in P2Radios : Found!AnswerP2(r)
         \/ \E r \in P1Radios : Found!AnswerP1(r)
         \/ Found!NextInterface \/ Found!ThenP1 \/ Found!Show \/ Found!Select \/ Found!Again
  PROVE  Found!FoundInv'
<1> DEFINE Then(of, protocol, ip, t) == Found!From(of, protocol, ip, t)
<1>0. Faithful(x1, x6) /\ Rounded /\ Interfaces \in Nat /\ 1 <= Interfaces
  BY FoundParts, PartAssumptions DEF Found!DiscoveryAssumption
<1>1. SUFFICES Faithful(x1', x6') /\ Rounded'
  BY FoundParts DEF Found!FoundInv, Faithful, Rounded
<1>2. ASSUME NEW of, NEW protocol, NEW ip, NEW t
      PROVE  /\ Found!From(of, protocol, ip, t).of = of
             /\ Found!From(of, protocol, ip, t).at \in 0..Interfaces
  BY <1>0 DEF Found!From, Found!Anywhere
<1>3. CASE Found!Rescan
  <2>1. /\ x1' = <<>> /\ x6' = [r \in Found!AllRadios |-> Found!Unheard] /\ x3' = Found!NoRadio
        /\ x4' = Found!From("picker", 2, x3', x1') /\ x2' = x2 /\ x5' = x5
    BY <1>3 DEF Found!Rescan
  <2>2. Faithful(x1', x6')
    BY <2>1, FaithfulEmpty
  <2>3. x4'.of = "picker" /\ x4'.at \in 0..Interfaces
    BY <2>1, <1>2
  <2>4. QED
    BY <1>0, <2>1, <2>2, <2>3 DEF Rounded, Found!Quiet
<1>4. ASSUME NEW r \in Found!AllRadios, Found!Probe(r) PROVE Faithful(x1', x6') /\ Rounded'
  <2>1. /\ x1' = x1 /\ x6' = x6 /\ x3' = r /\ x2' = x2 /\ x5' = x5
        /\ x4' = Found!From("picker", 2, x3', x1')
    BY <1>4 DEF Found!Probe
  <2>2. x4'.of = "picker" /\ x4'.at \in 0..Interfaces
    BY <2>1, <1>2
  <2>3. QED
    BY <1>0, <2>1, <2>2 DEF Rounded, Found!Quiet
<1>5. ASSUME NEW r \in Found!AllRadios, Found!Pick(r) PROVE Faithful(x1', x6') /\ Rounded'
  <2>1. /\ x1' = x1 /\ x6' = x6 /\ x3' = r /\ x2' = x2 /\ x5' = [radio |-> r, iface |-> -1]
        /\ x4' = Found!From("start", 2, x3', x1')
    BY <1>5 DEF Found!Pick
  <2>2. x4'.of = "start" /\ x4'.at \in 0..Interfaces
    BY <2>1, <1>2
  <2>3. QED
    BY <1>0, <2>1, <2>2 DEF Rounded, Found!Quiet
<1>6. ASSUME NEW r \in Found!AllRadios, NEW radios, Found!Answers(r, radios)
      PROVE  Rounded'
  <2>1. /\ x4.of \in {"picker", "start"} /\ x2' = x2 /\ x3' = x3 /\ x5' = x5
        /\ x4' = [x4 EXCEPT !.answered = @ \cup {r}]
    BY <1>6 DEF Found!Answers
  <2>2. x4'.of = x4.of /\ x4'.at = x4.at
    BY <2>1
  <2>3. QED
    BY <1>0, <2>1, <2>2 DEF Rounded, Found!Quiet
<1>7. ASSUME NEW r \in Found!AllRadios, Found!Recorded(r), x4.of \in {"picker", "start"}
      PROVE  Faithful(x1', x6')
  <2>1. CASE Len(x1) = MaxDevices
    BY <1>0, <1>7, <2>1 DEF Found!Recorded
  <2>2. CASE Len(x1) # MaxDevices
    <3> DEFINE e == [radio |-> r, iface |-> x4.at]
               better == IF Found!Rank(x4.at) > x6[r] THEN Found!Rank(x4.at) ELSE x6[r]
    <3>1. x1' = Append(x1, e) /\ x6' = [x6 EXCEPT ![r] = better]
      BY <1>7, <2>2 DEF Found!Recorded
    <3>2. x4.at \in 0..Interfaces
      BY <1>0, <1>7 DEF Rounded
    <3>3. e \in Found!Entry /\ e.radio = r /\ e.iface = x4.at
      BY <3>2 DEF Found!Entry
    <3> HIDE DEF e
    <3>4. Faithful(Append(x1, e), [x6 EXCEPT ![e.radio] = better])
      BY <1>0, <3>3, FaithfulRecorded
    <3>5. QED
      BY <3>1, <3>3, <3>4
  <2>3. QED
    BY <2>1, <2>2
<1>8. ASSUME NEW r \in P2Radios, Found!AnswerP2(r) PROVE Faithful(x1', x6') /\ Rounded'
  <2>1. Found!Answers(r, P2Radios) /\ Found!Recorded(r)
    BY <1>8 DEF Found!AnswerP2
  <2>2. x4.of \in {"picker", "start"} /\ r \in Found!AllRadios
    BY <2>1 DEF Found!Answers, Found!AllRadios
  <2>3. QED
    BY <2>1, <2>2, <1>6, <1>7
<1>9. ASSUME NEW r \in P1Radios, Found!AnswerP1(r) PROVE Faithful(x1', x6') /\ Rounded'
  <2>1. Found!Answers(r, P1Radios) /\ ((x1' = x1 /\ x6' = x6) \/ Found!Recorded(r))
    BY <1>9 DEF Found!AnswerP1
  <2>2. x4.of \in {"picker", "start"} /\ r \in Found!AllRadios
    BY <2>1 DEF Found!Answers, Found!AllRadios
  <2>3. Rounded'
    BY <2>1, <2>2, <1>6
  <2>4. Faithful(x1', x6')
    BY <1>0, <2>1, <2>2, <1>7
  <2>5. QED
    BY <2>3, <2>4
<1>10. CASE Found!NextInterface
  <2>1. /\ x1' = x1 /\ x6' = x6 /\ x2' = x2 /\ x3' = x3 /\ x5' = x5
        /\ x4.of \in {"picker", "start"} /\ x4.at < Interfaces
        /\ x4' = [x4 EXCEPT !.at = @ + 1, !.answered = {}]
    BY <1>10 DEF Found!NextInterface
  <2>2. x4.at \in 0..Interfaces
    BY <1>0, <2>1 DEF Rounded
  <2>3. "at" \in DOMAIN x4 => x4'.at = x4.at + 1
    BY <2>1
  <2>4. x4'.of = x4.of
    BY <2>1
  <2>5. x4'.at \in 0..Interfaces
    BY <2>1, <2>2, <1>0
  <2>6. QED
    BY <1>0, <2>1, <2>4, <2>5 DEF Rounded, Found!Quiet
<1>11. ASSUME Found!RoundEnds, x6' = x6
       PROVE  /\ Faithful(x1', x6') /\ Found!OneEach(x1')
              /\ Found!Listed(x1') = Found!Listed(x1)
  BY <1>0, <1>11, FaithfulMerged DEF Found!RoundEnds
<1>12. CASE Found!ThenP1
  <2>1. /\ Found!RoundEnds /\ x6' = x6 /\ x2' = x2 /\ x3' = x3 /\ x5' = x5
        /\ x4.of \in {"picker", "start"}
        /\ x4' = Found!From(x4.of, 1, x3', x1')
    BY <1>12 DEF Found!ThenP1, Found!RoundEnds
  <2>2. x4'.of = x4.of /\ x4'.at \in 0..Interfaces
    BY <2>1, <1>2
  <2>3. QED
    BY <1>0, <2>1, <2>2, <1>11 DEF Rounded, Found!Quiet
<1>13. CASE Found!Show
  <2>1. /\ Found!RoundEnds /\ x6' = x6 /\ x3' = x3 /\ x5' = x5
        /\ x2' = Found!Listed(x1') /\ x4' = Found!Idle
    BY <1>13 DEF Found!Show
  <2>2. x4'.of = "nobody" /\ x4'.at = -1
    BY <2>1 DEF Found!Idle
  <2>3. x2' \subseteq Found!AllRadios
    <3>1. x1' \in Seq(Found!Entry)
      BY <2>1, <1>11 DEF Faithful
    <3>2. \A k \in 1..Len(x1') : x1'[k] \in Found!Entry
      BY <3>1
    <3>3. QED
      BY <2>1, <3>2 DEF Found!Listed, Found!Entry
  <2>4. QED
    BY <1>0, <2>1, <2>2, <2>3, <1>11 DEF Rounded
<1>14. CASE Found!Select
  <2> DEFINE first(k) == x1'[k].radio = x3 /\ \A j \in 1..k - 1 : x1'[j].radio # x3
             c == CHOOSE k \in 1..Len(x1') : first(k)
  <2>1. /\ Found!RoundEnds /\ x6' = x6 /\ x2' = x2 /\ x3' = x3 /\ x4.of = "start"
        /\ x4' = [Found!Idle EXCEPT !.of = "done"]
        /\ x5' = [x5 EXCEPT !.iface = IF x3 \notin Found!Listed(x1') \cap Supported THEN -1
                                      ELSE x1'[c].iface]
    BY <1>14 DEF Found!Select
  <2>2. x4'.of = "done" /\ x4'.at = -1
    BY <2>1 DEF Found!Idle
  <2>3. Faithful(x1', x6') /\ Found!OneEach(x1')
    BY <2>1, <1>11
  <2>4. x3 = x5.radio /\ x5'.radio = x5.radio
    BY <1>0, <2>1 DEF Rounded
  <2>5. ASSUME x3 \in P2Radios \cap Supported
        PROVE  x6'[x3] = IF x5'.iface = -1 THEN Found!Unheard ELSE Found!Rank(x5'.iface)
    <3>1. x3 \in Found!AllRadios /\ x1' \in Seq(Found!Entry)
      BY <2>3, <2>5 DEF Found!AllRadios, Faithful
    <3>2. CASE x3 \notin Found!Listed(x1')
      <4>1. x6'[x3] = Found!Unheard
        BY <2>3, <3>1, <3>2 DEF Faithful
      <4>2. x5'.iface = -1
        BY <2>1, <3>2, <1>0 DEF Rounded
      <4>3. QED
        BY <4>1, <4>2
    <3>3. CASE x3 \in Found!Listed(x1')
      <4>1. PICK k \in 1..Len(x1') : x1'[k].radio = x3 /\ Found!Rank(x1'[k].iface) = x6'[x3]
        BY <2>3, <2>5, <3>3 DEF Faithful
      <4>2. first(k)
        BY <4>1, <2>3, <3>1 DEF Found!OneEach
      <4>3. c \in 1..Len(x1') /\ first(c)
        BY <4>2
      <4> HIDE DEF c
      <4>4. c = k
        BY <4>1, <4>3, <2>3 DEF Found!OneEach
      <4>5. x1'[k].iface \in 0..Interfaces
        <5>1. x1'[k] \in Found!Entry
          BY <3>1, <4>1
        <5>2. QED
          BY <5>1 DEF Found!Entry
      <4>6. x5'.iface = x1'[k].iface
        BY <2>1, <2>5, <3>3, <4>4, <1>0 DEF Rounded
      <4>7. QED
        BY <4>1, <4>5, <4>6
    <3>4. QED
      BY <3>2, <3>3
  <2>6. x1'[c].iface \in 0..Interfaces \/ x3 \notin Found!Listed(x1')
    <3>1. CASE x3 \in Found!Listed(x1')
      <4>1. x1' \in Seq(Found!Entry)
        BY <2>3 DEF Faithful
      <4>2. PICK k \in 1..Len(x1') : x1'[k].radio = x3
        BY <3>1 DEF Found!Listed
      <4>3. first(k)
        BY <4>1, <4>2, <2>3 DEF Found!OneEach
      <4>4. c \in 1..Len(x1')
        BY <4>3
      <4>5. x1'[c] \in Found!Entry
        BY <4>1, <4>4
      <4>6. QED
        BY <4>5 DEF Found!Entry
    <3>2. QED
      BY <3>1
  <2> HIDE DEF c
  <2>7. x5' \in [radio : Found!AllRadios \cup {Found!NoRadio}, iface : -1..Interfaces]
    BY <1>0, <2>1, <2>6 DEF Rounded
  <2>8. QED
    BY <1>0, <2>1, <2>2, <2>3, <2>4, <2>5, <2>7 DEF Rounded
<1>15. CASE Found!Again
  <2>1. /\ x1' = <<>> /\ x6' = [r \in Found!AllRadios |-> Found!Unheard] /\ x2' = {}
        /\ x3' \in Found!AllRadios \cup {Found!NoRadio}
        /\ x4' = Found!From(IF x3' = Found!NoRadio THEN "picker" ELSE "start", 2, x3', x1')
        /\ x5' = [radio |-> x3', iface |-> -1]
    BY <1>15 DEF Found!Again
  <2>2. Faithful(x1', x6')
    BY <2>1, FaithfulEmpty
  <2>3. x4'.of = (IF x3' = Found!NoRadio THEN "picker" ELSE "start") /\ x4'.at \in 0..Interfaces
    BY <2>1, <1>2
  <2>4. QED
    BY <1>0, <2>1, <2>2, <2>3 DEF Rounded, Found!Quiet
<1>16. QED
  BY <1>3, <1>4, <1>5, <1>8, <1>9, <1>10, <1>12, <1>13, <1>14, <1>15

\* Discovery counts with the operator of its own FiniteSets.
LEMMA FoundCounts == ASSUME NEW S PROVE Found!Cardinality(S) = Cardinality(S)
BY DEF Cardinality, Found!Cardinality

LEMMA FoundShows == ASSUME Found!FoundInv PROVE Found!BestOfEach
<1> SUFFICES ASSUME Found!Quiet PROVE Found!BestOfEach
  BY DEF Found!BestOfEach
<1>1. Faithful(x1, x6) /\ Rounded /\ Found!OneEach(x1)
  BY FoundParts DEF Rounded
<1>2. ASSUME NEW r \in Found!AllRadios
      PROVE  Found!Cardinality({k \in 1..Len(x1) : x1[k].radio = r})
               = (IF x6[r] = Found!Unheard THEN 0 ELSE 1)
  <2> DEFINE mine == {k \in 1..Len(x1) : x1[k].radio = r}
  <2>1. x6[r] = Found!Unheard <=> mine = {}
    BY <1>1 DEF Faithful, Found!Listed
  <2>2. CASE mine = {}
    BY <2>1, <2>2, FS_EmptySet, FoundCounts
  <2>3. CASE mine # {}
    <3>1. PICK k \in mine : TRUE
      BY <2>3
    <3>2. mine = {k}
      BY <3>1, <1>1 DEF Found!OneEach
    <3>3. Found!Cardinality(mine) = 1
      BY <3>2, FS_Singleton, FoundCounts
    <3>4. QED
      BY <3>3, <2>1, <2>3
  <2>4. QED
    BY <2>2, <2>3
<1>3. ASSUME NEW k \in 1..Len(x1), x1[k].radio \in P2Radios
      PROVE  Found!Rank(x1[k].iface) = x6[x1[k].radio]
  <2>1. x1[k].radio \in Found!Listed(x1)
    BY DEF Found!Listed
  <2>2. PICK j \in 1..Len(x1) : x1[j].radio = x1[k].radio
                                /\ Found!Rank(x1[j].iface) = x6[x1[k].radio]
    BY <1>1, <1>3, <2>1 DEF Faithful
  <2>3. j = k
    BY <1>1, <2>2 DEF Found!OneEach
  <2>4. QED
    BY <2>2, <2>3
<1>4. x4.of = "done" /\ x5.radio \in P2Radios \cap Supported
        => x6[x5.radio] = IF x5.iface = -1 THEN Found!Unheard ELSE Found!Rank(x5.iface)
  BY <1>1 DEF Rounded
<1>5. QED
  BY <1>2, <1>3, <1>4, Zenon DEF Found!BestOfEach

\* Whatever rounds were made, in whatever order the answers came and from whatever
\* interfaces: discovery leaves every radio that found room in the table once, a
\* Protocol 2 radio with the best interface it was heard over, and the radio that was
\* picked starts over that one (discovery_dedup, start_radio).
THEOREM TheBestIsKept == Spec => []BestOfEach
<1> DEFINE Inv == part = "discovery" => Found!FoundInv
<1>1. Init => Inv
  <2> SUFFICES ASSUME Init, part = "discovery" PROVE Found!FoundInv
    OBVIOUS
  <2>1. Found!Init
    BY DEF Init
  <2>2. Faithful(x1, x6)
    BY <2>1, FaithfulEmpty DEF Found!Init
  <2>3. Interfaces \in Nat /\ 1 <= Interfaces
    BY PartAssumptions DEF Found!DiscoveryAssumption
  <2>4. x4.of = (IF x3 = Found!NoRadio THEN "picker" ELSE "start") /\ x4.at \in 0..Interfaces
    BY <2>1, <2>3 DEF Found!Init, Found!From, Found!Anywhere
  <2>5. x2 = {} /\ x3 \in Found!AllRadios \cup {Found!NoRadio}
        /\ x5 = [radio |-> x3, iface |-> -1]
    BY <2>1 DEF Found!Init
  <2>6. Rounded
    <3>1. x5 \in [radio : Found!AllRadios \cup {Found!NoRadio}, iface : -1..Interfaces]
      BY <2>3, <2>5
    <3>2. x5.radio = x3
      BY <2>5
    <3>3. x2 \subseteq Found!AllRadios
      BY <2>5
    <3>4. QED
      BY <2>4, <2>5, <3>1, <3>2, <3>3 DEF Rounded, Found!Quiet
  <2>7. QED
    BY <2>2, <2>6, FoundParts
<1>2. Inv /\ [Next]_vars => Inv'
  <2> SUFFICES ASSUME Inv, [Next]_vars, part' = "discovery" PROVE Found!FoundInv'
    OBVIOUS
  <2>1. part = "discovery" /\ Found!FoundInv
    BY PartStays
  <2>2. CASE Next
    BY <2>1, <2>2, FoundSteps DEF Next
  <2>3. CASE UNCHANGED vars
    <3>1. x1' = x1 /\ x2' = x2 /\ x3' = x3 /\ x4' = x4 /\ x5' = x5 /\ x6' = x6
      BY <2>3 DEF vars
    <3>2. QED
      BY <2>1, <3>1 DEF Found!FoundInv, Found!Quiet
  <2>4. QED
    BY <2>2, <2>3
<1>3. Inv => BestOfEach
  BY FoundShows DEF BestOfEach
<1>4. QED
  BY <1>1, <1>2, <1>3, PTL DEF Spec
=============================================================================
