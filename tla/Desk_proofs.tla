------------------------------- MODULE Desk_proofs -------------------------------
(***************************************************************************)
(* Proofs about the components of MCRound the operator sits in front of:   *)
(* the dial, the settings that are remembered, what the TCI clients know,  *)
(* the audio of an over, the remote client and the receiver, for every     *)
(* value of the constants.  A section names the variables of its           *)
(* component; the inductive invariants are stated with the components,     *)
(* under "What makes it so".                                               *)
(***************************************************************************)
EXTENDS MCRound, TLAPS

\* A behaviour is one of one component.
LEMMA PartStays == ASSUME [Next]_vars PROVE part' = part
BY DEF Next, vars

-----------------------------------------------------------------------------
(* Tuning.  x1 is app, x2 engine, x3 onAir, x4 inputs.                     *)

LEMMA VfoSteps ==
  ASSUME part = "vfo", Next
  PROVE  \/ \E f \in Dial : Dialling!Tune(f) \/ Dialling!OtherSet(f) \/ Dialling!SetCentre(f)
         \/ \E b \in DOMAIN Bands : Dialling!BandButton(b)
         \/ \E on \in BOOLEAN : Dialling!Ctun(on)
         \/ \E m \in Modes : Dialling!ModeButton(m)
         \/ \E w \in Wide : Dialling!Filter(w)
         \/ \E d \in Watts : Dialling!Drive(d)
         \/ Dialling!Swap \/ Dialling!Copy \/ Dialling!FrameTick \/ Dialling!Air \/ Dialling!Relink
BY DEF Next

LEMMA VfoConstants ==
  /\ Half \in Nat /\ Margin \in Nat /\ Wide \subseteq Nat /\ Dial \subseteq Nat
  /\ \A b \in DOMAIN Bands : b # Dialling!OutOfBand /\ Bands[b] \subseteq Nat /\ Bands[b] # {}
BY PartAssumptions DEF Dialling!VfoAssumption, Dialling!OutOfBand

LEMMA BandOfType == ASSUME NEW f PROVE Dialling!BandOf(f) \in DOMAIN Bands \cup {Dialling!OutOfBand}
BY DEF Dialling!BandOf

\* The centre moves, and nothing else.
LEMMA RetunedType ==
  ASSUME NEW a \in Dialling!AppType
  PROVE  /\ Dialling!Retuned(a) \in Dialling!AppType
         /\ \E c \in Int : /\ Dialling!Retuned(a) = [a EXCEPT !.centre = c]
                           /\ ~a.ctun => c = a.freq
<1> DEFINE low  == a.centre - Half + Margin + a.width
           high == a.centre + Half - Margin - a.width
           c == IF ~a.ctun \/ Dialling!Abs(a.freq - a.centre) > Half THEN a.freq
                ELSE IF a.freq < low  THEN a.centre - (low - a.freq)
                ELSE IF a.freq > high THEN a.centre + (a.freq - high)
                ELSE a.centre
<1>1. Dialling!Retuned(a) = [a EXCEPT !.centre = c]
  BY DEF Dialling!Retuned
<1>2. a.centre \in Int /\ a.freq \in Nat /\ a.width \in Nat
  BY VfoConstants DEF Dialling!AppType
<1>3. low \in Int /\ high \in Int
  BY <1>2, VfoConstants
<1> HIDE DEF low, high
<1>4. /\ c \in {a.freq, a.centre - (low - a.freq), a.centre + (a.freq - high), a.centre}
      /\ ~a.ctun => c = a.freq
  OBVIOUS
<1> HIDE DEF c
<1>5. c \in Int
  BY <1>2, <1>3, <1>4
<1>6. [a EXCEPT !.centre = c] \in Dialling!AppType
  BY <1>5 DEF Dialling!AppType
<1>7. QED
  BY <1>1, <1>4, <1>5, <1>6

LEMMA ModeSetType ==
  ASSUME NEW a \in Dialling!AppType, NEW m \in Modes
  PROVE  LET b == Dialling!ModeSet(a, m)
         IN  /\ b \in Dialling!AppType /\ b.mode = m
             /\ b.freq = a.freq /\ b.ofreq = a.ofreq /\ b.omode = a.omode
             /\ b.ctun = a.ctun /\ b.centre = a.centre
<1>1. a.filter[m] \in Wide
  BY DEF Dialling!AppType
<1> DEFINE modes == [b \in DOMAIN Bands |-> IF b = a.band THEN m ELSE a.bandMode[b]]
<1>2. modes \in [DOMAIN Bands -> Modes] /\ DOMAIN a.bandMode = DOMAIN Bands
  BY DEF Dialling!AppType
<1>3. Dialling!ModeSet(a, m) = [a EXCEPT !.mode = m, !.width = a.filter[m], !.bandMode = modes]
  BY DEF Dialling!ModeSet, Dialling!AppType
<1> HIDE DEF modes
<1>4. QED
  BY <1>1, <1>2, <1>3 DEF Dialling!AppType

\* The band changes, and with it drive and mode.
LEMMA BandAppliedType ==
  ASSUME NEW a \in Dialling!AppType
  PROVE  LET b == Dialling!BandApplied(a)
         IN  /\ b \in Dialling!AppType
             /\ b.freq = a.freq /\ b.ofreq = a.ofreq /\ b.omode = a.omode
             /\ b.ctun = a.ctun /\ b.centre = a.centre
<1> DEFINE b == Dialling!BandOf(a.freq)
           in == [a EXCEPT !.band = b, !.drive = a.bandDrive[b]]
<1>1. b \in DOMAIN Bands \cup {Dialling!OutOfBand}
  BY BandOfType
<1>2. Dialling!BandApplied(a) =
        IF b = a.band THEN a
        ELSE IF b = Dialling!OutOfBand THEN [a EXCEPT !.band = b]
        ELSE IF in.bandMode[b] # a.mode THEN Dialling!ModeSet(in, in.bandMode[b]) ELSE in
  BY DEF Dialling!BandApplied
<1> HIDE DEF b
<1>3. CASE b = a.band
  BY <1>2, <1>3
<1>4. CASE b # a.band /\ b = Dialling!OutOfBand
  <2>1. Dialling!BandApplied(a) = [a EXCEPT !.band = b]
    BY <1>2, <1>4
  <2>2. QED
    BY <1>1, <2>1 DEF Dialling!AppType
<1>5. CASE b # a.band /\ b # Dialling!OutOfBand
  <2>1. b \in DOMAIN Bands
    BY <1>1, <1>5
  <2>2. a.bandDrive[b] \in Watts
    BY <2>1 DEF Dialling!AppType
  <2>3. /\ in \in Dialling!AppType
        /\ in.freq = a.freq /\ in.ofreq = a.ofreq /\ in.omode = a.omode
        /\ in.ctun = a.ctun /\ in.centre = a.centre
    BY <2>1, <2>2 DEF Dialling!AppType
  <2> HIDE DEF in
  <2>4. in.bandMode[b] \in Modes
    BY <2>1, <2>3 DEF Dialling!AppType
  <2>5. Dialling!BandApplied(a) \in {in, Dialling!ModeSet(in, in.bandMode[b])}
    BY <1>2, <1>5
  <2>6. QED
    BY <2>3, <2>4, <2>5, ModeSetType
<1>6. QED
  BY <1>3, <1>4, <1>5

\* A/B exchanges the VFOs, whatever band the dial leaves and enters, and leaves
\* the DDC on the dial without CTUN.
LEMMA SwapExchanges ==
  ASSUME NEW a \in Dialling!AppType
  PROVE  LET b == Dialling!Swapped(a)
         IN  /\ b \in Dialling!AppType
             /\ b.freq = a.ofreq /\ b.ofreq = a.freq /\ b.mode = a.omode /\ b.omode = a.mode
             /\ b.ctun = a.ctun /\ (~a.ctun => b.centre = b.freq)
<1> DEFINE a0 == [a EXCEPT !.freq = a.ofreq, !.ofreq = a.freq, !.omode = a.mode]
           a1 == Dialling!Retuned(a0)
           a2 == Dialling!BandApplied(a1)
<1>1. Dialling!Swapped(a) = IF a.omode # a2.mode THEN Dialling!ModeSet(a2, a.omode) ELSE a2
  BY DEF Dialling!Swapped, Dialling!SwappedIn
<1>2. /\ a0 \in Dialling!AppType
      /\ a0.freq = a.ofreq /\ a0.ofreq = a.freq /\ a0.omode = a.mode /\ a0.ctun = a.ctun
  BY DEF Dialling!AppType
<1> HIDE DEF a0
<1>3. /\ a1 \in Dialling!AppType
      /\ \E c \in Int : a1 = [a0 EXCEPT !.centre = c] /\ (~a0.ctun => c = a0.freq)
  BY <1>2, RetunedType
<1>4. /\ a1.freq = a.ofreq /\ a1.ofreq = a.freq /\ a1.omode = a.mode /\ a1.ctun = a.ctun
      /\ ~a.ctun => a1.centre = a1.freq
  BY <1>2, <1>3 DEF Dialling!AppType
<1> HIDE DEF a1
<1>5. /\ a2 \in Dialling!AppType
      /\ a2.freq = a.ofreq /\ a2.ofreq = a.freq /\ a2.omode = a.mode /\ a2.ctun = a.ctun
      /\ ~a.ctun => a2.centre = a2.freq
  BY <1>3, <1>4, BandAppliedType
<1> HIDE DEF a2
<1>6. a.omode \in Modes
  BY DEF Dialling!AppType
<1>7. CASE a.omode # a2.mode
  BY <1>1, <1>5, <1>6, <1>7, ModeSetType
<1>8. CASE a.omode = a2.mode
  BY <1>1, <1>5, <1>8
<1>9. QED
  BY <1>7, <1>8

LEMMA PushedType ==
  ASSUME NEW a \in Dialling!AppType, x2 \in [ddc : Int, offset : Int, width : Wide, tx : Nat]
  PROVE  LET e == Dialling!Pushed(a)
         IN  /\ e \in [ddc : Int, offset : Int, width : Wide, tx : Nat]
             /\ e.ddc = a.centre /\ (~a.ctun => e.offset = 0)
<1>1. a.centre \in Int /\ a.freq \in Int /\ a.width \in Wide
  BY DEF Dialling!AppType
<1>2. a.freq - a.centre \in Int /\ 0 \in Int
  BY <1>1
<1>3. Dialling!Pushed(a) = [x2 EXCEPT !.ddc = a.centre, !.offset = IF a.ctun THEN a.freq - a.centre ELSE 0,
                                      !.width = a.width]
  BY DEF Dialling!Pushed
<1>4. QED
  BY <1>1, <1>2, <1>3

LEMMA DialStart == ASSUME part = "vfo", Init PROVE Dialling!DialInv
<1>1. Dialling!Init
  BY DEF Init
<1>2. PICK f \in Dial, w \in Wide, m \in Modes, d \in Watts :
        /\ Dialling!BandOf(f) # Dialling!OutOfBand
        /\ x1 = [freq |-> f, ofreq |-> f, centre |-> f, ctun |-> FALSE,
                 mode |-> m, omode |-> m, width |-> w, filter |-> [n \in Modes |-> w],
                 band |-> Dialling!BandOf(f), drive |-> d,
                 bandFreq |-> [b \in DOMAIN Bands |-> CHOOSE g \in Bands[b] : TRUE],
                 bandMode |-> [b \in DOMAIN Bands |-> m], bandDrive |-> [b \in DOMAIN Bands |-> d]]
        /\ x2 = [ddc |-> f, offset |-> 0, width |-> w, tx |-> f]
  BY <1>1 DEF Dialling!Init
<1>3. Dialling!BandOf(f) \in DOMAIN Bands \cup {Dialling!OutOfBand}
  BY BandOfType
<1>4. \A b \in DOMAIN Bands : (CHOOSE g \in Bands[b] : TRUE) \in Nat
  BY VfoConstants
<1>5. f \in Nat /\ f \in Int
  BY VfoConstants
<1>6. x1 \in Dialling!AppType
  BY <1>2, <1>3, <1>4, <1>5 DEF Dialling!AppType
<1>7. x2 \in [ddc : Int, offset : Int, width : Wide, tx : Nat]
  BY <1>2, <1>5
<1>8. QED
  BY <1>2, <1>6, <1>7 DEF Dialling!DialInv

\* What a handler that retunes and pushes leaves.
LEMMA TuneKeeps ==
  ASSUME Dialling!DialInv, NEW a \in Dialling!AppType,
         x1' = Dialling!Retuned(a), x2' = Dialling!Pushed(x1')
  PROVE  Dialling!DialInv'
<1>1. /\ x1' \in Dialling!AppType
      /\ \E c \in Int : x1' = [a EXCEPT !.centre = c] /\ (~a.ctun => c = a.freq)
  BY RetunedType
<1>2. ~x1'.ctun => x1'.centre = x1'.freq
  BY <1>1 DEF Dialling!AppType
<1>3. /\ x2' \in [ddc : Int, offset : Int, width : Wide, tx : Nat]
      /\ x2'.ddc = x1'.centre /\ (~x1'.ctun => x2'.offset = 0)
  BY <1>1, PushedType DEF Dialling!DialInv
<1>4. QED
  BY <1>1, <1>2, <1>3 DEF Dialling!DialInv, Dialling!AppType

LEMMA DialStep == ASSUME Dialling!DialInv, part = "vfo", [Next]_vars PROVE Dialling!DialInv'
<1>0. /\ x1 \in Dialling!AppType /\ x2 \in [ddc : Int, offset : Int, width : Wide, tx : Nat]
      /\ ~x1.ctun => x1.centre = x1.freq /\ x2.ddc = x1.freq /\ x2.offset = 0
  BY DEF Dialling!DialInv
<1>1. ASSUME NEW f \in Nat, Dialling!Tune(f) PROVE Dialling!DialInv'
  <2>1. x1' = Dialling!Retuned([x1 EXCEPT !.freq = f]) /\ x2' = Dialling!Pushed(x1')
    BY <1>1 DEF Dialling!Tune
  <2>2. [x1 EXCEPT !.freq = f] \in Dialling!AppType
    BY <1>0 DEF Dialling!AppType
  <2>3. QED
    BY <2>1, <2>2, TuneKeeps
<1>2. ASSUME NEW b \in DOMAIN Bands, Dialling!BandButton(b) PROVE Dialling!DialInv'
  <2>1. x1.bandFreq[b] \in Nat
    BY <1>0 DEF Dialling!AppType
  <2>2. QED
    BY <1>1, <1>2, <2>1 DEF Dialling!BandButton
<1>3. ASSUME NEW f \in Dial, Dialling!OtherSet(f) PROVE Dialling!DialInv'
  <2>1. x1' = [x1 EXCEPT !.ofreq = f] /\ x2' = x2 /\ f \in Nat
    BY <1>3, VfoConstants DEF Dialling!OtherSet
  <2>2. /\ x1' \in Dialling!AppType
        /\ x1'.ctun = x1.ctun /\ x1'.freq = x1.freq /\ x1'.centre = x1.centre
    BY <1>0, <2>1 DEF Dialling!AppType
  <2>3. QED
    BY <1>0, <2>1, <2>2 DEF Dialling!DialInv, Dialling!AppType
<1>4. ASSUME NEW f \in Dial, Dialling!SetCentre(f) PROVE Dialling!DialInv'
  <2>1. /\ x1.ctun /\ x2' = Dialling!Pushed(x1')
    BY <1>4 DEF Dialling!SetCentre
  <2>2. x1.freq \in Nat /\ x1.width \in Nat /\ f \in Nat
    BY <1>0, VfoConstants DEF Dialling!AppType
  <2> DEFINE low  == x1.freq + x1.width + Margin - Half
             high == x1.freq - x1.width - Margin + Half
             at   == IF f < low THEN low ELSE IF f > high THEN high ELSE f
             c    == IF at < 1 THEN 1 ELSE at
  <2>3. x1' = [x1 EXCEPT !.centre = c]
    BY <1>4 DEF Dialling!SetCentre
  <2>4. low \in Int /\ high \in Int
    BY <2>2, VfoConstants
  <2> HIDE DEF low, high
  <2>5. c \in Int
    BY <2>2, <2>4
  <2> HIDE DEF c
  <2>6. x1' \in Dialling!AppType /\ x1'.ctun = x1.ctun
    BY <1>0, <2>3, <2>5 DEF Dialling!AppType
  <2>7. x2' \in [ddc : Int, offset : Int, width : Wide, tx : Nat]
    BY <1>0, <2>1, <2>6, PushedType
  <2>8. QED
    BY <2>1, <2>6, <2>7 DEF Dialling!DialInv, Dialling!AppType
<1>5. ASSUME NEW on \in BOOLEAN, Dialling!Ctun(on) PROVE Dialling!DialInv'
  <2>1. /\ x1' = [x1 EXCEPT !.ctun = on, !.centre = IF on THEN x1.centre ELSE x1.freq]
        /\ x2' = Dialling!Pushed(x1')
    BY <1>5 DEF Dialling!Ctun, Dialling!CtunSet
  <2>2. /\ x1' \in Dialling!AppType /\ x1'.ctun = on /\ x1'.freq = x1.freq
        /\ ~on => x1'.centre = x1.freq
    <3> DEFINE c == IF on THEN x1.centre ELSE x1.freq
    <3>1. c \in Int /\ (~on => c = x1.freq)
      BY <1>0 DEF Dialling!AppType
    <3>2. x1' = [x1 EXCEPT !.ctun = on, !.centre = c]
      BY <2>1
    <3> HIDE DEF c
    <3>3. QED
      BY <1>0, <3>1, <3>2 DEF Dialling!AppType
  <2>3. /\ x2' \in [ddc : Int, offset : Int, width : Wide, tx : Nat]
        /\ x2'.ddc = x1'.centre /\ (~x1'.ctun => x2'.offset = 0)
    BY <1>0, <2>1, <2>2, PushedType
  <2>4. QED
    BY <2>2, <2>3 DEF Dialling!DialInv, Dialling!AppType
<1>6. ASSUME NEW m \in Modes, Dialling!ModeButton(m) PROVE Dialling!DialInv'
  <2>1. x1' = Dialling!ModeSet(x1, m) /\ x2' = [x2 EXCEPT !.width = x1'.width]
    BY <1>6 DEF Dialling!ModeButton
  <2>2. /\ x1' \in Dialling!AppType
        /\ x1'.ctun = x1.ctun /\ x1'.freq = x1.freq /\ x1'.centre = x1.centre
    BY <1>0, <2>1, ModeSetType
  <2>3. x1'.width \in Wide
    BY <2>2 DEF Dialling!AppType
  <2>4. /\ x2' \in [ddc : Int, offset : Int, width : Wide, tx : Nat]
        /\ x2'.ddc = x2.ddc /\ x2'.offset = x2.offset
    BY <1>0, <2>1, <2>3
  <2>5. QED
    BY <1>0, <2>2, <2>4 DEF Dialling!DialInv, Dialling!AppType
<1>7. ASSUME NEW w \in Wide, Dialling!Filter(w) PROVE Dialling!DialInv'
  <2>1. x1' = [x1 EXCEPT !.width = w, !.filter[x1.mode] = w] /\ x2' = [x2 EXCEPT !.width = w]
    BY <1>7 DEF Dialling!Filter
  <2>2. /\ x1' \in Dialling!AppType
        /\ x1'.ctun = x1.ctun /\ x1'.freq = x1.freq /\ x1'.centre = x1.centre
    BY <1>0, <2>1 DEF Dialling!AppType
  <2>3. /\ x2' \in [ddc : Int, offset : Int, width : Wide, tx : Nat]
        /\ x2'.ddc = x2.ddc /\ x2'.offset = x2.offset
    BY <1>0, <2>1
  <2>4. QED
    BY <1>0, <2>2, <2>3 DEF Dialling!DialInv, Dialling!AppType
<1>8. ASSUME NEW d \in Watts, Dialling!Drive(d) PROVE Dialling!DialInv'
  <2> DEFINE a == [x1 EXCEPT !.drive = d]
             drives == [b \in DOMAIN Bands |-> IF b = a.band THEN a.drive ELSE a.bandDrive[b]]
  <2>1. a \in Dialling!AppType /\ a.ctun = x1.ctun /\ a.freq = x1.freq /\ a.centre = x1.centre
    BY <1>0 DEF Dialling!AppType
  <2>2. x1' = Dialling!Kept(a) /\ x2' = x2
    BY <1>8 DEF Dialling!Drive
  <2> HIDE DEF a
  <2>3. drives \in [DOMAIN Bands -> Watts]
    BY <2>1 DEF Dialling!AppType
  <2>4. x1' = [a EXCEPT !.bandDrive = drives]
    BY <2>1, <2>2 DEF Dialling!Kept, Dialling!AppType
  <2> HIDE DEF drives
  <2>5. /\ x1' \in Dialling!AppType
        /\ x1'.ctun = x1.ctun /\ x1'.freq = x1.freq /\ x1'.centre = x1.centre
    BY <2>1, <2>3, <2>4 DEF Dialling!AppType
  <2>6. QED
    BY <1>0, <2>2, <2>5 DEF Dialling!DialInv, Dialling!AppType
<1>9. CASE Dialling!Swap
  <2>1. x1' = Dialling!Swapped(x1) /\ x2' = [Dialling!Pushed(x1') EXCEPT !.tx = x1'.freq]
    BY <1>9 DEF Dialling!Swap
  <2>2. /\ x1' \in Dialling!AppType /\ (~x1'.ctun => x1'.centre = x1'.freq)
    BY <1>0, <2>1, SwapExchanges
  <2>3. /\ Dialling!Pushed(x1') \in [ddc : Int, offset : Int, width : Wide, tx : Nat]
        /\ Dialling!Pushed(x1').ddc = x1'.centre /\ (~x1'.ctun => Dialling!Pushed(x1').offset = 0)
    BY <1>0, <2>2, PushedType
  <2>4. x1'.freq \in Nat
    BY <2>2 DEF Dialling!AppType
  <2>5. /\ x2' \in [ddc : Int, offset : Int, width : Wide, tx : Nat]
        /\ x2'.ddc = x1'.centre /\ (~x1'.ctun => x2'.offset = 0)
    BY <2>1, <2>3, <2>4
  <2>6. QED
    BY <2>2, <2>5 DEF Dialling!DialInv, Dialling!AppType
<1>10. CASE Dialling!Copy
  <2>1. x1' = [x1 EXCEPT !.ofreq = x1.freq, !.omode = x1.mode] /\ x2' = x2
    BY <1>10 DEF Dialling!Copy
  <2>2. /\ x1' \in Dialling!AppType
        /\ x1'.ctun = x1.ctun /\ x1'.freq = x1.freq /\ x1'.centre = x1.centre
    BY <1>0, <2>1 DEF Dialling!AppType
  <2>3. QED
    BY <1>0, <2>1, <2>2 DEF Dialling!DialInv, Dialling!AppType
<1>11. CASE Dialling!FrameTick
  <2> DEFINE a == Dialling!BandApplied(x1)
  <2>1. /\ x1' = IF a.band = Dialling!OutOfBand THEN a ELSE [a EXCEPT !.bandFreq[a.band] = a.freq]
        /\ x2' = [x2 EXCEPT !.width = a.width, !.tx = a.freq]
    BY <1>11 DEF Dialling!FrameTick
  <2>2. a \in Dialling!AppType /\ a.ctun = x1.ctun /\ a.freq = x1.freq /\ a.centre = x1.centre
    BY <1>0, BandAppliedType
  <2> HIDE DEF a
  <2>3. a.width \in Wide /\ a.freq \in Nat /\ a.band \in DOMAIN Bands \cup {Dialling!OutOfBand}
    BY <2>2 DEF Dialling!AppType
  <2>4. /\ x1' \in Dialling!AppType
        /\ x1'.ctun = x1.ctun /\ x1'.freq = x1.freq /\ x1'.centre = x1.centre
    BY <2>1, <2>2, <2>3 DEF Dialling!AppType
  <2>5. /\ x2' \in [ddc : Int, offset : Int, width : Wide, tx : Nat]
        /\ x2'.ddc = x2.ddc /\ x2'.offset = x2.offset
    BY <1>0, <2>1, <2>3
  <2>6. QED
    BY <1>0, <2>4, <2>5 DEF Dialling!DialInv, Dialling!AppType
<1>12. CASE Dialling!Air
  BY <1>0, <1>12 DEF Dialling!Air, Dialling!DialInv, Dialling!AppType
<1>13. CASE Dialling!Relink
  <2>1. x1' = x1 /\ x2' = [x2 EXCEPT !.ddc = x1.freq]
    BY <1>13 DEF Dialling!Relink
  <2>2. x1.freq \in Int
    BY <1>0 DEF Dialling!AppType
  <2>3. /\ x2' \in [ddc : Int, offset : Int, width : Wide, tx : Nat]
        /\ x2'.ddc = x1.freq /\ x2'.offset = x2.offset
    BY <1>0, <2>1, <2>2
  <2>4. QED
    BY <1>0, <2>1, <2>3 DEF Dialling!DialInv, Dialling!AppType
<1>14. CASE UNCHANGED vars
  BY <1>0, <1>14 DEF vars, Dialling!DialInv, Dialling!AppType
<1>15. QED
  BY <1>1, <1>2, <1>3, <1>4, <1>5, <1>6, <1>7, <1>8, <1>9, <1>10, <1>11, <1>12, <1>13, <1>14,
     VfoSteps, VfoConstants

\* Without CTUN the demodulator hears the dial, in every band plan and with every
\* span of the DDC (engine_push_rx, engine_set_frequency, ctun_set).
THEOREM TheDialIsHeard == Spec => []DialIsHeard
<1> DEFINE Inv == part = "vfo" => Dialling!DialInv
<1>1. Init => Inv
  BY DialStart
<1>2. Inv /\ [Next]_vars => Inv'
  BY DialStep, PartStays
<1>3. Inv => DialIsHeard
  <2>1. SUFFICES ASSUME Dialling!DialInv PROVE Dialling!DialIsHeard
    BY DEF DialIsHeard
  <2>2. x1.freq \in Nat
    BY <2>1 DEF Dialling!DialInv, Dialling!AppType
  <2>3. QED
    BY <2>1, <2>2 DEF Dialling!DialInv, Dialling!DialIsHeard
<1>4. QED
  BY <1>1, <1>2, <1>3, PTL DEF Spec

\* A/B pressed twice brings both VFOs back (vfo_swap).
THEOREM SwapUndoesItself == Spec => []SwapIsUndoneByItself
<1> DEFINE Inv == part = "vfo" => Dialling!DialInv
<1>1. Init => Inv
  BY DialStart
<1>2. Inv /\ [Next]_vars => Inv'
  BY DialStep, PartStays
<1>3. Inv => SwapIsUndoneByItself
  <2>1. SUFFICES ASSUME Dialling!DialInv PROVE Dialling!SwapIsUndoneByItself
    BY DEF SwapIsUndoneByItself
  <2>2. x1 \in Dialling!AppType
    BY <2>1 DEF Dialling!DialInv
  <2> DEFINE b == Dialling!Swapped(x1)
             c == Dialling!Swapped(b)
  <2>3. /\ b \in Dialling!AppType
        /\ b.freq = x1.ofreq /\ b.ofreq = x1.freq /\ b.mode = x1.omode /\ b.omode = x1.mode
    BY <2>2, SwapExchanges
  <2> HIDE DEF b
  <2>4. c.freq = b.ofreq /\ c.ofreq = b.freq /\ c.mode = b.omode /\ c.omode = b.mode
    BY <2>3, SwapExchanges
  <2>5. QED
    BY <2>3, <2>4 DEF Dialling!SwapIsUndoneByItself, Dialling!BothVfos, b
<1>4. QED
  BY <1>1, <1>2, <1>3, PTL DEF Spec

-----------------------------------------------------------------------------
(* Settings.  x1 is file, x2 app, x3 radio, x4 timer, x5 chosen,           *)
(* x6 unsaved.                                                             *)

LEMMA StartupSteps ==
  ASSUME part = "startup", Next
  PROVE  \/ Remembered!StartNotFound
         \/ \E r \in Radios, opens \in BOOLEAN : Remembered!StartFound(r, opens)
         \/ \E s \in Remembered!Shared, v \in Values : Remembered!Change(s, v)
         \/ \E v \in Values : Remembered!Calibrate(v)
         \/ \E works \in BOOLEAN : Remembered!Save(works)
         \/ Remembered!Quit \/ Remembered!Crash
BY DEF Next

LEMMA RadioNames ==
  /\ Remembered!Off \notin Radios /\ Remembered!NotFound \notin Radios /\ Remembered!Failed \notin Radios
  /\ Remembered!NotFound # Remembered!Off /\ Remembered!Failed # Remembered!Off
BY PartAssumptions DEF Remembered!StartAssumption, Remembered!Off, Remembered!NotFound, Remembered!Failed

LEMMA AbsentIsNoCal == Remembered!Absent \notin Remembered!CalOf
BY PartAssumptions
   DEF Remembered!StartAssumption, Remembered!CalOf, Remembered!Absent, Remembered!Safe, Remembered!Default

LEMMA GroupType == ASSUME NEW r \in Radios PROVE Remembered!Group(r) \in Remembered!Groups
BY DEF Remembered!Groups

LEMMA LegacyType == Remembered!Legacy \in Remembered!Groups
BY DEF Remembered!Groups

Sessions == [shared : [Remembered!Shared -> Remembered!Setting], cal : Remembered!CalOf, group : Remembered!Groups]
Files    == [shared : [Remembered!Shared -> Remembered!Setting], marked : BOOLEAN,
             cal : [Remembered!Groups -> Remembered!CalOf \cup {Remembered!Absent}]]

LEMMA MigratedType ==
  ASSUME NEW m \in Remembered!Setting, NEW marked \in BOOLEAN
  PROVE  /\ Remembered!Migrated(m, marked) \in Remembered!Setting
         /\ marked => Remembered!Migrated(m, marked) = m
BY DEF Remembered!Migrated, Remembered!Setting

LEMMA LoadedCalType ==
  ASSUME x1 \in Files, NEW g \in Remembered!Groups
  PROVE  Remembered!LoadedCal(g) \in Remembered!CalOf
BY DEF Remembered!LoadedCal, Remembered!FirstCal, Remembered!CalOf, Files

\* What start_radio reads before it looks for the radio, and after it.
LEMMA EarlyIs ==
  ASSUME x1 \in Files
  PROVE  /\ Remembered!Early \in Sessions
         /\ Remembered!Early.shared["plain"] = x1.shared["plain"]
         /\ Remembered!Early.shared["mode"] = Remembered!Migrated(x1.shared["mode"], x1.marked)
         /\ Remembered!Early.cal = Remembered!LoadedCal(Remembered!Legacy)
         /\ Remembered!Early.group = Remembered!Legacy
<1> DEFINE settings == [s \in Remembered!Shared |->
                          CASE s = "filter" -> Remembered!Zero
                            [] s = "mode"   -> Remembered!Migrated(x1.shared[s], x1.marked)
                            [] OTHER        -> x1.shared[s]]
<1>1. Remembered!Early = [shared |-> settings, cal |-> Remembered!LoadedCal(Remembered!Legacy),
                          group |-> Remembered!Legacy]
  BY DEF Remembered!Early, Remembered!Loaded
<1>2. /\ \A s \in Remembered!Shared : x1.shared[s] \in Remembered!Setting
      /\ x1.marked \in BOOLEAN
  BY DEF Files
<1>3. Remembered!Migrated(x1.shared["mode"], x1.marked) \in Remembered!Setting
  BY <1>2, MigratedType DEF Remembered!Shared
<1>4. Remembered!Zero \in Remembered!Setting
  BY DEF Remembered!Setting
<1>5. /\ settings["plain"] = x1.shared["plain"] /\ settings["filter"] = Remembered!Zero
      /\ settings["mode"] = Remembered!Migrated(x1.shared["mode"], x1.marked)
  BY DEF Remembered!Shared
<1>6. settings \in [Remembered!Shared -> Remembered!Setting]
  BY <1>2, <1>3, <1>4, <1>5 DEF Remembered!Shared
<1> HIDE DEF settings
<1>7. Remembered!LoadedCal(Remembered!Legacy) \in Remembered!CalOf
  BY LoadedCalType, LegacyType
<1>8. QED
  BY <1>1, <1>5, <1>6, <1>7, LegacyType DEF Sessions

LEMMA LateIs ==
  ASSUME x1 \in Files, NEW r \in Radios
  PROVE  LET a == Remembered!Late(r)
             g == Remembered!Group(r)
         IN  /\ a \in Sessions
             /\ a.shared["plain"] = x1.shared["plain"]
             /\ a.shared["mode"] = Remembered!Migrated(x1.shared["mode"], x1.marked)
             /\ a.cal = Remembered!LoadedCal(g) /\ a.group = g
<1> DEFINE early == Remembered!Early
           a == Remembered!Late(r)
           g == Remembered!Group(r)
<1>1. a = [early EXCEPT !.shared["filter"] = x1.shared["filter"], !.cal = Remembered!LoadedCal(g), !.group = g]
  BY DEF Remembered!Late, Remembered!Loaded
<1>2. /\ early \in Sessions /\ early.shared["plain"] = x1.shared["plain"]
      /\ early.shared["mode"] = Remembered!Migrated(x1.shared["mode"], x1.marked)
  BY EarlyIs
<1>3. g \in Remembered!Groups /\ Remembered!LoadedCal(g) \in Remembered!CalOf
  BY GroupType, LoadedCalType
<1>4. x1.shared["filter"] \in Remembered!Setting
  BY DEF Files, Remembered!Shared
<1> HIDE DEF early, a, g
<1>5. QED
  BY <1>1, <1>2, <1>3, <1>4 DEF Sessions, Remembered!Shared, a, g

LEMMA WrittenIs ==
  ASSUME x1 \in Files, x2 \in Sessions
  PROVE  /\ Remembered!Written \in Files
         /\ Remembered!Written.shared = x2.shared /\ Remembered!Written.marked = TRUE
         /\ Remembered!Written.cal = [x1.cal EXCEPT ![x2.group] = x2.cal]
<1> DEFINE cals == [x1.cal EXCEPT ![x2.group] = x2.cal]
<1>1. Remembered!Written = [x1 EXCEPT !.shared = x2.shared, !.marked = TRUE, !.cal = cals]
  BY DEF Remembered!Written, Files
<1>2. x1.cal \in [Remembered!Groups -> Remembered!CalOf \cup {Remembered!Absent}]
      /\ x2.cal \in Remembered!CalOf /\ x2.group \in Remembered!Groups
  BY DEF Files, Sessions
<1>3. cals \in [Remembered!Groups -> Remembered!CalOf \cup {Remembered!Absent}]
  BY <1>2
<1> HIDE DEF cals
<1>4. QED
  BY <1>1, <1>3 DEF Files, Sessions, cals

LEMMA NoAppType == Remembered!NoApp \in Sessions
BY LegacyType DEF Remembered!NoApp, Sessions, Remembered!Setting, Remembered!CalOf

LEMMA TypesAre ==
  Remembered!Types <=>
    /\ x1 \in Files /\ x2 \in Sessions
    /\ x3 \in Radios \cup {Remembered!Off, Remembered!NotFound, Remembered!Failed}
    /\ x4 \in BOOLEAN /\ x5 \in Remembered!Choices /\ x6 \in Remembered!Choices
BY DEF Remembered!Types, Files, Sessions

\* What the file has, in terms of what was chosen.
InFile(file, chosen) ==
  /\ chosen.shared["plain"] = file.shared["plain"]
  /\ chosen.shared["mode"] = Remembered!Migrated(file.shared["mode"], file.marked)
  /\ \A g \in Remembered!Groups :
       chosen.cal[g] = IF file.cal[g] # Remembered!Absent THEN file.cal[g] ELSE Remembered!FirstCal(g)

\* What the App has.
InApp(app, unsaved, chosen) ==
  /\ \A s \in {"plain", "mode"} : app.shared[s] = unsaved.shared[s]
  /\ app.cal = unsaved.cal[app.group]
  /\ \A g \in Remembered!Groups \ {app.group} : unsaved.cal[g] = chosen.cal[g]

LEMMA ReturnIs ==
  Remembered!ReturnInv <=>
    /\ x1 \in Files /\ x2 \in Sessions
    /\ x3 \in Radios \cup {Remembered!Off, Remembered!NotFound, Remembered!Failed}
    /\ x4 \in BOOLEAN /\ x5 \in Remembered!Choices /\ x6 \in Remembered!Choices
    /\ InFile(x1, x5)
    /\ x3 = Remembered!Off => x6 = x5 /\ ~x4
    /\ x3 # Remembered!Off => InApp(x2, x6, x5)
    /\ x3 \in Radios => x2.group = Remembered!Group(x3)
BY TypesAre DEF Remembered!ReturnInv, Remembered!LoadedCal, Remembered!IsOn, InFile, InApp

LEMMA ReturnWillBe ==
  Remembered!ReturnInv' <=>
    /\ x1' \in Files /\ x2' \in Sessions
    /\ x3' \in Radios \cup {Remembered!Off, Remembered!NotFound, Remembered!Failed}
    /\ x4' \in BOOLEAN /\ x5' \in Remembered!Choices /\ x6' \in Remembered!Choices
    /\ InFile(x1', x5')
    /\ x3' = Remembered!Off => x6' = x5' /\ ~x4'
    /\ x3' # Remembered!Off => InApp(x2', x6', x5')
    /\ x3' \in Radios => x2'.group = Remembered!Group(x3')
BY DEF Remembered!ReturnInv, Remembered!Types, Files, Sessions, Remembered!LoadedCal, Remembered!IsOn,
       Remembered!Off, Remembered!NotFound, Remembered!Failed, Remembered!Absent, Remembered!FirstCal,
       Remembered!Migrated, Remembered!Groups, Remembered!Group, Remembered!Legacy, Remembered!Choices,
       Remembered!Shared, Remembered!Setting, Remembered!CalOf, Remembered!Zero, Remembered!Default,
       Remembered!Safe, InFile, InApp

\* A session that starts with what the file has.
LEMMA InAppAtStart ==
  ASSUME NEW a \in Sessions, x1 \in Files, InFile(x1, x5), x6 = x5,
         a.shared["plain"] = x1.shared["plain"],
         a.shared["mode"] = Remembered!Migrated(x1.shared["mode"], x1.marked),
         a.cal = Remembered!LoadedCal(a.group)
  PROVE  InApp(a, x6, x5)
BY DEF InFile, InApp, Remembered!LoadedCal, Sessions

\* A save that works leaves in the file what was chosen by then.
LEMMA InFileWhenSaved ==
  ASSUME x1 \in Files, x2 \in Sessions, x5 \in Remembered!Choices, x6 \in Remembered!Choices,
         InFile(x1, x5), InApp(x2, x6, x5)
  PROVE  InFile(Remembered!Written, x6) /\ Remembered!Written \in Files
<1> DEFINE w == Remembered!Written
<1>1. /\ w \in Files /\ w.shared = x2.shared /\ w.marked = TRUE
      /\ w.cal = [x1.cal EXCEPT ![x2.group] = x2.cal]
  BY WrittenIs
<1> HIDE DEF w
<1>2. x2.shared["mode"] \in Remembered!Setting /\ x2.cal \in Remembered!CalOf
      /\ x2.group \in Remembered!Groups
  BY DEF Sessions, Remembered!Shared
<1>3. /\ x6.shared["plain"] = w.shared["plain"]
      /\ x6.shared["mode"] = Remembered!Migrated(w.shared["mode"], w.marked)
  BY <1>1, <1>2, MigratedType DEF InApp
<1>4. ASSUME NEW g \in Remembered!Groups
      PROVE  x6.cal[g] = IF w.cal[g] # Remembered!Absent THEN w.cal[g] ELSE Remembered!FirstCal(g)
  <2>0. x1.cal \in [Remembered!Groups -> Remembered!CalOf \cup {Remembered!Absent}]
    BY DEF Files
  <2>1. CASE g = x2.group
    <3>1. w.cal[g] = x2.cal
      BY <1>1, <1>2, <2>0, <2>1
    <3>2. x2.cal # Remembered!Absent
      BY <1>2, AbsentIsNoCal
    <3>3. QED
      BY <2>1, <3>1, <3>2 DEF InApp
  <2>2. CASE g # x2.group
    <3>1. w.cal[g] = x1.cal[g]
      BY <1>1, <1>2, <2>0, <2>2
    <3>2. QED
      BY <2>2, <3>1 DEF InApp, InFile
  <2>3. QED
    BY <2>1, <2>2
<1>5. QED
  BY <1>1, <1>3, <1>4 DEF InFile, w

LEMMA ReturnStart == ASSUME part = "startup", Init PROVE Remembered!ReturnInv
<1>1. Remembered!Init
  BY DEF Init
<1>2. PICK m \in {Remembered!Default, OldSeed} :
        /\ x1 = [shared |-> [s \in Remembered!Shared |-> IF s = "mode" THEN m ELSE Remembered!Default],
                 marked |-> FALSE, cal |-> [g \in Remembered!Groups |-> Remembered!Absent]]
        /\ x2 = Remembered!NoApp /\ x3 = Remembered!Off /\ x4 = FALSE
        /\ x5 = [shared |-> [s \in Remembered!Shared |-> Remembered!Default],
                 cal |-> [g \in Remembered!Groups |-> Remembered!FirstCal(g)]]
        /\ x6 = x5
  BY <1>1 DEF Remembered!Init
<1>3. m \in Remembered!Setting /\ Remembered!Default \in Remembered!Setting
  BY PartAssumptions DEF Remembered!StartAssumption, Remembered!Setting
<1>4. \A g \in Remembered!Groups : Remembered!FirstCal(g) \in Remembered!CalOf
  BY DEF Remembered!FirstCal, Remembered!CalOf
<1>5. x1 \in Files
  BY <1>2, <1>3 DEF Files
<1>6. x5 \in Remembered!Choices
  BY <1>2, <1>3, <1>4 DEF Remembered!Choices
<1>7. Remembered!Migrated(m, FALSE) = Remembered!Default
  BY DEF Remembered!Migrated
<1>8. InFile(x1, x5)
  BY <1>2, <1>7 DEF InFile, Remembered!Shared
<1>9. QED
  BY <1>2, <1>5, <1>6, <1>8, NoAppType, RadioNames, ReturnIs

LEMMA ReturnStep == ASSUME Remembered!ReturnInv, part = "startup", [Next]_vars PROVE Remembered!ReturnInv'
<1>0. /\ x1 \in Files /\ x2 \in Sessions
      /\ x3 \in Radios \cup {Remembered!Off, Remembered!NotFound, Remembered!Failed}
      /\ x4 \in BOOLEAN /\ x5 \in Remembered!Choices /\ x6 \in Remembered!Choices
      /\ InFile(x1, x5)
      /\ x3 = Remembered!Off => x6 = x5 /\ ~x4
      /\ x3 # Remembered!Off => InApp(x2, x6, x5)
      /\ x3 \in Radios => x2.group = Remembered!Group(x3)
  BY ReturnIs
<1>1. CASE Remembered!StartNotFound
  <2>1. /\ x3 = Remembered!Off /\ x3' = Remembered!NotFound /\ x2' = Remembered!Early
        /\ UNCHANGED <<x1, x4, x5, x6>>
    BY <1>1 DEF Remembered!StartNotFound
  <2>2. /\ x2' \in Sessions /\ x2'.shared["plain"] = x1.shared["plain"]
        /\ x2'.shared["mode"] = Remembered!Migrated(x1.shared["mode"], x1.marked)
        /\ x2'.cal = Remembered!LoadedCal(x2'.group)
    BY <1>0, <2>1, EarlyIs
  <2>3. InApp(x2', x6, x5)
    BY <1>0, <2>1, <2>2, InAppAtStart
  <2>4. QED
    BY <1>0, <2>1, <2>2, <2>3, RadioNames, ReturnWillBe
<1>2. ASSUME NEW r \in Radios, NEW opens \in BOOLEAN, Remembered!StartFound(r, opens)
      PROVE  Remembered!ReturnInv'
  <2>1. /\ x3 = Remembered!Off /\ x3' = (IF opens THEN r ELSE Remembered!Failed)
        /\ x2' = Remembered!Late(r) /\ UNCHANGED <<x1, x4, x5, x6>>
    BY <1>2 DEF Remembered!StartFound
  <2>2. /\ x2' \in Sessions /\ x2'.shared["plain"] = x1.shared["plain"]
        /\ x2'.shared["mode"] = Remembered!Migrated(x1.shared["mode"], x1.marked)
        /\ x2'.cal = Remembered!LoadedCal(x2'.group) /\ x2'.group = Remembered!Group(r)
    BY <1>0, <2>1, LateIs
  <2>3. InApp(x2', x6, x5)
    BY <1>0, <2>1, <2>2, InAppAtStart
  <2>4. /\ x3' \in Radios \cup {Remembered!Failed} /\ x3' # Remembered!Off
        /\ x3' \in Radios => x3' = r
    BY <2>1, RadioNames
  <2>5. QED
    BY <1>0, <2>1, <2>2, <2>3, <2>4, ReturnWillBe
<1>3. ASSUME NEW s \in Remembered!Shared, NEW v \in Values, Remembered!Change(s, v)
      PROVE  Remembered!ReturnInv'
  <2>1. /\ x3 # Remembered!Off /\ x2' = [x2 EXCEPT !.shared[s] = v] /\ x4' = TRUE
        /\ x6' = [x6 EXCEPT !.shared[s] = v] /\ UNCHANGED <<x1, x3, x5>>
    BY <1>3 DEF Remembered!Change
  <2>2. v \in Remembered!Setting
    BY DEF Remembered!Setting
  <2>3. /\ x2' \in Sessions /\ x2'.cal = x2.cal /\ x2'.group = x2.group
        /\ \A t \in Remembered!Shared : x2'.shared[t] = IF t = s THEN v ELSE x2.shared[t]
    BY <1>0, <2>1, <2>2 DEF Sessions
  <2>4. /\ x6' \in Remembered!Choices /\ x6'.cal = x6.cal
        /\ \A t \in Remembered!Shared : x6'.shared[t] = IF t = s THEN v ELSE x6.shared[t]
    BY <1>0, <2>1, <2>2 DEF Remembered!Choices
  <2>5. InApp(x2', x6', x5)
    BY <1>0, <2>1, <2>3, <2>4 DEF InApp, Remembered!Shared
  <2>6. QED
    BY <1>0, <2>1, <2>3, <2>4, <2>5, ReturnWillBe
<1>4. ASSUME NEW v \in Values, Remembered!Calibrate(v) PROVE Remembered!ReturnInv'
  <2>1. /\ x3 # Remembered!Off /\ x2' = [x2 EXCEPT !.cal = v] /\ x4' = TRUE
        /\ x6' = [x6 EXCEPT !.cal[x2.group] = v] /\ UNCHANGED <<x1, x3, x5>>
    BY <1>4 DEF Remembered!Calibrate
  <2>2. v \in Remembered!CalOf /\ x2.group \in Remembered!Groups
    BY <1>0 DEF Remembered!CalOf, Sessions
  <2>3. x2' \in Sessions /\ x2'.shared = x2.shared /\ x2'.cal = v /\ x2'.group = x2.group
    BY <1>0, <2>1, <2>2 DEF Sessions
  <2>4. /\ x6' \in Remembered!Choices /\ x6'.shared = x6.shared
        /\ \A g \in Remembered!Groups : x6'.cal[g] = IF g = x2.group THEN v ELSE x6.cal[g]
    BY <1>0, <2>1, <2>2 DEF Remembered!Choices
  <2>5. InApp(x2', x6', x5)
    BY <1>0, <2>1, <2>2, <2>3, <2>4 DEF InApp
  <2>6. QED
    BY <1>0, <2>1, <2>3, <2>4, <2>5, ReturnWillBe
<1>5. ASSUME NEW works \in BOOLEAN, Remembered!Save(works) PROVE Remembered!ReturnInv'
  <2>1. /\ x4 /\ x4' = FALSE /\ UNCHANGED <<x2, x3, x6>>
        /\ \/ x1' = Remembered!Written /\ x5' = x6
           \/ UNCHANGED <<x1, x5>>
    BY <1>5 DEF Remembered!Save
  <2>2. x3 # Remembered!Off
    BY <1>0, <2>1
  <2>3. CASE x1' = Remembered!Written /\ x5' = x6
    <3>1. InFile(x1', x5') /\ x1' \in Files
      BY <1>0, <2>2, <2>3, InFileWhenSaved
    <3>2. InApp(x2, x6, x6)
      BY <1>0, <2>2 DEF InApp
    <3>3. QED
      BY <1>0, <2>1, <2>2, <2>3, <3>1, <3>2, ReturnWillBe
  <2>4. CASE UNCHANGED <<x1, x5>>
    BY <1>0, <2>1, <2>2, <2>4, ReturnWillBe
  <2>5. QED
    BY <2>1, <2>3, <2>4
<1>6. CASE Remembered!Quit
  <2>1. /\ x3 # Remembered!Off /\ x1' = Remembered!Written /\ x5' = x6 /\ x3' = Remembered!Off
        /\ x2' = Remembered!NoApp /\ x4' = FALSE /\ x6' = x6
    BY <1>6 DEF Remembered!Quit
  <2>2. InFile(x1', x5') /\ x1' \in Files
    BY <1>0, <2>1, InFileWhenSaved
  <2>3. QED
    BY <1>0, <2>1, <2>2, NoAppType, RadioNames, ReturnWillBe
<1>7. CASE Remembered!Crash
  <2>1. /\ x6' = x5 /\ x3' = Remembered!Off /\ x2' = Remembered!NoApp /\ x4' = FALSE
        /\ UNCHANGED <<x1, x5>>
    BY <1>7 DEF Remembered!Crash
  <2>2. QED
    BY <1>0, <2>1, NoAppType, RadioNames, ReturnWillBe
<1>8. CASE UNCHANGED vars
  BY <1>0, <1>8, ReturnWillBe DEF vars
<1>9. QED
  BY <1>1, <1>2, <1>3, <1>4, <1>5, <1>6, <1>7, <1>8, StartupSteps

\* A radio comes back as it was left, for every set of radios and of values, over
\* every sequence of sessions, failed starts, failed writes and crashes
\* (tx_cal_from_settings, settings_save, seed_lsb_migrates).
THEOREM TheSettingsReturn == Spec => []SettingsReturn
<1> DEFINE Inv == part = "startup" => Remembered!ReturnInv
<1>1. Init => Inv
  BY ReturnStart
<1>2. Inv /\ [Next]_vars => Inv'
  BY ReturnStep, PartStays
<1>3. Inv => SettingsReturn
  BY ReturnIs, RadioNames DEF SettingsReturn, Remembered!SettingsReturn, Remembered!IsOn, InApp
<1>4. QED
  BY <1>1, <1>2, <1>3, PTL DEF Spec

-----------------------------------------------------------------------------
(* The clients of the TCI server.  x1 is run, x2 app, x3 echo, x4 last,    *)
(* x5 cli, x6 told, x7 aside.                                              *)

LEMMA ClientSteps ==
  ASSUME part = "clients", Next
  PROVE  \/ Known!OperatorTunes \/ Known!OperatorSets
         \/ \E m \in Emissions, w \in Widths : Known!OperatorSwaps(m, w)
         \/ Known!KeyFollows \/ Known!Reporter \/ Known!Stop
         \/ \E v \in Amounts : Known!Start(v)
         \/ \E c \in Guests : Known!Established(c) \/ Known!SendInitial(c) \/ Known!Closed(c)
         \/ Known!VfoOrDds \/ Known!Modulation \/ Known!Trx
         \/ \E f \in Tunings : Known!IfOffset(f) \/ Known!VfoB(f)
         \/ \E w \in Widths : Known!FilterBand(w)
         \/ \E i \in Polled, v \in Amounts : Known!Setting(i, v)
         \/ \E i \in Stored, v \in Amounts : Known!EchoExec(i, v)
BY DEF Next

LEMMA ClientConstants ==
  /\ Tunings \subseteq Nat /\ HalfSpan \in Nat /\ Margin \in Nat
  /\ Known!Tuning \subseteq Known!Watched /\ Known!Watched \cap Stored = {}
  /\ Known!Items = Known!Watched \cup Stored
BY PartAssumptions DEF Known!ClientsAssumption, Known!Watched, Known!Fixed, Known!Items

LEMMA BroadcastIs ==
  ASSUME NEW t, NEW items, NEW a, NEW e, NEW c \in Guests
  PROVE  \A i \in Known!Items :
           Known!Broadcast(t, items, a, e)[c][i] =
             IF x5[c].inuse /\ i \in items THEN IF i \in Stored THEN e[i] ELSE Known!Reading(a, i)
             ELSE t[c][i]
BY DEF Known!Broadcast

LEMMA BroadcastToAll == ASSUME NEW t, NEW items, NEW a, NEW e PROVE DOMAIN Known!Broadcast(t, items, a, e) = Guests
BY DEF Known!Broadcast

LEMMA NewsIs ==
  ASSUME NEW l, NEW a, NEW i \in Known!Watched
  PROVE  i \in Known!News(l, a) <=> l = Known!NotYet \/ Known!Reading(l, i) # Known!Reading(a, i)
BY DEF Known!News

LEMMA NewsIsWatched == ASSUME NEW l, NEW a PROVE Known!News(l, a) \subseteq Known!Watched
BY DEF Known!News

\* The invariant of the state that follows, part by part.
LEMMA KnowsNext ==
  ASSUME NEW c \in Guests
  PROVE  Known!Knows(c)' <=>
           /\ \A i \in Stored : x6'[c][i] = x3'[i]
           /\ \A i \in Known!Tuning : x6'[c][i] = Known!Reading(x2', i)
           /\ \A i \in Known!Watched : x4' = Known!NotYet \/ i \in x7' \/ x6'[c][i] = Known!Reading(x4', i)
BY DEF Known!Knows, Known!Reading, Known!Watched, Known!NotYet

LEMMA SeenNext ==
  Known!TuningIsSeen' <=>
    (x1' /\ x4' # Known!NotYet =>
       \A i \in Known!Tuning : Known!Reading(x4', i) = Known!Reading(x2', i) /\ i \notin x7')
BY DEF Known!TuningIsSeen, Known!Reading, Known!NotYet

LEMMA GreetedNext ==
  ASSUME NEW c \in Guests, x1' = x1, x5' = x5
  PROVE  Known!Greeted(c)' <=> Known!Greeted(c)
BY DEF Known!Greeted

\* The reporter looks, with an answer or without.
LEMMA LookKeeps ==
  ASSUME Known!KnowInv, NEW a \in Known!App, NEW items \in SUBSET Known!Watched,
         x6' = Known!Broadcast(x6, Known!News(x4, a) \cup items, a, x3), x4' = a,
         x7' = x7 \ (Known!News(x4, a) \cup items), x2' = a, x1' = x1, x3' = x3, x5' = x5
  PROVE  Known!KnowInv'
<1> DEFINE told == Known!News(x4, a) \cup items
<1>1. Known!Types'
  <2>1. DOMAIN x6' = Guests
    BY BroadcastToAll
  <2>2. QED
    BY <2>1 DEF Known!KnowInv, Known!Types, Known!App
<1>2. Known!ServedOnly'
  BY DEF Known!KnowInv, Known!ServedOnly
<1>3. Known!TuningIsSeen'
  <2>1. ASSUME NEW i \in Known!Tuning, x1, x4 # Known!NotYet PROVE i \notin x7
    BY <2>1 DEF Known!KnowInv, Known!TuningIsSeen
  <2>2. ASSUME NEW i \in Known!Tuning, x1, x4 = Known!NotYet PROVE i \notin x7'
    <3>1. i \in Known!News(x4, a)
      BY <2>2, NewsIs, ClientConstants
    <3>2. QED
      BY <3>1
  <2>3. QED
    BY <2>1, <2>2, SeenNext
<1>4. ASSUME NEW c \in Guests, Known!Greeted(c)' PROVE Known!Knows(c)'
  <2>1. Known!Knows(c) /\ x5[c].inuse /\ x1
    BY <1>4, GreetedNext DEF Known!KnowInv, Known!Greeted
  <2>2. ASSUME NEW i \in Known!Watched, i \in told PROVE x6'[c][i] = Known!Reading(a, i)
    BY <2>1, <2>2, BroadcastIs, ClientConstants
  <2>3. ASSUME NEW i \in Known!Items, i \notin told PROVE x6'[c][i] = x6[c][i]
    BY <2>3, BroadcastIs
  <2>4. ASSUME NEW i \in Stored PROVE x6'[c][i] = x3[i]
    <3>1. i \notin told
      BY NewsIsWatched, ClientConstants
    <3>2. QED
      BY <2>1, <2>3, <3>1, ClientConstants DEF Known!Knows
  <2>5. ASSUME NEW i \in Known!Watched, i \notin told PROVE x4 # Known!NotYet /\ Known!Reading(x4, i) = Known!Reading(a, i)
    BY <2>5, NewsIs
  <2>6. ASSUME NEW i \in Known!Watched PROVE i \in x7' \/ x6'[c][i] = Known!Reading(a, i)
    <3>1. CASE i \in told
      BY <2>2, <3>1
    <3>2. CASE i \notin told
      <4>1. i \in x7 \/ x6[c][i] = Known!Reading(x4, i)
        BY <2>1, <2>5, <3>2 DEF Known!Knows
      <4>2. QED
        BY <2>3, <2>5, <3>2, <4>1, ClientConstants
    <3>3. QED
      BY <3>1, <3>2
  <2>7. ASSUME NEW i \in Known!Tuning PROVE x6'[c][i] = Known!Reading(a, i)
    <3>1. i \notin x7'
      BY <2>7, <2>1, <2>5, ClientConstants DEF Known!KnowInv, Known!TuningIsSeen
    <3>2. QED
      BY <2>6, <3>1, ClientConstants
  <2>8. QED
    BY <2>4, <2>6, <2>7, KnowsNext
<1>5. QED
  BY <1>1, <1>2, <1>3, <1>4 DEF Known!KnowInv

\* An answer the reporter does not see, of a change that leaves the tuning alone.
LEMMA AnswerKeeps ==
  ASSUME Known!KnowInv, NEW a \in Known!App, NEW items \in SUBSET Known!Items, NEW e, DOMAIN e = Stored,
         \A i \in Known!Tuning : Known!Reading(a, i) = Known!Reading(x2, i),
         \A i \in Stored \ items : e[i] = x3[i],
         x6' = Known!Broadcast(x6, items, a, e), x4' = x4,
         x7' = (x7 \ items) \cup (items \cap Known!News(x4, a)), x2' = a, x1' = x1, x3' = e, x5' = x5
  PROVE  Known!KnowInv'
<1>1. Known!Types'
  <2>1. DOMAIN x6' = Guests
    BY BroadcastToAll
  <2>2. QED
    BY <2>1 DEF Known!KnowInv, Known!Types, Known!App, Known!NotYet
<1>2. Known!ServedOnly'
  BY DEF Known!KnowInv, Known!ServedOnly
<1>3. Known!TuningIsSeen'
  <2>1. ASSUME NEW i \in Known!Tuning, x1, x4 # Known!NotYet
        PROVE  Known!Reading(x4, i) = Known!Reading(a, i) /\ i \notin x7'
    <3>1. Known!Reading(x4, i) = Known!Reading(x2, i) /\ i \notin x7
      BY <2>1 DEF Known!KnowInv, Known!TuningIsSeen
    <3>2. i \notin Known!News(x4, a)
      BY <2>1, <3>1, NewsIs, ClientConstants
    <3>3. QED
      BY <3>1, <3>2
  <2>2. QED
    BY <2>1, SeenNext
<1>4. ASSUME NEW c \in Guests, Known!Greeted(c)' PROVE Known!Knows(c)'
  <2>1. Known!Knows(c) /\ x5[c].inuse /\ x1
    BY <1>4, GreetedNext DEF Known!KnowInv, Known!Greeted
  <2>2. ASSUME NEW i \in Known!Watched, i \in items PROVE x6'[c][i] = Known!Reading(a, i)
    BY <2>1, <2>2, BroadcastIs, ClientConstants
  <2>3. ASSUME NEW i \in Known!Items, i \notin items PROVE x6'[c][i] = x6[c][i]
    BY <2>3, BroadcastIs
  <2>4. ASSUME NEW i \in Stored PROVE x6'[c][i] = e[i]
    <3>1. CASE i \in items
      BY <2>1, <3>1, BroadcastIs, ClientConstants
    <3>2. CASE i \notin items
      BY <2>1, <2>3, <3>2, ClientConstants DEF Known!Knows
    <3>3. QED
      BY <3>1, <3>2
  <2>5. ASSUME NEW i \in Known!Tuning PROVE x6'[c][i] = Known!Reading(a, i)
    <3>1. CASE i \in items
      BY <2>2, <3>1, ClientConstants
    <3>2. CASE i \notin items
      BY <2>1, <2>3, <3>2, ClientConstants DEF Known!Knows
    <3>3. QED
      BY <3>1, <3>2
  <2>6. ASSUME NEW i \in Known!Watched PROVE x4 = Known!NotYet \/ i \in x7' \/ x6'[c][i] = Known!Reading(x4, i)
    <3>1. CASE i \in items
      BY <2>2, <3>1, NewsIs
    <3>2. CASE i \notin items
      BY <2>1, <2>3, <3>2, ClientConstants DEF Known!Knows
    <3>3. QED
      BY <3>1, <3>2
  <2>7. QED
    BY <2>4, <2>5, <2>6, KnowsNext
<1>5. QED
  BY <1>1, <1>2, <1>3, <1>4 DEF Known!KnowInv

\* A change nobody is told of, that leaves the tuning alone.
LEMMA SilenceKeeps ==
  ASSUME Known!KnowInv, NEW a \in Known!App,
         \A i \in Known!Tuning : Known!Reading(a, i) = Known!Reading(x2, i),
         x2' = a, x1' = x1, x3' = x3, x4' = x4, x5' = x5, x6' = x6, x7' = x7
  PROVE  Known!KnowInv'
<1>1. Known!Types'
  BY DEF Known!KnowInv, Known!Types, Known!App, Known!NotYet
<1>2. Known!ServedOnly'
  BY DEF Known!KnowInv, Known!ServedOnly
<1>3. Known!TuningIsSeen'
  BY SeenNext DEF Known!KnowInv, Known!TuningIsSeen
<1>4. ASSUME NEW c \in Guests, Known!Greeted(c)' PROVE Known!Knows(c)'
  <2>1. Known!Knows(c)
    BY <1>4, GreetedNext DEF Known!KnowInv
  <2>2. QED
    BY <2>1, KnowsNext DEF Known!Knows
<1>5. QED
  BY <1>1, <1>2, <1>3, <1>4 DEF Known!KnowInv

-----------------------------------------------------------------------------
(* What the handlers make of the application.                              *)

LEMMA AppFields ==
  ASSUME NEW a \in Known!App
  PROVE  /\ a.freq \in Int /\ a.ofreq \in Int /\ a.centre \in Int /\ a.ctun \in BOOLEAN
         /\ a.mode \in Emissions /\ a.width \in Widths /\ a.keyed \in BOOLEAN
         /\ a.set \in [Polled -> Amounts]
BY DEF Known!App

LEMMA SameTuningReads ==
  ASSUME NEW a, NEW b, a.freq = b.freq, a.ofreq = b.ofreq, a.centre = b.centre
  PROVE  \A i \in Known!Tuning : Known!Reading(a, i) = Known!Reading(b, i)
BY DEF Known!Tuning, Known!Reading

LEMMA DialedType ==
  ASSUME NEW a \in Known!App, NEW f \in Int, NEW c \in Int
  PROVE  [a EXCEPT !.freq = f, !.centre = c] \in Known!App
BY DEF Known!App

LEMMA HoldingType == ASSUME NEW c \in Int, NEW f \in Int PROVE Known!Holding(c, f) \in Int
BY ClientConstants DEF Known!Holding, Known!Within

LEMMA TunedType == ASSUME x2 \in Known!App, NEW f \in Int PROVE Known!Tuned(f) \in Known!App
<1> DEFINE c == IF x2.ctun /\ f - x2.centre \in -HalfSpan..HalfSpan THEN Known!Holding(x2.centre, f) ELSE f
<1>1. Known!Tuned(f) = [x2 EXCEPT !.freq = f, !.centre = c]
  BY DEF Known!Tuned
<1>2. c \in Int
  BY AppFields, HoldingType
<1> HIDE DEF c
<1>3. QED
  BY <1>1, <1>2, DialedType

LEMMA CentredType == ASSUME NEW a \in Known!App, NEW c \in Int PROVE Known!Centred(a, c) \in Known!App
<1> DEFINE h == Known!Holding(c, a.freq)
           n == IF h < 1 THEN 1 ELSE h
<1>1. Known!Centred(a, c) = [a EXCEPT !.centre = n]
  BY DEF Known!Centred
<1>a. h \in Int
  BY AppFields, HoldingType
<1> HIDE DEF h
<1>2. n \in Int
  BY <1>a
<1> HIDE DEF n
<1>3. QED
  BY <1>1, <1>2 DEF Known!App

LEMMA DdsSetType == ASSUME x2 \in Known!App, NEW c \in Int PROVE Known!DdsSet(c) \in Known!App
<1> DEFINE f == c + x2.freq - x2.centre
           n == IF f > 0 THEN f ELSE 1
           a == [x2 EXCEPT !.freq = n]
<1>1. n \in Int
  BY AppFields
<1> HIDE DEF n
<1>2. a \in Known!App
  BY <1>1 DEF Known!App
<1>3. Known!DdsSet(c) = IF x2.ctun THEN Known!Centred(a, c) ELSE Known!Tuned(c)
  BY DEF Known!DdsSet, n
<1> HIDE DEF a
<1>4. QED
  BY <1>2, <1>3, CentredType, TunedType

LEMMA ModeSetIs ==
  ASSUME x2 \in Known!App, NEW m \in Emissions, NEW w \in Widths
  PROVE  /\ Known!ModeSet(m, w) \in Known!App
         /\ \A i \in Known!Tuning : Known!Reading(Known!ModeSet(m, w), i) = Known!Reading(x2, i)
<1> DEFINE a == Known!ModeSet(m, w)
<1>1. a \in Known!App /\ a.freq = x2.freq /\ a.ofreq = x2.ofreq /\ a.centre = x2.centre
  BY DEF Known!ModeSet, Known!App
<1> HIDE DEF a
<1>2. QED
  BY <1>1, SameTuningReads DEF a

LEMMA WidthSetIs ==
  ASSUME x2 \in Known!App, NEW w \in Widths
  PROVE  LET a == [x2 EXCEPT !.width = w]
         IN  a \in Known!App /\ \A i \in Known!Tuning : Known!Reading(a, i) = Known!Reading(x2, i)
<1> DEFINE a == [x2 EXCEPT !.width = w]
<1>1. a \in Known!App /\ a.freq = x2.freq /\ a.ofreq = x2.ofreq /\ a.centre = x2.centre
  BY DEF Known!App
<1> HIDE DEF a
<1>2. QED
  BY <1>1, SameTuningReads DEF a

LEMMA KeyedIs ==
  ASSUME x2 \in Known!App
  PROVE  LET a == [x2 EXCEPT !.keyed = ~@]
         IN  a \in Known!App /\ \A i \in Known!Tuning : Known!Reading(a, i) = Known!Reading(x2, i)
<1> DEFINE k == ~x2.keyed
           a == [x2 EXCEPT !.keyed = k]
<1>1. k \in BOOLEAN
  OBVIOUS
<1> HIDE DEF k
<1>2. a \in Known!App /\ a.freq = x2.freq /\ a.ofreq = x2.ofreq /\ a.centre = x2.centre
  BY <1>1 DEF Known!App
<1> HIDE DEF a
<1>3. QED
  BY <1>2, SameTuningReads DEF a, k

LEMMA AmountSetIs ==
  ASSUME x2 \in Known!App, NEW p \in Polled, NEW v \in Amounts
  PROVE  LET a == [x2 EXCEPT !.set[p] = v]
         IN  a \in Known!App /\ \A i \in Known!Tuning : Known!Reading(a, i) = Known!Reading(x2, i)
<1> DEFINE s == [x2.set EXCEPT ![p] = v]
           a == [x2 EXCEPT !.set = s]
<1>1. s \in [Polled -> Amounts]
  BY AppFields
<1> HIDE DEF s
<1>2. a \in Known!App /\ a.freq = x2.freq /\ a.ofreq = x2.ofreq /\ a.centre = x2.centre
  BY <1>1 DEF Known!App
<1> HIDE DEF a
<1>3. QED
  BY <1>2, SameTuningReads DEF a, s

-----------------------------------------------------------------------------
(* Every handler.                                                          *)

LEMMA KnowTypes == ASSUME Known!KnowInv PROVE x2 \in Known!App /\ x1 \in BOOLEAN
BY DEF Known!KnowInv, Known!Types

LEMMA ClientStart == ASSUME part = "clients", Init PROVE Known!KnowInv
<1>1. Known!Init
  BY DEF Init
<1>2. PICK f \in Tunings, m \in Emissions, w \in Widths, v \in Amounts :
        /\ x2 = [freq |-> f, ofreq |-> 0, centre |-> f, ctun |-> FALSE, mode |-> m,
                 width |-> w, keyed |-> FALSE, set |-> [i \in Polled |-> v]]
        /\ x3 = [i \in Stored |-> v]
  BY <1>1, Zenon DEF Known!Init
<1>3. f \in Int
  BY ClientConstants
<1>4. x2 \in Known!App
  BY <1>2, <1>3 DEF Known!App
<1>5. x1 = TRUE /\ x4 = Known!NotYet /\ DOMAIN x6 = Guests /\ DOMAIN x3 = Stored
  BY <1>1, <1>2 DEF Known!Init
<1>6. x5 \in [Guests -> [inuse : BOOLEAN, hellos : Nat]] /\ \A c \in Guests : x5[c].inuse = FALSE
  BY <1>1 DEF Known!Init, Known!Empty
<1>7. Known!Types /\ Known!ServedOnly /\ Known!TuningIsSeen
  BY <1>4, <1>5, <1>6 DEF Known!Types, Known!ServedOnly, Known!TuningIsSeen
<1>8. QED
  BY <1>6, <1>7 DEF Known!KnowInv, Known!Greeted

\* Without a server nobody knows anything.
LEMMA UnservedKeeps ==
  ASSUME Known!Types', ~x1', \A c \in Guests : ~x5'[c].inuse
  PROVE  Known!KnowInv'
BY DEF Known!KnowInv, Known!ServedOnly, Known!TuningIsSeen, Known!Greeted

LEMMA AloudKeeps ==
  ASSUME Known!KnowInv, NEW a \in Known!App, Known!Aloud(a), x1' = x1, x3' = x3, x5' = x5
  PROVE  Known!KnowInv'
<1>1. CASE x1
  <2>1. Known!News(x4, a) \cup {} = Known!News(x4, a)
    OBVIOUS
  <2>2. /\ x6' = Known!Broadcast(x6, Known!News(x4, a) \cup {}, a, x3) /\ x4' = a
        /\ x7' = x7 \ (Known!News(x4, a) \cup {}) /\ x2' = a
    BY <1>1, <2>1 DEF Known!Aloud, Known!Look
  <2>3. {} \in SUBSET Known!Watched
    OBVIOUS
  <2>4. QED
    BY <2>2, <2>3, LookKeeps
<1>2. CASE ~x1
  <2>1. x2' = a /\ x4' = x4 /\ x6' = x6
    BY <1>2 DEF Known!Aloud
  <2>2. Known!Types'
    BY <2>1 DEF Known!KnowInv, Known!Types, Known!App, Known!NotYet
  <2>3. QED
    BY <1>2, <2>2, UnservedKeeps DEF Known!KnowInv, Known!ServedOnly
<1>3. QED
  BY <1>1, <1>2

LEMMA ReporterKeeps == ASSUME Known!KnowInv, Known!Reporter PROVE Known!KnowInv'
<1>1. /\ x6' = Known!Broadcast(x6, Known!News(x4, x2) \cup {}, x2, x3) /\ x4' = x2
      /\ x7' = x7 \ (Known!News(x4, x2) \cup {}) /\ x2' = x2 /\ x1' = x1 /\ x3' = x3 /\ x5' = x5
  <2>1. Known!News(x4, x2) \cup {} = Known!News(x4, x2)
    OBVIOUS
  <2>2. QED
    BY <2>1 DEF Known!Reporter, Known!Look
<1>2. x2 \in Known!App
  BY KnowTypes
<1>3. {} \in SUBSET Known!Watched
  OBVIOUS
<1>4. QED
  BY <1>1, <1>2, <1>3, LookKeeps

LEMMA LookAndAnswerKeeps ==
  ASSUME Known!KnowInv, NEW a \in Known!App, NEW items \in SUBSET Known!Watched,
         Known!LookAndAnswer(items, a), x2' = a, x1' = x1, x3' = x3, x5' = x5
  PROVE  Known!KnowInv'
<1>1. /\ x6' = Known!Broadcast(x6, Known!News(x4, a) \cup items, a, x3) /\ x4' = a
      /\ x7' = x7 \ (Known!News(x4, a) \cup items)
  BY DEF Known!LookAndAnswer
<1>2. QED
  BY <1>1, LookKeeps

LEMMA AnsweredKeeps ==
  ASSUME Known!KnowInv, NEW a \in Known!App, NEW items \in SUBSET Known!Items, NEW e, DOMAIN e = Stored,
         \A i \in Known!Tuning : Known!Reading(a, i) = Known!Reading(x2, i),
         \A i \in Stored \ items : e[i] = x3[i],
         Known!Answer(items, a, e), x2' = a, x1' = x1, x3' = e, x5' = x5
  PROVE  Known!KnowInv'
<1>1. /\ x6' = Known!Broadcast(x6, items, a, e) /\ x4' = x4
      /\ x7' = (x7 \ items) \cup (items \cap Known!News(x4, a))
  BY DEF Known!Answer, Known!Unseen
<1>2. QED
  BY <1>1, AnswerKeeps

LEMMA SilentlyKeeps ==
  ASSUME Known!KnowInv, NEW a \in Known!App,
         \A i \in Known!Tuning : Known!Reading(a, i) = Known!Reading(x2, i),
         Known!Silently(a), x1' = x1, x3' = x3, x5' = x5
  PROVE  Known!KnowInv'
<1>1. x2' = a /\ x4' = x4 /\ x6' = x6 /\ x7' = x7
  BY DEF Known!Silently
<1>2. QED
  BY <1>1, SilenceKeeps

LEMMA OperatorTunesKeeps == ASSUME Known!KnowInv, Known!OperatorTunes PROVE Known!KnowInv'
<1>1. x1' = x1 /\ x3' = x3 /\ x5' = x5 /\ x2 \in Known!App
  BY KnowTypes DEF Known!OperatorTunes
<1>2. ASSUME NEW f \in Tunings, Known!Aloud(Known!Tuned(f)) PROVE Known!KnowInv'
  <2>1. Known!Tuned(f) \in Known!App
    BY <1>1, ClientConstants, TunedType
  <2>2. QED
    BY <1>1, <1>2, <2>1, AloudKeeps
<1>3. ASSUME NEW c \in Tunings, Known!Aloud(Known!Centred(x2, c)) PROVE Known!KnowInv'
  <2>1. Known!Centred(x2, c) \in Known!App
    BY <1>1, ClientConstants, CentredType
  <2>2. QED
    BY <1>1, <1>3, <2>1, AloudKeeps
<1>4. ASSUME Known!Aloud([x2 EXCEPT !.ofreq = x2.freq]) PROVE Known!KnowInv'
  <2>1. [x2 EXCEPT !.ofreq = x2.freq] \in Known!App
    BY <1>1 DEF Known!App
  <2>2. QED
    BY <1>1, <1>4, <2>1, AloudKeeps
<1>5. ASSUME Known!Aloud([x2 EXCEPT !.ctun = ~@, !.centre = IF x2.ctun THEN x2.freq ELSE @]) PROVE Known!KnowInv'
  <2> DEFINE k == ~x2.ctun
             c == IF x2.ctun THEN x2.freq ELSE x2.centre
             a == [x2 EXCEPT !.ctun = k, !.centre = c]
  <2>1. k \in BOOLEAN
    OBVIOUS
  <2>2. c \in Int
    BY <1>1, AppFields
  <2>3. Known!Aloud(a)
    BY <1>5
  <2> HIDE DEF k, c
  <2>4. a \in Known!App
    BY <1>1, <2>1, <2>2 DEF Known!App
  <2> HIDE DEF a
  <2>5. QED
    BY <1>1, <2>3, <2>4, AloudKeeps
<1>6. QED
  BY <1>2, <1>3, <1>4, <1>5 DEF Known!OperatorTunes

LEMMA OperatorSwapsKeeps ==
  ASSUME Known!KnowInv, NEW m \in Emissions, NEW w \in Widths, Known!OperatorSwaps(m, w)
  PROVE  Known!KnowInv'
<1> DEFINE f == IF x2.ofreq > 0 THEN x2.ofreq ELSE x2.freq
           t == Known!Tuned(f)
           n == IF m = x2.mode THEN t.width ELSE w
           a == [t EXCEPT !.ofreq = x2.freq, !.mode = m, !.width = n]
<1>1. x1' = x1 /\ x3' = x3 /\ x5' = x5 /\ x2 \in Known!App
  BY KnowTypes DEF Known!OperatorSwaps
<1>2. Known!Aloud([Known!Tuned(f) EXCEPT !.ofreq = x2.freq, !.mode = m, !.width = IF m = x2.mode THEN @ ELSE w])
  BY DEF Known!OperatorSwaps
<1>3. Known!Aloud(a)
  BY <1>2
<1>4. f \in Int /\ x2.freq \in Int
  BY <1>1, AppFields
<1> HIDE DEF f
<1>5. t \in Known!App
  BY <1>1, <1>4, TunedType
<1> HIDE DEF t
<1>6. n \in Widths
  BY <1>5, AppFields
<1> HIDE DEF n
<1>7. a \in Known!App
  BY <1>4, <1>5, <1>6 DEF Known!App
<1> HIDE DEF a
<1>8. QED
  BY <1>1, <1>3, <1>7, AloudKeeps

LEMMA OperatorSetsKeeps == ASSUME Known!KnowInv, Known!OperatorSets PROVE Known!KnowInv'
<1>1. x1' = x1 /\ x3' = x3 /\ x5' = x5 /\ x2 \in Known!App
  BY KnowTypes DEF Known!OperatorSets
<1>2. ASSUME NEW m \in Emissions, NEW w \in Widths, Known!Silently(Known!ModeSet(m, w)) PROVE Known!KnowInv'
  BY <1>1, <1>2, ModeSetIs, SilentlyKeeps
<1>3. ASSUME NEW w \in Widths, Known!Silently([x2 EXCEPT !.width = w]) PROVE Known!KnowInv'
  BY <1>1, <1>3, WidthSetIs, SilentlyKeeps
<1>4. ASSUME NEW i \in Polled, NEW v \in Amounts, Known!Silently([x2 EXCEPT !.set[i] = v]) PROVE Known!KnowInv'
  BY <1>1, <1>4, AmountSetIs, SilentlyKeeps
<1>5. QED
  BY <1>2, <1>3, <1>4 DEF Known!OperatorSets

LEMMA KeyFollowsKeeps == ASSUME Known!KnowInv, Known!KeyFollows PROVE Known!KnowInv'
<1>1. x1' = x1 /\ x3' = x3 /\ x5' = x5 /\ x2 \in Known!App /\ Known!Silently([x2 EXCEPT !.keyed = ~@])
  BY KnowTypes DEF Known!KeyFollows
<1>2. QED
  BY <1>1, KeyedIs, SilentlyKeeps

LEMMA StopKeeps == ASSUME Known!KnowInv, Known!Stop PROVE Known!KnowInv'
<1>1. /\ x1' = FALSE /\ x5' = [c \in Guests |-> [x5[c] EXCEPT !.inuse = FALSE]]
      /\ x2' = x2 /\ x3' = x3 /\ x4' = x4 /\ x6' = x6
  BY DEF Known!Stop
<1>2. x5 \in [Guests -> [inuse : BOOLEAN, hellos : Nat]]
  BY DEF Known!KnowInv, Known!Types
<1>3. x5' \in [Guests -> [inuse : BOOLEAN, hellos : Nat]] /\ \A c \in Guests : x5'[c].inuse = FALSE
  BY <1>1, <1>2
<1>4. x1' \in BOOLEAN
  BY <1>1
<1>5. Known!Types'
  BY <1>1, <1>3, <1>4 DEF Known!KnowInv, Known!Types, Known!App, Known!NotYet
<1>6. QED
  BY <1>1, <1>3, <1>5, UnservedKeeps

LEMMA StartKeepsClients == ASSUME Known!KnowInv, NEW v \in Amounts, Known!Start(v) PROVE Known!KnowInv'
<1>1. ~x1 /\ x1' = TRUE /\ x4' = Known!NotYet /\ x2' = x2 /\ x5' = x5 /\ x6' = x6 /\ DOMAIN x3' = Stored
  BY DEF Known!Start
<1>2. \A c \in Guests : ~x5'[c].inuse
  BY <1>1 DEF Known!KnowInv, Known!ServedOnly
<1>3. x4' = Known!NotYet'
  BY <1>1 DEF Known!NotYet
<1>4. Known!Types'
  BY <1>1, <1>3 DEF Known!KnowInv, Known!Types, Known!App
<1>5. Known!TuningIsSeen'
  BY <1>1, SeenNext
<1>6. QED
  BY <1>1, <1>2, <1>4, <1>5 DEF Known!KnowInv, Known!ServedOnly, Known!Greeted

LEMMA EstablishedKeeps == ASSUME Known!KnowInv, NEW g \in Guests, Known!Established(g) PROVE Known!KnowInv'
<1>1. /\ x5' = [x5 EXCEPT ![g] = [inuse |-> TRUE, hellos |-> x5[g].hellos + 1]]
      /\ x6' = [x6 EXCEPT ![g] = [i \in Known!Items |-> Nothing]]
      /\ x1 /\ x1' = x1 /\ x2' = x2 /\ x3' = x3 /\ x4' = x4 /\ x7' = x7
  BY DEF Known!Established
<1>2. x5 \in [Guests -> [inuse : BOOLEAN, hellos : Nat]] /\ DOMAIN x6 = Guests
  BY DEF Known!KnowInv, Known!Types
<1>3. x5[g].hellos \in Nat
  BY <1>2
<1>4. x5' \in [Guests -> [inuse : BOOLEAN, hellos : Nat]] /\ x5'[g].hellos = x5[g].hellos + 1
  BY <1>1, <1>2, <1>3
<1>5. DOMAIN x6' = Guests
  BY <1>1, <1>2
<1>6. Known!Types'
  BY <1>1, <1>4, <1>5 DEF Known!KnowInv, Known!Types, Known!App, Known!NotYet
<1>7. Known!ServedOnly'
  BY <1>1 DEF Known!ServedOnly
<1>8. Known!TuningIsSeen'
  BY <1>1, SeenNext DEF Known!KnowInv, Known!TuningIsSeen
<1>9. ASSUME NEW c \in Guests, Known!Greeted(c)' PROVE Known!Knows(c)'
  <2>1. c # g
    BY <1>3, <1>4, <1>9 DEF Known!Greeted
  <2>2. x5'[c] = x5[c] /\ x6'[c] = x6[c]
    BY <1>1, <1>2, <2>1
  <2>3. Known!Knows(c)
    BY <1>1, <1>9, <2>2 DEF Known!KnowInv, Known!Greeted
  <2>4. QED
    BY <1>1, <2>2, <2>3, KnowsNext DEF Known!Knows
<1>10. QED
  BY <1>6, <1>7, <1>8, <1>9 DEF Known!KnowInv

LEMMA SendInitialKeeps == ASSUME Known!KnowInv, NEW g \in Guests, Known!SendInitial(g) PROVE Known!KnowInv'
<1> DEFINE told == [i \in Known!Items |-> Known!Value(i)]
<1>1. /\ x5[g].hellos > 0 /\ x5' = [x5 EXCEPT ![g].hellos = @ - 1]
      /\ x1' = x1 /\ x2' = x2 /\ x3' = x3 /\ x4' = x4
      /\ IF x1 /\ x5[g].inuse
         THEN x6' = [x6 EXCEPT ![g] = told] /\ x7' = x7 \cup (Known!Watched \cap Known!News(x4, x2))
         ELSE x6' = x6 /\ x7' = x7
  BY DEF Known!SendInitial, Known!Unseen
<1>2. x5 \in [Guests -> [inuse : BOOLEAN, hellos : Nat]] /\ DOMAIN x6 = Guests /\ x1 \in BOOLEAN
  BY DEF Known!KnowInv, Known!Types
<1>3. x5[g].hellos - 1 \in Nat
  BY <1>1, <1>2
<1>4. x5' \in [Guests -> [inuse : BOOLEAN, hellos : Nat]] /\ \A c \in Guests : x5'[c].inuse = x5[c].inuse
  BY <1>1, <1>2, <1>3
<1>5. \A c \in Guests : c # g => x5'[c] = x5[c]
  BY <1>1, <1>2
<1>6. DOMAIN x6' = Guests /\ \A c \in Guests : c # g => x6'[c] = x6[c]
  BY <1>1, <1>2
<1> HIDE DEF told
<1>7. Known!Types'
  BY <1>1, <1>4, <1>6 DEF Known!KnowInv, Known!Types, Known!App, Known!NotYet
<1>8. Known!ServedOnly'
  BY <1>1, <1>4 DEF Known!KnowInv, Known!ServedOnly
<1>9. Known!TuningIsSeen'
  <2>1. ASSUME NEW i \in Known!Tuning, x1, x4 # Known!NotYet
        PROVE  Known!Reading(x4, i) = Known!Reading(x2, i) /\ i \notin x7'
    <3>1. Known!Reading(x4, i) = Known!Reading(x2, i) /\ i \notin x7
      BY <2>1 DEF Known!KnowInv, Known!TuningIsSeen
    <3>2. i \notin Known!News(x4, x2)
      BY <2>1, <3>1, NewsIs, ClientConstants
    <3>3. QED
      BY <1>1, <3>1, <3>2
  <2>2. QED
    BY <1>1, <2>1, SeenNext
<1>10. ASSUME NEW c \in Guests, Known!Greeted(c)' PROVE Known!Knows(c)'
  <2>1. x1 /\ x5[c].inuse
    BY <1>1, <1>4, <1>10 DEF Known!Greeted
  <2>2. CASE c = g
    <3>1. x6'[c] = told /\ x7' = x7 \cup (Known!Watched \cap Known!News(x4, x2))
      BY <1>1, <1>2, <2>1, <2>2
    <3>2. \A i \in Known!Items : x6'[c][i] = IF i \in Stored THEN x3[i] ELSE Known!Reading(x2, i)
      BY <3>1 DEF told, Known!Value
    <3>3. \A i \in Stored : x6'[c][i] = x3'[i]
      BY <1>1, <3>2, ClientConstants
    <3>4. \A i \in Known!Watched : x6'[c][i] = Known!Reading(x2, i)
      BY <3>2, ClientConstants
    <3>5. ASSUME NEW i \in Known!Watched PROVE x4 = Known!NotYet \/ i \in x7' \/ x6'[c][i] = Known!Reading(x4, i)
      BY <3>1, <3>4, <3>5, NewsIs
    <3>6. QED
      BY <1>1, <3>3, <3>4, <3>5, KnowsNext, ClientConstants
  <2>3. CASE c # g
    <3>1. x5'[c] = x5[c] /\ x6'[c] = x6[c]
      BY <1>5, <1>6, <2>3
    <3>2. Known!Knows(c)
      BY <1>1, <1>10, <3>1 DEF Known!KnowInv, Known!Greeted
    <3>3. x7 \subseteq x7'
      BY <1>1
    <3>4. QED
      BY <1>1, <3>1, <3>2, <3>3, KnowsNext DEF Known!Knows
  <2>4. QED
    BY <2>2, <2>3
<1>11. QED
  BY <1>7, <1>8, <1>9, <1>10 DEF Known!KnowInv

LEMMA ClosedKeeps == ASSUME Known!KnowInv, NEW g \in Guests, Known!Closed(g) PROVE Known!KnowInv'
<1>1. /\ x5' = [x5 EXCEPT ![g].inuse = FALSE]
      /\ x1 /\ x1' = x1 /\ x2' = x2 /\ x3' = x3 /\ x4' = x4 /\ x6' = x6 /\ x7' = x7
  BY DEF Known!Closed
<1>2. x5 \in [Guests -> [inuse : BOOLEAN, hellos : Nat]]
  BY DEF Known!KnowInv, Known!Types
<1>3. x5' \in [Guests -> [inuse : BOOLEAN, hellos : Nat]] /\ x5'[g].inuse = FALSE
      /\ \A c \in Guests : c # g => x5'[c] = x5[c]
  BY <1>1, <1>2
<1>4. Known!Types'
  BY <1>1, <1>3 DEF Known!KnowInv, Known!Types, Known!App, Known!NotYet
<1>5. Known!ServedOnly'
  BY <1>1 DEF Known!ServedOnly
<1>6. Known!TuningIsSeen'
  BY <1>1, SeenNext DEF Known!KnowInv, Known!TuningIsSeen
<1>7. ASSUME NEW c \in Guests, Known!Greeted(c)' PROVE Known!Knows(c)'
  <2>1. x5'[c] = x5[c]
    BY <1>3, <1>7 DEF Known!Greeted
  <2>2. Known!Knows(c)
    BY <1>1, <1>7, <2>1 DEF Known!KnowInv, Known!Greeted
  <2>3. QED
    BY <1>1, <2>2, KnowsNext DEF Known!Knows
<1>8. QED
  BY <1>4, <1>5, <1>6, <1>7 DEF Known!KnowInv

LEMMA StaysWatched ==
  /\ {"dds", "if", "vfo"} \subseteq Known!Watched /\ {"vfo_b"} \subseteq Known!Watched
  /\ {"if", "vfo"} \subseteq Known!Watched /\ {"modulation"} \subseteq Known!Watched
  /\ {"rx_filter_band"} \subseteq Known!Watched /\ {"trx"} \subseteq Known!Watched
  /\ Polled \subseteq Known!Watched
BY DEF Known!Watched, Known!Fixed, Known!Tuning

\* A command that leaves the tuning and the echo table alone.
LEMMA SetAndAnswerKeeps ==
  ASSUME Known!KnowInv, NEW a \in Known!App, NEW items \in SUBSET Known!Watched,
         \A i \in Known!Tuning : Known!Reading(a, i) = Known!Reading(x2, i),
         Known!Answer(items, a, x3), x2' = a, Known!Commanded, x3' = x3
  PROVE  Known!KnowInv'
<1>1. x1' = x1 /\ x5' = x5
  BY DEF Known!Commanded
<1>2. DOMAIN x3 = Stored
  BY DEF Known!KnowInv, Known!Types
<1>3. items \in SUBSET Known!Items
  BY ClientConstants
<1>4. \A i \in Stored \ items : x3[i] = x3[i]
  OBVIOUS
<1>5. QED
  BY <1>1, <1>2, <1>3, <1>4, AnsweredKeeps

LEMMA VfoOrDdsKeeps == ASSUME Known!KnowInv, Known!VfoOrDds PROVE Known!KnowInv'
<1>1. x1' = x1 /\ x3' = x3 /\ x5' = x5
  BY DEF Known!VfoOrDds, Known!Commanded
<1>2. PICK f \in Tunings : \E a \in {Known!Tuned(f), Known!DdsSet(f)} :
        x2' = a /\ Known!LookAndAnswer({"dds", "if", "vfo"}, a)
  BY Zenon DEF Known!VfoOrDds
<1>3. PICK a \in {Known!Tuned(f), Known!DdsSet(f)} : x2' = a /\ Known!LookAndAnswer({"dds", "if", "vfo"}, a)
  BY <1>2
<1>4. f \in Int
  BY ClientConstants
<1>5. a \in Known!App
  BY <1>3, <1>4, KnowTypes, TunedType, DdsSetType
<1>6. {"dds", "if", "vfo"} \in SUBSET Known!Watched
  BY StaysWatched
<1>7. QED
  BY <1>1, <1>3, <1>5, <1>6, LookAndAnswerKeeps

LEMMA IfOffsetKeeps == ASSUME Known!KnowInv, NEW f \in Tunings, Known!IfOffset(f) PROVE Known!KnowInv'
<1>1. x1' = x1 /\ x3' = x3 /\ x5' = x5 /\ Known!Commanded
  BY DEF Known!IfOffset, Known!Commanded
<1>2. f \in Int
  BY ClientConstants
<1>3. {"if", "vfo"} \in SUBSET Known!Watched
  BY StaysWatched
<1>4. CASE f = x2.freq
  <2>1. x2' = x2 /\ Known!Answer({"if", "vfo"}, x2, x3)
    BY <1>4 DEF Known!IfOffset
  <2>2. x2 \in Known!App
    BY KnowTypes
  <2>3. QED
    BY <1>1, <1>3, <2>1, <2>2, SetAndAnswerKeeps
<1>5. CASE f # x2.freq
  <2>1. x2' = Known!Tuned(f) /\ Known!LookAndAnswer({"if", "vfo"}, Known!Tuned(f))
    BY <1>5 DEF Known!IfOffset
  <2>2. Known!Tuned(f) \in Known!App
    BY <1>2, KnowTypes, TunedType
  <2>3. QED
    BY <1>1, <1>3, <2>1, <2>2, LookAndAnswerKeeps
<1>6. QED
  BY <1>4, <1>5

LEMMA VfoBKeeps == ASSUME Known!KnowInv, NEW f \in Tunings, Known!VfoB(f) PROVE Known!KnowInv'
<1> DEFINE a == [x2 EXCEPT !.ofreq = f]
<1>1. /\ x1' = x1 /\ x3' = x3 /\ x5' = x5
      /\ x2' = a /\ Known!LookAndAnswer({"vfo_b"}, a)
  BY DEF Known!VfoB, Known!Commanded
<1>2. f \in Int /\ x2 \in Known!App
  BY ClientConstants, KnowTypes
<1>3. a \in Known!App
  BY <1>2 DEF Known!App
<1>4. {"vfo_b"} \in SUBSET Known!Watched
  BY StaysWatched
<1> HIDE DEF a
<1>5. QED
  BY <1>1, <1>3, <1>4, LookAndAnswerKeeps

LEMMA ModulationKeeps == ASSUME Known!KnowInv, Known!Modulation PROVE Known!KnowInv'
<1>1. Known!Commanded /\ x3' = x3
  BY DEF Known!Modulation
<1>2. PICK m \in Emissions, w \in Widths : \E a \in {x2, Known!ModeSet(m, w)} :
        x2' = a /\ Known!Answer({"modulation"}, a, x3)
  BY Zenon DEF Known!Modulation
<1>3. PICK a \in {x2, Known!ModeSet(m, w)} : x2' = a /\ Known!Answer({"modulation"}, a, x3)
  BY <1>2
<1>4. a \in Known!App /\ \A i \in Known!Tuning : Known!Reading(a, i) = Known!Reading(x2, i)
  BY <1>3, KnowTypes, ModeSetIs
<1>5. {"modulation"} \in SUBSET Known!Watched
  BY StaysWatched
<1>6. QED
  BY <1>1, <1>3, <1>4, <1>5, SetAndAnswerKeeps

LEMMA FilterBandKeeps == ASSUME Known!KnowInv, NEW w \in Widths, Known!FilterBand(w) PROVE Known!KnowInv'
<1> DEFINE a == [x2 EXCEPT !.width = w]
<1>1. Known!Commanded /\ x3' = x3 /\ x2' = a /\ Known!Answer({"rx_filter_band"}, a, x3)
  BY DEF Known!FilterBand
<1>2. a \in Known!App /\ \A i \in Known!Tuning : Known!Reading(a, i) = Known!Reading(x2, i)
  BY KnowTypes, WidthSetIs
<1>3. {"rx_filter_band"} \in SUBSET Known!Watched
  BY StaysWatched
<1> HIDE DEF a
<1>4. QED
  BY <1>1, <1>2, <1>3, SetAndAnswerKeeps

LEMMA SettingKeeps ==
  ASSUME Known!KnowInv, NEW p \in Polled, NEW v \in Amounts, Known!Setting(p, v)
  PROVE  Known!KnowInv'
<1> DEFINE a == [x2 EXCEPT !.set[p] = v]
<1>1. Known!Commanded /\ x3' = x3 /\ x2' = a /\ Known!Answer({p}, a, x3)
  BY DEF Known!Setting
<1>2. a \in Known!App /\ \A i \in Known!Tuning : Known!Reading(a, i) = Known!Reading(x2, i)
  BY KnowTypes, AmountSetIs
<1>3. {p} \in SUBSET Known!Watched
  BY StaysWatched
<1> HIDE DEF a
<1>4. QED
  BY <1>1, <1>2, <1>3, SetAndAnswerKeeps

LEMMA TrxKeeps == ASSUME Known!KnowInv, Known!Trx PROVE Known!KnowInv'
<1>1. Known!Commanded /\ x3' = x3 /\ x2' = x2 /\ Known!Answer({"trx"}, x2, x3)
  BY DEF Known!Trx
<1>2. x2 \in Known!App
  BY KnowTypes
<1>3. {"trx"} \in SUBSET Known!Watched
  BY StaysWatched
<1>4. QED
  BY <1>1, <1>2, <1>3, SetAndAnswerKeeps

LEMMA EchoExecKeeps ==
  ASSUME Known!KnowInv, NEW p \in Stored, NEW v \in Amounts, Known!EchoExec(p, v)
  PROVE  Known!KnowInv'
<1> DEFINE e == [x3 EXCEPT ![p] = v]
<1>1. x1' = x1 /\ x5' = x5 /\ x2' = x2 /\ x3' = e /\ Known!Answer({p}, x2, x3')
  BY DEF Known!EchoExec, Known!Commanded
<1>2. DOMAIN x3 = Stored
  BY DEF Known!KnowInv, Known!Types
<1>3. DOMAIN e = Stored /\ \A i \in Stored \ {p} : e[i] = x3[i]
  BY <1>2
<1>4. Known!Answer({p}, x2, e)
  BY <1>1
<1>5. x2 \in Known!App /\ {p} \in SUBSET Known!Items
  BY KnowTypes, ClientConstants
<1> HIDE DEF e
<1>6. QED
  BY <1>1, <1>3, <1>4, <1>5, AnsweredKeeps

LEMMA ClientStep == ASSUME Known!KnowInv, part = "clients", Next PROVE Known!KnowInv'
<1>1. CASE Known!OperatorTunes
  BY <1>1, OperatorTunesKeeps
<1>2. CASE Known!OperatorSets
  BY <1>2, OperatorSetsKeeps
<1>3. CASE \E m \in Emissions, w \in Widths : Known!OperatorSwaps(m, w)
  BY <1>3, OperatorSwapsKeeps
<1>4. CASE Known!KeyFollows
  BY <1>4, KeyFollowsKeeps
<1>5. CASE Known!Reporter
  BY <1>5, ReporterKeeps
<1>6. CASE Known!Stop
  BY <1>6, StopKeeps
<1>7. CASE \E v \in Amounts : Known!Start(v)
  BY <1>7, StartKeepsClients
<1>8. CASE \E c \in Guests : Known!Established(c) \/ Known!SendInitial(c) \/ Known!Closed(c)
  BY <1>8, EstablishedKeeps, SendInitialKeeps, ClosedKeeps
<1>9. CASE Known!VfoOrDds
  BY <1>9, VfoOrDdsKeeps
<1>10. CASE Known!Modulation
  BY <1>10, ModulationKeeps
<1>11. CASE Known!Trx
  BY <1>11, TrxKeeps
<1>12. CASE \E f \in Tunings : Known!IfOffset(f) \/ Known!VfoB(f)
  BY <1>12, IfOffsetKeeps, VfoBKeeps
<1>13. CASE \E w \in Widths : Known!FilterBand(w)
  BY <1>13, FilterBandKeeps
<1>14. CASE \E i \in Polled, v \in Amounts : Known!Setting(i, v)
  BY <1>14, SettingKeeps
<1>15. CASE \E i \in Stored, v \in Amounts : Known!EchoExec(i, v)
  BY <1>15, EchoExecKeeps
<1>16. QED
  BY <1>1, <1>2, <1>3, <1>4, <1>5, <1>6, <1>7, <1>8, <1>9, <1>10, <1>11, <1>12, <1>13, <1>14, <1>15, ClientSteps

\* The invariant says what a greeted client may be wrong on.
LEMMA KnowInvCovers == ASSUME Known!KnowInv PROVE Known!ClientsKnow
<1> SUFFICES ASSUME NEW c \in Guests, Known!Greeted(c), NEW i \in Known!Items
             PROVE  \/ x6[c][i] = Known!Value(i)
                    \/ i \in Known!Watched \ Known!Tuning /\ i \in Known!News(x4, x2) \cup x7
  BY DEF Known!ClientsKnow, Known!Greeted
<1>1. Known!Knows(c)
  BY DEF Known!KnowInv
<1>2. CASE i \in Stored
  BY <1>1, <1>2 DEF Known!Knows, Known!Value
<1>3. CASE i \in Known!Tuning
  <2>1. i \notin Stored
    BY <1>3, ClientConstants
  <2>2. QED
    BY <1>1, <1>3, <2>1 DEF Known!Knows, Known!Value
<1>4. CASE i \in Known!Watched \ Known!Tuning
  <2>1. i \notin Stored
    BY <1>4, ClientConstants
  <2>2. Known!Value(i) = Known!Reading(x2, i)
    BY <2>1 DEF Known!Value
  <2>3. x4 = Known!NotYet \/ i \in x7 \/ x6[c][i] = Known!Reading(x4, i)
    BY <1>1, <1>4 DEF Known!Knows
  <2>4. i \in Known!News(x4, x2) <=> x4 = Known!NotYet \/ Known!Reading(x4, i) # Known!Reading(x2, i)
    BY <1>4, NewsIs
  <2>5. QED
    BY <1>4, <2>2, <2>3, <2>4
<1>5. QED
  BY <1>2, <1>3, <1>4, ClientConstants

\* Whatever the operator, the transmit thread and the clients do, a client that was
\* greeted knows each item as it is, or the reporter's next look announces it, or it was
\* announced and changed back behind the reporter's back: tci_reporter against tci_exec.
THEOREM TheClientsKnow == Spec => []ClientsKnow
<1> DEFINE I == part = "clients" => Known!KnowInv
<1>1. Init => I
  BY ClientStart
<1>2. I /\ [Next]_vars => I'
  <2> SUFFICES ASSUME I, [Next]_vars, part' = "clients" PROVE Known!KnowInv'
    BY PartStays
  <2>1. part = "clients" /\ Known!KnowInv
    BY PartStays
  <2>2. CASE Next
    BY <2>1, <2>2, ClientStep
  <2>3. CASE UNCHANGED vars
    <3>1. x2' = x2 /\ x1' = x1 /\ x3' = x3 /\ x4' = x4 /\ x5' = x5 /\ x6' = x6 /\ x7' = x7
      BY <2>3 DEF vars
    <3>2. x2 \in Known!App
      BY <2>1, KnowTypes
    <3>3. QED
      BY <2>1, <3>1, <3>2, SilenceKeeps
  <2>4. QED
    BY <2>2, <2>3
<1>3. I => ClientsKnow
  BY KnowInvCovers DEF ClientsKnow
<1>4. QED
  BY <1>1, <1>2, <1>3, PTL DEF Spec

-----------------------------------------------------------------------------
(* The audio of an over.  x1 is want, x2 mode, x3 ext, x4 main, x5 mic,    *)
(* x6 client, x7 over, x8 pc, x9 pull, x10 byClient, x11 pure, x12 mark,   *)
(* x13 old, x14 fromMic.                                                   *)

LEMMA AudioSteps ==
  ASSUME part = "audio", Next
  PROVE  \/ \E w \in SUBSET {"mox", "tune"} : Fed!OperatorKeys(w)
         \/ \E m \in {"voice", "digi", "gen"} : Fed!ModeSet(m)
         \/ Fed!ClientKeys \/ Fed!ThenTheKey \/ Fed!ClientReleases \/ Fed!ThenTheSource
         \/ Fed!ThenTheRest \/ Fed!Captured \/ Fed!ClientSends
         \/ (\E allowed \in BOOLEAN : Fed!Slot(allowed)) \/ Fed!Feed \/ Fed!Take
BY DEF Next

LEMMA AudioConstants == Keep \in Nat \ {0} /\ MicRing \in Nat /\ ExtRing \in Nat /\ Keep < MicRing
BY PartAssumptions DEF Fed!AudioAssumption

LEMMA QueuedType ==
  ASSUME NEW r \in [head : Int, tail : Int]
  PROVE  Fed!Queued(r) \in Int /\ (Fed!Queued(r) <= Keep => r.head - r.tail <= Keep)
BY AudioConstants DEF Fed!Queued

\* mic_flush leaves Keep samples at most.
LEMMA FlushedIs ==
  ASSUME NEW r \in [head : Int, tail : Int]
  PROVE  LET f == Fed!Flushed(r)
         IN  f \in [head : Int, tail : Int] /\ f.head = r.head /\ f.head - f.tail <= Keep
<1>1. CASE Fed!Queued(r) > Keep
  <2>1. Fed!Flushed(r) = [head |-> r.head, tail |-> r.head - Keep]
    BY <1>1 DEF Fed!Flushed
  <2>2. QED
    BY <2>1, AudioConstants
<1>2. CASE ~(Fed!Queued(r) > Keep)
  <2>1. Fed!Flushed(r) = r
    BY <1>2 DEF Fed!Flushed
  <2>2. Fed!Queued(r) <= Keep
    BY <1>2, QueuedType, AudioConstants
  <2>3. QED
    BY <2>1, <2>2, QueuedType
<1>3. QED
  BY <1>1, <1>2

LEMMA CappedIs ==
  ASSUME NEW n \in Nat
  PROVE  Fed!Capped(n) \in Nat /\ Fed!Capped(n) <= n /\ (n <= 2 => Fed!Capped(n) = n)
BY AudioConstants DEF Fed!Capped

LEMMA OversStart == ASSUME part = "audio", Init PROVE Fed!OversInv
<1>1. Fed!Init
  BY DEF Init
<1>2. Fed!Types /\ Fed!Places
  <2>1. /\ x5 = [head |-> 0, tail |-> 0] /\ x6 = [head |-> 0, tail |-> 0] /\ x12 = [mic |-> 0, client |-> 0]
        /\ x9 = [of |-> "none", at |-> 0, n |-> 0] /\ x4 = [at |-> "idle", to |-> 0] /\ x3 = FALSE
        /\ x13 = 0 /\ x14 = 0 /\ x11 = FALSE /\ x10 = FALSE /\ x8 = "top"
    BY <1>1 DEF Fed!Init, Fed!Idle, Fed!NoPull
  <2>2. x3 \in BOOLEAN /\ x11 \in BOOLEAN /\ x10 \in BOOLEAN
    BY <2>1
  <2>a. /\ x5 \in [head : Int, tail : Int] /\ x6 \in [head : Int, tail : Int]
        /\ x12 \in [mic : Int, client : Int] /\ x9 \in [of : {"none", "mic", "client"}, at : Int, n : {0, 1}]
        /\ x4 \in [at : {"idle", "key", "off", "drop"}, to : Int] /\ x13 \in Nat /\ x14 \in Nat
    BY <2>1
  <2>b. Fed!Types
    BY <2>2, <2>a DEF Fed!Types
  <2>3. Fed!Places
    BY <2>1 DEF Fed!Places, Fed!NoPull
  <2>4. QED
    BY <2>b, <2>3
<1>3. QED
  BY <1>1, <1>2 DEF Fed!Init, Fed!OversInv

\* What touches an over in another way than by its key ends what can be said of it.
LEMMA MeddlingKeeps == ASSUME Fed!Types', Fed!Places', x11' = FALSE PROVE Fed!OversInv'
BY DEF Fed!OversInv

LEMMA OversStep == ASSUME Fed!OversInv, part = "audio", [Next]_vars PROVE Fed!OversInv'
<1> USE DEF Fed!OversInv
<1>1. ASSUME NEW w \in SUBSET {"mox", "tune"}, Fed!OperatorKeys(w) PROVE Fed!OversInv'
  <2>a. /\ UNCHANGED <<x3, x4, x5, x6, x7, x8, x9, x10, x12, x13, x14>> /\ x11' = FALSE
        /\ x4 = [at |-> "idle", to |-> 0]
    BY <1>1 DEF Fed!OperatorKeys, Fed!Meddle, Fed!Moves, Fed!Idle
  <2>b. Fed!Types'
    BY <2>a DEF Fed!Types
  <2>c. Fed!Places'
    BY <2>a DEF Fed!Places, Fed!NoPull
  <2>1. Fed!Types' /\ Fed!Places'
    BY <2>b, <2>c
  <2>2. QED
    BY <1>1, <2>1, MeddlingKeeps DEF Fed!OperatorKeys, Fed!Meddle
<1>2. ASSUME NEW m \in {"voice", "digi", "gen"}, Fed!ModeSet(m) PROVE Fed!OversInv'
  <2>a. x5' \in [head : Int, tail : Int] /\ UNCHANGED <<x1, x3, x4, x6, x7, x8, x9, x10, x12, x13, x14>>
        /\ x11' = FALSE
    BY <1>2 DEF Fed!ModeSet, Fed!Meddle, Fed!Types
  <2>1. Fed!Types' /\ Fed!Places'
    BY <2>a DEF Fed!Types, Fed!Places, Fed!NoPull
  <2>2. QED
    BY <1>2, <2>1, MeddlingKeeps DEF Fed!ModeSet, Fed!Meddle
<1>3. CASE Fed!ClientKeys
  <2>1. x4' = [at |-> "key", to |-> 0] /\ x3' = TRUE /\ UNCHANGED <<x5, x6, x7, x8, x9>>
    BY <1>3 DEF Fed!ClientKeys, Fed!Idle
  <2>2. (x7 = "rx" /\ UNCHANGED Fed!history) \/ Fed!Meddle
    BY <1>3 DEF Fed!ClientKeys
  <2>a. UNCHANGED <<x10, x12, x13, x14>> /\ (x11' = x11 \/ x11' = FALSE)
    BY <2>2 DEF Fed!Meddle, Fed!history
  <2>d. x11' \in BOOLEAN /\ x3' \in BOOLEAN
    BY <2>1, <2>a DEF Fed!Types
  <2>e. x4' \in [at : {"idle", "key", "off", "drop"}, to : Int]
    BY <2>1
  <2>b. Fed!Types'
    BY <2>1, <2>a, <2>d, <2>e DEF Fed!Types
  <2>c. Fed!Places'
    BY <2>1 DEF Fed!Places, Fed!NoPull
  <2>3. Fed!Types' /\ Fed!Places'
    BY <2>b, <2>c
  <2>4. QED
    BY <2>1, <2>2, <2>3 DEF Fed!Meddle
<1>4. CASE Fed!ThenTheKey
  <2>1. x4' = [at |-> "idle", to |-> 0] /\ x4.at = "key" /\ UNCHANGED <<x3, x5, x6, x7, x8, x9, x10, x11, x12, x13, x14>>
    BY <1>4 DEF Fed!ThenTheKey, Fed!Idle, Fed!history
  <2>2. Fed!Types' /\ Fed!Places'
    BY <2>1 DEF Fed!Types, Fed!Places, Fed!NoPull
  <2>3. x3
    BY <2>1 DEF Fed!Places
  <2>4. Fed!ClientsOver => Fed!ClientsOver'
    BY <2>1, <2>3 DEF Fed!ClientsOver
  <2>5. ~Fed!MicsOver
    BY <2>3 DEF Fed!MicsOver
  <2>6. QED
    BY <2>1, <2>2, <2>4, <2>5
<1>5. CASE Fed!ClientReleases
  <2>1. /\ x4' = [at |-> "off", to |-> 0] /\ x1' = x1 \ {"mox"} /\ x3
        /\ UNCHANGED <<x3, x5, x6, x7, x8, x9, x10, x11, x12, x13, x14>>
    BY <1>5 DEF Fed!ClientReleases, Fed!Idle, Fed!history
  <2>2. Fed!Types' /\ Fed!Places'
    BY <2>1 DEF Fed!Types, Fed!Places, Fed!NoPull
  <2>3. Fed!ClientsOver => Fed!ClientsOver'
    BY <2>1 DEF Fed!ClientsOver
  <2>4. ~Fed!MicsOver
    BY <2>1 DEF Fed!MicsOver
  <2>5. QED
    BY <2>1, <2>2, <2>3, <2>4
<1>6. CASE Fed!ThenTheSource
  <2>1. /\ x4' = [at |-> "drop", to |-> x6.head] /\ x4.at = "off" /\ x3' = FALSE
        /\ UNCHANGED <<x1, x5, x6, x7, x8, x9, x10, x11, x12, x13, x14>>
    BY <1>6 DEF Fed!ThenTheSource, Fed!history
  <2>2. Fed!Types' /\ Fed!Places'
    BY <2>1 DEF Fed!Types, Fed!Places, Fed!NoPull
  <2>4. x3 /\ "mox" \notin x1
    BY <2>1 DEF Fed!Places
  <2>3. Fed!ClientsOver => Fed!ClientsOver'
    BY <2>1, <2>4 DEF Fed!ClientsOver
  <2>5. ~Fed!MicsOver
    BY <2>4 DEF Fed!MicsOver
  <2>6. QED
    BY <2>1, <2>2, <2>3, <2>5
<1>7. CASE Fed!ThenTheRest
  <2>1. /\ x4' = [at |-> "idle", to |-> 0] /\ x4.at = "drop" /\ x6' = [x6 EXCEPT !.tail = x4.to]
        /\ UNCHANGED <<x1, x3, x5, x7, x8, x9, x10, x11, x12, x13, x14>>
    BY <1>7 DEF Fed!ThenTheRest, Fed!Idle, Fed!history
  <2>2. x6' \in [head : Int, tail : Int] /\ x6'.head = x6.head /\ x6'.tail = x4.to
    BY <2>1 DEF Fed!Types
  <2>3. Fed!Types' /\ Fed!Places'
    BY <2>1, <2>2 DEF Fed!Types, Fed!Places, Fed!NoPull
  <2>4. Fed!ClientsOver => Fed!ClientsOver'
    BY <2>1, <2>2 DEF Fed!ClientsOver
  <2>5. Fed!MicsOver => Fed!MicsOver'
    BY <2>1 DEF Fed!MicsOver
  <2>6. QED
    BY <2>1, <2>3, <2>4, <2>5
<1>8. CASE Fed!Captured
  <2>1. /\ x5' = [x5 EXCEPT !.head = @ + 1]
        /\ UNCHANGED <<x1, x3, x4, x6, x7, x8, x9, x10, x11, x12, x13, x14>>
    BY <1>8 DEF Fed!Captured, Fed!history
  <2>2. x5' \in [head : Int, tail : Int] /\ x5'.tail = x5.tail
    BY <2>1 DEF Fed!Types
  <2>3. Fed!Types' /\ Fed!Places'
    BY <2>1, <2>2 DEF Fed!Types, Fed!Places, Fed!NoPull
  <2>4. (Fed!ClientsOver => Fed!ClientsOver') /\ (Fed!MicsOver => Fed!MicsOver')
    BY <2>1, <2>2 DEF Fed!ClientsOver, Fed!MicsOver
  <2>5. QED
    BY <2>1, <2>3, <2>4
<1>9. CASE Fed!ClientSends
  <2>1. /\ x6' = [x6 EXCEPT !.head = @ + 1] /\ x3
        /\ UNCHANGED <<x1, x3, x4, x5, x7, x8, x9, x10, x11, x12, x13, x14>>
    BY <1>9 DEF Fed!ClientSends, Fed!history
  <2>2. x6' \in [head : Int, tail : Int] /\ x6'.tail = x6.tail /\ x6'.head = x6.head + 1
    BY <2>1 DEF Fed!Types
  <2>3. Fed!Types' /\ Fed!Places'
    BY <2>1, <2>2 DEF Fed!Types, Fed!Places, Fed!NoPull
  <2>4. x6.head \in Int /\ x12.client \in Int
    BY DEF Fed!Types
  <2>5. Fed!ClientsOver => Fed!ClientsOver'
    BY <2>1, <2>2, <2>4 DEF Fed!ClientsOver
  <2>6. ~Fed!MicsOver
    BY <2>1 DEF Fed!MicsOver
  <2>7. QED
    BY <2>1, <2>3, <2>5, <2>6
<1>10. ASSUME NEW allowed \in BOOLEAN, Fed!Slot(allowed) PROVE Fed!OversInv'
  <2>1. x8 = "top" /\ UNCHANGED <<x1, x2, x3, x4, x9>>
    BY <1>10 DEF Fed!Slot
  <2>2. x9 = [of |-> "none", at |-> 0, n |-> 0]
    BY <2>1 DEF Fed!Places, Fed!NoPull
  <2>3. CASE x1 = {} \/ ~allowed
    <3>1. x7' = "rx" /\ UNCHANGED <<x5, x6, x8, x10, x11, x12, x13, x14>>
      BY <1>10, <2>3 DEF Fed!Slot, Fed!KeyOff, Fed!history
    <3>2. Fed!Types' /\ Fed!Places'
      BY <2>1, <3>1 DEF Fed!Types, Fed!Places, Fed!NoPull
    <3>3. QED
      BY <3>1, <3>2
  <2>4. CASE ~(x1 = {} \/ ~allowed) /\ x7 = "rx"
    <3>1. x8' = "feed" /\ Fed!KeyOn
      BY <1>10, <2>4 DEF Fed!Slot
    <3>2. /\ x10' = x3 /\ x11' = (x7' = "mox" /\ "tune" \notin x1)
          /\ x12' = [mic |-> x5.head, client |-> x6.head] /\ x13' = 0 /\ x14' = 0
          /\ x7' = Fed!FedBy(x1)
      BY <3>1 DEF Fed!KeyOn
    <3>3. /\ x5' = x5 \/ (x7' = "mox" /\ ~x3 /\ x5' = Fed!Flushed(x5))
          /\ x6' = x6 \/ (x7' = "mox" /\ x3 /\ x6' = [x6 EXCEPT !.tail = x6.head])
          /\ x7' = "mox" /\ x3 => x6' = [x6 EXCEPT !.tail = x6.head]
          /\ x7' = "mox" /\ ~x3 => x5' = Fed!Flushed(x5)
      BY <3>1 DEF Fed!KeyOn
    <3>4. x5 \in [head : Int, tail : Int] /\ x6 \in [head : Int, tail : Int] /\ x3 \in BOOLEAN
      BY DEF Fed!Types
    <3>5. x5' \in [head : Int, tail : Int] /\ x6' \in [head : Int, tail : Int]
      BY <3>3, <3>4, FlushedIs
    <3>6. Fed!Types'
      <4>1. x11' \in BOOLEAN
        BY <3>2
      <4>2. QED
        BY <2>1, <3>2, <3>4, <3>5, <4>1 DEF Fed!Types
    <3>7. Fed!Places'
      BY <2>1, <2>2, <3>1 DEF Fed!Places, Fed!NoPull
    <3>8. x7' = "mox" => "mox" \in x1
      BY <3>2 DEF Fed!FedBy
    <3>9. ASSUME x7' = "mox", x3 PROVE Fed!ClientsOver'
      <4>1. x6' = [head |-> x6.head, tail |-> x6.head]
        BY <3>3, <3>4, <3>9
      <4>2. x4.at # "drop"
        BY <3>9 DEF Fed!Places
      <4>3. x4.at # "off"
        BY <3>8, <3>9 DEF Fed!Places
      <4>4. QED
        BY <2>1, <2>2, <3>2, <3>4, <3>8, <3>9, <4>1, <4>2, <4>3 DEF Fed!ClientsOver
    <3>10. ASSUME x7' = "mox", ~x3 PROVE Fed!MicsOver'
      <4>1. x5' = Fed!Flushed(x5)
        BY <3>3, <3>10
      <4>2. x5'.head = x5.head /\ x5'.head - x5'.tail <= Keep
        BY <3>4, <4>1, FlushedIs
      <4>3. QED
        BY <2>1, <2>2, <3>2, <3>4, <3>5, <3>10, <4>2, AudioConstants DEF Fed!MicsOver
    <3>11. QED
      BY <3>2, <3>4, <3>6, <3>7, <3>9, <3>10
  <2>5. CASE ~(x1 = {} \/ ~allowed) /\ x7 # "rx"
    <3>1. /\ x8' = "feed" /\ x7' = Fed!FedBy(x1) /\ x11' = (x11 /\ x7' = x7 /\ "tune" \notin x1)
          /\ UNCHANGED <<x5, x6, x10, x12, x13, x14>>
      BY <1>10, <2>5 DEF Fed!Slot, Fed!Refresh
    <3>2. x7' = "mox" => "mox" \in x1
      BY <3>1 DEF Fed!FedBy
    <3>3. Fed!Types'
      <4>1. x11' \in BOOLEAN
        BY <3>1
      <4>2. QED
        BY <2>1, <3>1, <4>1 DEF Fed!Types
    <3>4. Fed!Places'
      BY <2>1, <2>2, <3>1 DEF Fed!Places, Fed!NoPull
    <3>5. Fed!ClientsOver /\ x7' = "mox" => Fed!ClientsOver'
      BY <2>1, <2>2, <3>1, <3>2 DEF Fed!ClientsOver
    <3>6. Fed!MicsOver => Fed!MicsOver'
      BY <2>1, <3>1 DEF Fed!MicsOver
    <3>7. QED
      BY <3>1, <3>3, <3>4, <3>5, <3>6
  <2>6. QED
    BY <2>3, <2>4, <2>5
<1>11. CASE Fed!Feed
  <2> DEFINE of == IF x3 THEN "client" ELSE "mic"
             r  == IF x3 THEN x6 ELSE x5
             n  == IF (x3 \/ x2 = "voice") /\ Fed!Queued(r) > 0 THEN 1 ELSE 0
  <2>1. /\ x8 = "feed" /\ UNCHANGED <<x1, x3, x4, x5, x6, x7, x10, x11, x12, x13, x14>>
        /\ IF x7 = "mox" THEN x9' = [of |-> of, at |-> r.tail, n |-> n] /\ x8' = "take"
           ELSE UNCHANGED x9 /\ x8' = "top"
    BY <1>11 DEF Fed!Feed, Fed!history
  <2>2. x9 = [of |-> "none", at |-> 0, n |-> 0] /\ n \in {0, 1} /\ r \in [head : Int, tail : Int]
    BY <2>1 DEF Fed!Places, Fed!NoPull, Fed!Types
  <2> HIDE DEF n
  <2>3. x9' \in [of : {"none", "mic", "client"}, at : Int, n : {0, 1}]
    BY <2>1, <2>2 DEF Fed!Types
  <2>4. Fed!Types' /\ Fed!Places'
    BY <2>1, <2>2, <2>3 DEF Fed!Types, Fed!Places, Fed!NoPull
  <2>5. x7 = "mox" /\ Fed!ClientsOver => Fed!ClientsOver'
    <3>1. SUFFICES ASSUME x7 = "mox", Fed!ClientsOver PROVE Fed!ClientsOver'
      OBVIOUS
    <3>2. x9' = [of |-> of, at |-> r.tail, n |-> n] /\ x8' = "take" /\ x14 = 0
      BY <2>1, <3>1 DEF Fed!ClientsOver
    <3>3. x9'.of = of /\ (x3 => x9'.at = x6.tail)
      BY <3>2
    <3>4. QED
      BY <2>1, <3>1, <3>2, <3>3 DEF Fed!ClientsOver
  <2>6. x7 = "mox" /\ Fed!MicsOver => Fed!MicsOver'
    <3>1. SUFFICES ASSUME x7 = "mox", Fed!MicsOver PROVE Fed!MicsOver'
      OBVIOUS
    <3>2. x9' = [of |-> "mic", at |-> x5.tail, n |-> n]
      BY <2>1, <3>1 DEF Fed!MicsOver
    <3>3. QED
      BY <2>1, <3>1, <3>2 DEF Fed!MicsOver
  <2>7. QED
    BY <2>1, <2>4, <2>5, <2>6
<1>12. CASE Fed!Take
  <2> DEFINE was == IF x9.of = "mic" THEN x12.mic ELSE x12.client
  <2>1. /\ x8 = "take" /\ x8' = "top" /\ x9' = [of |-> "none", at |-> 0, n |-> 0]
        /\ UNCHANGED <<x1, x3, x4, x7, x10, x11, x12>>
        /\ x13' = (IF x9.n = 1 /\ x9.at < was THEN Fed!Capped(x13 + 1) ELSE x13)
        /\ x14' = (IF x9.of = "mic" THEN Fed!Capped(x14 + 1) ELSE x14)
    BY <1>12 DEF Fed!Take, Fed!NoPull
  <2>2. /\ x9.of = "mic" => x6' = x6 /\ x5' = IF x9.n = 0 THEN x5 ELSE [x5 EXCEPT !.tail = x9.at + 1]
        /\ x9.of # "mic" => x5' = x5 /\ x6' = IF x9.n = 0 THEN x6 ELSE [x6 EXCEPT !.tail = x9.at + 1]
    BY <1>12 DEF Fed!Take
  <2>3. /\ x9.of \in {"none", "mic", "client"} /\ x9.at \in Int /\ x9.n \in {0, 1} /\ was \in Int
        /\ x5 \in [head : Int, tail : Int] /\ x6 \in [head : Int, tail : Int]
        /\ x12.mic \in Int /\ x12.client \in Int /\ x13 \in Nat /\ x14 \in Nat
    BY DEF Fed!Types
  <2>a. x9.of \in {"mic", "client"}
    BY <2>1, <2>3 DEF Fed!Places
  <2>4. /\ x5' \in [head : Int, tail : Int] /\ x6' \in [head : Int, tail : Int]
        /\ x5'.head = x5.head /\ x6'.head = x6.head
        /\ x5'.tail = IF x9.of = "mic" /\ x9.n = 1 THEN x9.at + 1 ELSE x5.tail
        /\ x6'.tail = IF x9.of # "mic" /\ x9.n = 1 THEN x9.at + 1 ELSE x6.tail
    BY <2>2, <2>3
  <2>5. x13' \in Nat /\ x14' \in Nat /\ x13' <= x13 + 1 /\ (x13 <= 1 /\ x13' # x13 => x13' = x13 + 1)
    BY <2>1, <2>3, CappedIs
  <2>6. Fed!Types' /\ Fed!Places'
    BY <2>1, <2>3, <2>4, <2>5 DEF Fed!Types, Fed!Places, Fed!NoPull
  <2>7. ASSUME Fed!ClientsOver PROVE Fed!ClientsOver'
    <3>1. x14 = 0 /\ x13 = 0
      BY <2>1, <2>3, <2>7 DEF Fed!ClientsOver
    <3>2. CASE x9.of = "mic"
      <4>1. x14' = 1
        BY <2>1, <3>1, <3>2, CappedIs
      <4>2. x13' <= 1
        BY <2>5, <3>1
      <4>3. ~x3'
        BY <2>1, <2>7, <3>2 DEF Fed!ClientsOver
      <4>4. x6' = x6
        BY <2>2, <3>2
      <4>5. QED
        BY <2>1, <2>5, <2>7, <4>1, <4>2, <4>3, <4>4 DEF Fed!ClientsOver
    <3>3. CASE x9.of # "mic"
      <4>1. x14' = 0
        BY <2>1, <3>1, <3>3
      <4>3. x13' = 0
        <5>1. x9.of = "client" /\ was = x12.client
          BY <2>a, <3>3
        <5>2. x9.n = 1 => x9.at >= x12.client
          BY <2>7, <5>1 DEF Fed!ClientsOver
        <5>3. ~(x9.n = 1 /\ x9.at < was)
          BY <2>3, <5>1, <5>2
        <5>4. QED
          BY <2>1, <3>1, <5>3
      <4>4. x6'.tail >= x12.client
        BY <2>a, <2>3, <2>4, <2>7, <3>3 DEF Fed!ClientsOver
      <4>5. QED
        BY <2>1, <2>4, <2>7, <4>1, <4>3, <4>4 DEF Fed!ClientsOver
    <3>4. QED
      BY <3>2, <3>3
  <2>8. ASSUME Fed!MicsOver PROVE Fed!MicsOver'
    <3>1. x13 <= Keep /\ x13 + x12.mic - x5.tail <= Keep /\ x9.of # "client" /\ ~x3
          /\ (x9.n = 1 => x9.at = x5.tail)
      BY <2>8 DEF Fed!MicsOver
    <3>2. x5.tail \in Int
      BY <2>3
    <3>3. CASE x9.of = "mic" /\ x9.n = 1
      <4>1. x5'.tail = x5.tail + 1 /\ was = x12.mic /\ x9.at = x5.tail
        BY <2>4, <3>1, <3>3
      <4>2. x13' = IF x5.tail < x12.mic THEN Fed!Capped(x13 + 1) ELSE x13
        BY <2>1, <3>3, <4>1
      <4>3. x5.tail < x12.mic => x13' <= x13 + 1
        BY <2>5
      <4>4. x13' <= Keep /\ x13' + x12.mic - x5'.tail <= Keep
        BY <2>3, <2>5, <3>1, <3>2, <4>1, <4>2, <4>3, AudioConstants
      <4>5. QED
        BY <2>1, <3>1, <4>4 DEF Fed!MicsOver
    <3>4. CASE ~(x9.of = "mic" /\ x9.n = 1)
      <4>1. x5'.tail = x5.tail
        BY <2>4, <3>4
      <4>2. x13' = x13
        BY <2>1, <2>a, <2>3, <3>1, <3>4
      <4>3. QED
        BY <2>1, <3>1, <4>1, <4>2 DEF Fed!MicsOver
    <3>5. QED
      BY <3>3, <3>4
  <2>9. QED
    BY <2>1, <2>6, <2>7, <2>8
<1>13. CASE UNCHANGED vars
  BY <1>13 DEF vars, Fed!Types, Fed!Places, Fed!NoPull, Fed!ClientsOver, Fed!MicsOver
<1>14. QED
  BY <1>1, <1>2, <1>3, <1>4, <1>5, <1>6, <1>7, <1>8, <1>9, <1>10, <1>11, <1>12, <1>13, AudioSteps

\* An over sends its own audio: of a voice over no more than mic_flush keeps is older
\* than its key, of a client's nothing is, and of the microphone it sends one block at
\* most, whatever the order of the four parties that touch the rings.
THEOREM TheAudioIsTheOvers == Spec => []AudioIsTheOvers
<1> DEFINE Inv == part = "audio" => Fed!OversInv
<1>1. Init => Inv
  BY OversStart
<1>2. Inv /\ [Next]_vars => Inv'
  BY OversStep, PartStays
<1>3. Inv => AudioIsTheOvers
  <2>1. Fed!ClientsOver /\ x14 \in Nat => x14 <= 1 /\ x13 <= x14
    BY DEF Fed!ClientsOver
  <2>2. Fed!MicsOver => x13 <= Keep
    BY DEF Fed!MicsOver
  <2>3. QED
    BY <2>1, <2>2 DEF AudioIsTheOvers, Fed!AudioIsTheOvers, Fed!OversInv, Fed!Types
<1>4. QED
  BY <1>1, <1>2, <1>3, PTL DEF Spec

-----------------------------------------------------------------------------
(* The remote client.  x1 is main, x2 tcp, x3 udp, x5 columns, x6 native,  *)
(* x7 applied, x8 rx, x9 drain, x10 frame, x13 server, x14 found, x15 air. *)

LEMMA RemoteSteps ==
  ASSUME part = "remote", Next
  PROVE  \/ Remote!ServerStreams \/ Remote!LinkBreaks
         \/ \E works \in BOOLEAN :
              \/ Remote!TcpConnect(works) \/ Remote!Handshake(works) \/ Remote!UdpConnect(works)
              \/ Remote!Register(works) \/ Remote!Ingest(works)
         \/ \E n \in Columns : Remote!SetColumns(n)
         \/ Remote!Again \/ Remote!Start \/ Remote!Latest \/ Remote!Stop
         \/ Remote!JoinRx \/ Remote!Tell \/ Remote!JoinTcp
         \/ \E w \in Remote!AnyWidth : Remote!Receive(w)
         \/ Remote!RxEnds \/ Remote!AskWidth \/ Remote!Deliver \/ Remote!DrainEnds
BY DEF Next

Servers == [width : Nat \ {0}, streams : BOOLEAN]

LEMMA RemoteStart == ASSUME part = "remote", Init PROVE Remote!RemoteInv
<1>1. Remote!Init
  BY DEF Init
<1>2. PICK w \in ServerWidths : x13 = [width |-> w, streams |-> FALSE] /\ x14 = w
  BY <1>1 DEF Remote!Init
<1>3. w \in Nat \ {0}
  BY PartAssumptions DEF Remote!RemoteAssumption
<1>4. /\ x1 = "new" /\ x2 = "none" /\ x3 = FALSE /\ x5 = 0 /\ x6 = 0 /\ x7 = 0
      /\ x8 = "none" /\ x9 = "none" /\ x15 = {}
  BY <1>1 DEF Remote!Init
<1>5. x13 \in Servers /\ ~x13.streams
  BY <1>2, <1>3 DEF Servers
<1>6. x3 \in BOOLEAN
  BY <1>4, Zenon
<1>7. x2 \in {"none", "up", "down"} /\ {x5, x6, x7} \subseteq Nat
  BY <1>4
<1>8. x14 \in Nat \ {0}
  BY <1>2, <1>3
<1>9. QED
  BY <1>4, <1>5, <1>6, <1>7, <1>8
     DEF Remote!RemoteInv, Remote!Sockets, Remote!Threads, Remote!Connecting, Remote!Quiet, Servers

LEMMA RemoteStep == ASSUME Remote!RemoteInv, part = "remote", [Next]_vars PROVE Remote!RemoteInv'
<1> USE DEF Remote!Connecting, Remote!Quiet
<1>0. /\ x13 \in Servers /\ x14 \in Nat \ {0} /\ {x5, x6, x7} \subseteq Nat
      /\ Remote!Sockets /\ Remote!Threads /\ (x1 \notin {"new", "ended"} => Remote!WidthKnown)
  BY DEF Remote!RemoteInv, Servers
<1>1. CASE Remote!ServerStreams
  <2>1. x13.streams /\ x15' = x15 \cup {x13.width}
        /\ UNCHANGED <<x1, x2, x3, x5, x6, x7, x8, x9, x10, x13, x14>>
    BY <1>1 DEF Remote!ServerStreams
  <2>2. x1 \notin {"new", "dialled", "accepted", "heard", "known", "told", "ended"}
    BY <1>0, <2>1 DEF Remote!Sockets
  <2>3. QED
    BY <1>0, <2>1, <2>2 DEF Remote!RemoteInv, Remote!Sockets, Remote!Threads, Remote!WidthKnown, Servers
<1>2. CASE Remote!LinkBreaks
  <2>1. /\ x2 = "up" /\ x2' = "down" /\ x13' = [x13 EXCEPT !.streams = FALSE]
        /\ UNCHANGED <<x1, x3, x5, x6, x7, x8, x9, x10, x14, x15>>
    BY <1>2 DEF Remote!LinkBreaks
  <2>2. x13' \in Servers /\ x13'.width = x13.width /\ ~x13'.streams
    BY <1>0, <2>1 DEF Servers
  <2>3. QED
    BY <1>0, <2>1, <2>2 DEF Remote!RemoteInv, Remote!Sockets, Remote!Threads, Remote!WidthKnown, Servers
<1>3. ASSUME NEW works \in BOOLEAN, Remote!TcpConnect(works) PROVE Remote!RemoteInv'
  <2>1. /\ x1 = "new" /\ x1' = (IF works THEN "dialled" ELSE "ended")
        /\ x2' = (IF works THEN "up" ELSE "none") /\ x14' = x13.width
        /\ UNCHANGED <<x3, x5, x6, x7, x8, x9, x10, x13, x15>>
    BY <1>3 DEF Remote!TcpConnect, Remote!Step
  <2>2. x13.width \in Nat \ {0}
    BY <1>0 DEF Servers
  <2>3. QED
    BY <1>0, <2>1, <2>2 DEF Remote!RemoteInv, Remote!Sockets, Remote!Threads, Remote!WidthKnown, Servers
<1>4. ASSUME NEW works \in BOOLEAN, Remote!Handshake(works) PROVE Remote!RemoteInv'
  <2>1. /\ x1 = "dialled" /\ x1' = (IF works THEN "accepted" ELSE "ended")
        /\ x2' = (IF works THEN x2 ELSE "none")
        /\ UNCHANGED <<x3, x5, x6, x7, x8, x9, x10, x13, x14, x15>>
    BY <1>4 DEF Remote!Handshake, Remote!Step, Remote!CloseTcp
  <2>2. QED
    BY <1>0, <2>1 DEF Remote!RemoteInv, Remote!Sockets, Remote!Threads, Remote!WidthKnown, Servers
<1>5. ASSUME NEW works \in BOOLEAN, Remote!UdpConnect(works) PROVE Remote!RemoteInv'
  <2>1. /\ x1 = "accepted" /\ x1' = (IF works THEN "heard" ELSE "ended")
        /\ x2' = (IF works THEN x2 ELSE "none") /\ x3' = works
        /\ UNCHANGED <<x5, x6, x7, x8, x9, x10, x13, x14, x15>>
    BY <1>5 DEF Remote!UdpConnect, Remote!Step, Remote!CloseTcp
  <2>2. QED
    BY <1>0, <2>1 DEF Remote!RemoteInv, Remote!Sockets, Remote!Threads, Remote!WidthKnown, Servers
<1>6. ASSUME NEW works \in BOOLEAN, Remote!Register(works) PROVE Remote!RemoteInv'
  <2>1. /\ x1 = "heard" /\ x1' = (IF works THEN "known" ELSE "ended")
        /\ x2' = (IF works THEN x2 ELSE "none") /\ x3' = works
        /\ UNCHANGED <<x5, x6, x7, x8, x9, x10, x13, x14, x15>>
    BY <1>6 DEF Remote!Register, Remote!Step, Remote!CloseTcp
  <2>2. QED
    BY <1>0, <2>1 DEF Remote!RemoteInv, Remote!Sockets, Remote!Threads, Remote!WidthKnown, Servers
<1>7. ASSUME NEW works \in BOOLEAN, Remote!Ingest(works) PROVE Remote!RemoteInv'
  <2>1. /\ x1 = "known" /\ x1' = (IF works THEN "connected" ELSE "ended")
        /\ x2' = (IF works THEN x2 ELSE "none") /\ x3' = works /\ (works => x2 = "up")
        /\ x13' = (IF works THEN [x13 EXCEPT !.streams = TRUE] ELSE x13)
        /\ UNCHANGED <<x5, x6, x7, x8, x9, x10, x14, x15>>
    BY <1>7 DEF Remote!Ingest, Remote!Step, Remote!CloseTcp, Remote!Alive, Remote!Streaming
  <2>2. x13' \in Servers /\ x13'.width = x13.width /\ (~works => x13' = x13)
    BY <1>0, <2>1 DEF Servers
  <2>3. QED
    BY <1>0, <2>1, <2>2 DEF Remote!RemoteInv, Remote!Sockets, Remote!Threads, Remote!WidthKnown, Servers
<1>8. ASSUME NEW n \in Columns, Remote!SetColumns(n) PROVE Remote!RemoteInv'
  <2>1. x5' = n /\ UNCHANGED <<x1, x2, x3, x6, x7, x8, x9, x10, x13, x14, x15>>
    BY <1>8 DEF Remote!SetColumns
  <2>2. n \in Nat
    BY PartAssumptions DEF Remote!RemoteAssumption
  <2>3. QED
    BY <1>0, <2>1, <2>2 DEF Remote!RemoteInv, Remote!Sockets, Remote!Threads, Remote!WidthKnown, Servers
<1>9. CASE Remote!Again
  <2>1. /\ x1 = "ended" /\ x1' = "new" /\ x15' = {} /\ x8' = "none" /\ x9' = "none"
        /\ x5' = 0 /\ x6' = 0 /\ x7' = 0 /\ UNCHANGED <<x2, x3, x13, x14>>
    BY <1>9 DEF Remote!Again
  <2>2. QED
    BY <1>0, <2>1 DEF Remote!RemoteInv, Remote!Sockets, Remote!Threads, Servers
<1>10. CASE Remote!Start
  <2>1. /\ x1 = "connected" /\ x1' = "started" /\ x8' = "top"
        /\ UNCHANGED <<x2, x3, x5, x6, x7, x10, x13, x14, x15>>
    BY <1>10 DEF Remote!Start
  <2>2. QED
    BY <1>0, <2>1 DEF Remote!RemoteInv, Remote!Sockets, Remote!Threads, Remote!WidthKnown, Servers
<1>11. CASE Remote!Stop
  <2>1. /\ x1 \in {"connected", "started"} /\ x1' = "stopping"
        /\ UNCHANGED <<x2, x3, x5, x6, x7, x8, x9, x10, x13, x14, x15>>
    BY <1>11 DEF Remote!Stop
  <2>2. QED
    BY <1>0, <2>1 DEF Remote!RemoteInv, Remote!Sockets, Remote!Threads, Remote!WidthKnown, Servers
<1>12. CASE Remote!JoinRx
  <2>1. /\ x1 = "stopping" /\ x8 \in {"none", "over"} /\ x1' = "joined"
        /\ UNCHANGED <<x2, x3, x5, x6, x7, x8, x9, x10, x13, x14, x15>>
    BY <1>12 DEF Remote!JoinRx, Remote!Joined
  <2>2. QED
    BY <1>0, <2>1 DEF Remote!RemoteInv, Remote!Sockets, Remote!Threads, Remote!WidthKnown, Servers
<1>13. CASE Remote!Tell
  <2>1. /\ x1 = "joined" /\ x1' = "told"
        /\ UNCHANGED <<x2, x3, x5, x6, x7, x8, x9, x10, x14, x15>>
    BY <1>13 DEF Remote!Tell
  <2>2. /\ x13.width \in Nat \ {0} /\ x13.streams \in BOOLEAN /\ Remote!WidthKnown
        /\ x6 \in Nat /\ x7 \in Nat /\ x14 \in Nat \ {0}
    BY <1>0, <2>1 DEF Servers
  <2>3. CASE x2 = "up"
    <3>1. x13' = [Remote!Restored EXCEPT !.streams = FALSE]
      BY <1>13, <2>3 DEF Remote!Tell
    <3>2. Remote!Restored \in Servers /\ Remote!Restored.width = x14
      <4>1. CASE x7 > 0 /\ x6 > 0 /\ x7 # x6
        <5>1. Remote!Restored = [x13 EXCEPT !.width = x6]
          BY <2>3, <4>1 DEF Remote!Restored, Remote!Asked
        <5>2. x6 = x14
          BY <2>2, <4>1 DEF Remote!WidthKnown
        <5>3. QED
          BY <1>0, <5>1, <5>2 DEF Servers
      <4>2. CASE ~(x7 > 0 /\ x6 > 0 /\ x7 # x6)
        <5>1. Remote!Restored = x13
          BY <4>2 DEF Remote!Restored
        <5>2. x13.width = x14
          BY <2>1, <2>2, <2>3, <4>2 DEF Remote!WidthKnown
        <5>3. QED
          BY <1>0, <5>1, <5>2
      <4>3. QED
        BY <4>1, <4>2
    <3>3. x13' \in Servers /\ x13'.width = x14 /\ ~x13'.streams
      BY <3>1, <3>2 DEF Servers
    <3>4. QED
      BY <1>0, <2>1, <2>3, <3>3 DEF Remote!RemoteInv, Remote!Sockets, Remote!Threads, Remote!WidthKnown, Servers
  <2>4. CASE x2 # "up"
    <3>1. x13' = x13
      BY <1>13, <2>4 DEF Remote!Tell
    <3>2. QED
      BY <1>0, <2>1, <2>4, <3>1 DEF Remote!RemoteInv, Remote!Sockets, Remote!Threads, Remote!WidthKnown, Servers
  <2>5. QED
    BY <2>3, <2>4
<1>14. CASE Remote!JoinTcp
  <2>1. /\ x1 = "told" /\ x9 \in {"none", "over"} /\ x1' = "ended" /\ x2' = "none" /\ x3' = FALSE
        /\ UNCHANGED <<x5, x6, x7, x8, x9, x10, x13, x14, x15>>
    BY <1>14 DEF Remote!JoinTcp
  <2>2. QED
    BY <1>0, <2>1 DEF Remote!RemoteInv, Remote!Sockets, Remote!Threads, Servers
<1>15. ASSUME NEW w \in Remote!AnyWidth, Remote!Receive(w) PROVE Remote!RemoteInv'
  <2>1. /\ x8 = "top" /\ w \in x15 /\ x8' = "frame" /\ x10' = w /\ x15' \subseteq x15
        /\ UNCHANGED <<x1, x2, x3, x5, x6, x7, x9, x13, x14>>
    BY <1>15 DEF Remote!Receive
  <2>2. QED
    BY <1>0, <2>1 DEF Remote!RemoteInv, Remote!Sockets, Remote!Threads, Remote!WidthKnown, Servers
<1>16. CASE Remote!RxEnds
  <2>1. x8 = "top" /\ x8' = "over" /\ UNCHANGED <<x1, x2, x3, x5, x6, x7, x9, x10, x13, x14, x15>>
    BY <1>16 DEF Remote!RxEnds
  <2>2. QED
    BY <1>0, <2>1 DEF Remote!RemoteInv, Remote!Sockets, Remote!Threads, Remote!WidthKnown, Servers
<1>17. CASE Remote!AskWidth
  <2>1. /\ x8 = "frame" /\ x8' = "asked" /\ x6' = (IF x6 = 0 THEN x10 ELSE x6)
        /\ \/ x5 > 0 /\ x7' = x5 /\ x13' = Remote!Asked(x5)
           \/ UNCHANGED <<x7, x13>>
        /\ UNCHANGED <<x1, x2, x3, x5, x9, x10, x14, x15>>
    BY <1>17 DEF Remote!AskWidth
  <2>2. x1 \in {"started", "stopping"} \/ x1 \notin {"new", "dialled", "accepted", "heard", "known",
                                                    "connected", "joined", "told", "ended"}
    BY <1>0, <2>1 DEF Remote!Threads
  <2>3. x6' = x14
    BY <1>0, <2>1, <2>2 DEF Remote!WidthKnown
  <2>4. CASE x5 > 0 /\ x7' = x5 /\ x13' = Remote!Asked(x5)
    <3>1. x5 \in Nat \ {0}
      BY <1>0, <2>4
    <3>2. /\ x13' \in Servers /\ x13'.streams = x13.streams
          /\ x2 = "up" => x13'.width = x5
      BY <1>0, <2>4, <3>1 DEF Remote!Asked, Servers
    <3>3. QED
      BY <1>0, <2>1, <2>2, <2>3, <2>4, <3>1, <3>2
         DEF Remote!RemoteInv, Remote!Sockets, Remote!Threads, Remote!WidthKnown, Servers
  <2>5. CASE UNCHANGED <<x7, x13>>
    BY <1>0, <2>1, <2>2, <2>3, <2>5
       DEF Remote!RemoteInv, Remote!Sockets, Remote!Threads, Remote!WidthKnown, Servers
  <2>6. QED
    BY <2>1, <2>4, <2>5
<1>18. CASE Remote!Deliver
  <2>1. x8 = "asked" /\ x8' = "top" /\ UNCHANGED <<x1, x2, x3, x5, x6, x7, x9, x10, x13, x14, x15>>
    BY <1>18 DEF Remote!Deliver
  <2>2. QED
    BY <1>0, <2>1 DEF Remote!RemoteInv, Remote!Sockets, Remote!Threads, Remote!WidthKnown, Servers
<1>19. CASE Remote!DrainEnds
  <2>1. x9 = "top" /\ x9' = "over" /\ UNCHANGED <<x1, x2, x3, x5, x6, x7, x8, x10, x13, x14, x15>>
    BY <1>19 DEF Remote!DrainEnds
  <2>2. QED
    BY <1>0, <2>1 DEF Remote!RemoteInv, Remote!Sockets, Remote!Threads, Remote!WidthKnown, Servers
<1>20. CASE Remote!Latest \/ UNCHANGED vars
  <2>1. UNCHANGED <<x1, x2, x3, x5, x6, x7, x8, x9, x10, x13, x14, x15>>
    BY <1>20 DEF Remote!Latest, vars
  <2>2. QED
    BY <1>0, <2>1 DEF Remote!RemoteInv, Remote!Sockets, Remote!Threads, Remote!WidthKnown, Servers
<1>21. QED
  BY <1>1, <1>2, <1>3, <1>4, <1>5, <1>6, <1>7, <1>8, <1>9, <1>10, <1>11, <1>12, <1>13, <1>14,
     <1>15, <1>16, <1>17, <1>18, <1>19, <1>20, RemoteSteps

\* A remote client leaves the server as it found it, for all widths and any number of
\* frames and calls (client_stop's order, native_width in rx_thread), and no socket and
\* no thread is left (client_connect, client_stop).
THEOREM TheServerIsLeftAsFound == Spec => []LeftAsFound
<1> DEFINE Inv == part = "remote" => Remote!RemoteInv
<1>1. Init => Inv
  BY RemoteStart
<1>2. Inv /\ [Next]_vars => Inv'
  BY RemoteStep, PartStays
<1>3. Inv => LeftAsFound
  BY DEF LeftAsFound, Remote!LeftAsFound, Remote!RemoteInv, Remote!Sockets, Remote!Threads,
         Remote!WidthKnown, Remote!Connecting, Remote!Quiet
<1>4. QED
  BY <1>1, <1>2, <1>3, PTL DEF Spec

-----------------------------------------------------------------------------
(* The receiver.  x1 is app, x2 dem, x3 chan, x4 ready, x6 drag, x8 muted, *)
(* x9 owed, x10 keyed, x12 prev, x13 armed, x16 mute, x18 overtaken,       *)
(* x19 moves.                                                              *)

LEMMA ReceiverSteps ==
  ASSUME part = "receiver", Next
  PROVE  \/ \E works, tx \in BOOLEAN : Heard!Start(works, tx)
         \/ \E m \in Heard!RxModes : Heard!ToMode(m)
         \/ \E w \in Filters, filed \in BOOLEAN : Heard!Filter(w, filed)
         \/ \E o \in Offsets : Heard!DialTo(o)
         \/ \E p \in Pitches : Heard!CwPush(p) \/ Heard!RttyPush(p)
         \/ \E on \in BOOLEAN, p \in Profiles : Heard!EqEdit(on, p)
         \/ \E p \in Profiles : Heard!EqDrag(p)
         \/ Heard!EqApply \/ Heard!EqPage \/ Heard!TxEqEdit
         \/ \E v \in Volumes : Heard!Volume(v) \/ Heard!TciVolume(v)
         \/ \E on \in BOOLEAN : Heard!TciMute(on)
         \/ \E m \in Heard!AgcModes : Heard!AgcSelect(m)
         \/ \E t \in Tops : Heard!AgcTop(t)
         \/ Heard!NrNext \/ Heard!NnrModel
         \/ \E s \in Plain : Heard!Toggle(s)
         \/ Heard!Key \/ Heard!Publish \/ Heard!IqBlock \/ Heard!Tick
BY DEF Next

\* The handlers leave the switch alone.
SwitchVars == <<x12, x13, x16, x18>>

LEMMA SwitchStays ==
  ASSUME part = "receiver", Next, ~Heard!IqBlock, ~Heard!Tick
  PROVE  UNCHANGED SwitchVars
<1> USE DEF Heard!switch, Heard!settings, Heard!Input, SwitchVars
<1>1. ASSUME NEW works \in BOOLEAN, NEW tx \in BOOLEAN, Heard!Start(works, tx) PROVE UNCHANGED SwitchVars
  BY <1>1 DEF Heard!Start
<1>2. ASSUME NEW m \in Heard!RxModes, Heard!ToMode(m) PROVE UNCHANGED SwitchVars
  BY <1>2 DEF Heard!ToMode
<1>3. ASSUME NEW w \in Filters, NEW filed \in BOOLEAN, Heard!Filter(w, filed) PROVE UNCHANGED SwitchVars
  BY <1>3 DEF Heard!Filter
<1>4. ASSUME NEW o \in Offsets, Heard!DialTo(o) PROVE UNCHANGED SwitchVars
  BY <1>4 DEF Heard!DialTo
<1>5. ASSUME NEW p \in Pitches, Heard!CwPush(p) \/ Heard!RttyPush(p) PROVE UNCHANGED SwitchVars
  BY <1>5 DEF Heard!CwPush, Heard!RttyPush
<1>6. ASSUME NEW on \in BOOLEAN, NEW p \in Profiles, Heard!EqEdit(on, p) PROVE UNCHANGED SwitchVars
  BY <1>6 DEF Heard!EqEdit
<1>7. ASSUME NEW p \in Profiles, Heard!EqDrag(p) PROVE UNCHANGED SwitchVars
  BY <1>7 DEF Heard!EqDrag
<1>8. CASE Heard!EqApply \/ Heard!EqPage \/ Heard!TxEqEdit
  BY <1>8 DEF Heard!EqApply, Heard!EqPage, Heard!TxEqEdit
<1>9. ASSUME NEW v \in Volumes, Heard!Volume(v) \/ Heard!TciVolume(v) PROVE UNCHANGED SwitchVars
  BY <1>9 DEF Heard!Volume, Heard!TciVolume
<1>10. ASSUME NEW on \in BOOLEAN, Heard!TciMute(on) PROVE UNCHANGED SwitchVars
  BY <1>10 DEF Heard!TciMute
<1>11. ASSUME NEW m \in Heard!AgcModes, Heard!AgcSelect(m) PROVE UNCHANGED SwitchVars
  BY <1>11 DEF Heard!AgcSelect
<1>12. ASSUME NEW t \in Tops, Heard!AgcTop(t) PROVE UNCHANGED SwitchVars
  BY <1>12 DEF Heard!AgcTop
<1>13. CASE Heard!NrNext \/ Heard!NnrModel
  BY <1>13 DEF Heard!NrNext, Heard!NnrModel
<1>14. ASSUME NEW s \in Plain, Heard!Toggle(s) PROVE UNCHANGED SwitchVars
  BY <1>14 DEF Heard!Toggle
<1>15. CASE Heard!Key \/ Heard!Publish
  BY <1>15 DEF Heard!Key, Heard!Publish
<1>16. QED
  BY <1>1, <1>2, <1>3, <1>4, <1>5, <1>6, <1>7, <1>8, <1>9, <1>10, <1>11, <1>12, <1>13, <1>14,
     <1>15, ReceiverSteps

LEMMA SwitchStep == ASSUME Heard!SwitchInv, part = "receiver", [Next]_vars PROVE Heard!SwitchInv'
<1>1. CASE Heard!IqBlock
  <2>1. PICK fires \in BOOLEAN :
          /\ fires => x13 /\ Heard!Rearmed
          /\ x13' = (Heard!Rearmed /\ ~fires)
          /\ x16' = ((x16 \/ (x10 /\ ~x12)) /\ ~fires)
    BY <1>1 DEF Heard!IqBlock
  <2>2. x12' = x10 /\ x18' = (x18 /\ x10 = x12)
    BY <1>1 DEF Heard!IqBlock
  <2>3. Heard!Rearmed = IF x10 = x12 THEN x13 ELSE ~x10
    BY DEF Heard!Rearmed
  <2>4. QED
    BY <2>1, <2>2, <2>3 DEF Heard!SwitchInv
<1>2. CASE Heard!Tick
  <2>1. PICK fires \in BOOLEAN :
          /\ x16' = (x16 /\ ~(fires /\ x4)) /\ x18' = (x18 \/ (fires /\ x4 /\ x12))
    BY <1>2 DEF Heard!Tick
  <2>2. UNCHANGED <<x12, x13>>
    BY <1>2 DEF Heard!Tick
  <2>3. QED
    BY <2>1, <2>2 DEF Heard!SwitchInv
<1>3. CASE Next /\ ~Heard!IqBlock /\ ~Heard!Tick
  BY <1>3, SwitchStays DEF SwitchVars, Heard!SwitchInv
<1>4. CASE UNCHANGED vars
  BY <1>4 DEF vars, Heard!SwitchInv
<1>5. QED
  BY <1>1, <1>2, <1>3, <1>4

\* The receiver is shut for an over the listener has seen begin, unless the tick's
\* backstop of the over before came late, and open again after it (feed_cb, the tick of
\* gui.c): whatever the times at which the three threads look.
THEOREM TheAudioFollowsTheKey == Spec => []AudioFollowsKey
<1> DEFINE Inv == part = "receiver" => Heard!SwitchInv
<1>1. Init => Inv
  BY DEF Init, Heard!Init, Heard!SwitchInv
<1>2. Inv /\ [Next]_vars => Inv'
  BY SwitchStep, PartStays
<1>3. Inv => AudioFollowsKey
  BY DEF AudioFollowsKey, Heard!AudioFollowsKey, Heard!SwitchInv
<1>4. QED
  BY <1>1, <1>2, <1>3, PTL DEF Spec

LEMMA ReceiverConstants ==
  /\ Filters \subseteq Nat /\ Pitches \subseteq Nat /\ Volumes \subseteq Nat /\ Tops \subseteq Nat
  /\ Offsets \subseteq Int /\ 0 \in Volumes /\ 0 \in Offsets /\ Flat \in Profiles
BY PartAssumptions DEF Heard!ReceiverAssumption

LEMMA GroupOfType == ASSUME NEW m \in Heard!RxModes PROVE Heard!GroupOf(m) \in Heard!Groups
BY DEF Heard!Groups

LEMMA PitchType == ASSUME NEW d \in Heard!Setting PROVE Heard!Pitch(d) \in Int
<1>0. d.cw \in Pitches /\ d.rtty \in Pitches
  BY DEF Heard!Setting
<1>a. Pitches \subseteq Int
  BY ReceiverConstants
<1>1. d.cw \in Int /\ d.rtty \in Int
  BY <1>0, <1>a
<1>2. -d.cw \in Int /\ -d.rtty \in Int /\ 0 \in Int
  BY <1>1
<1>3. Heard!Pitch(d) \in {d.cw, -d.cw, -d.rtty, 0}
  BY DEF Heard!Pitch
<1>4. QED
  BY <1>1, <1>2, <1>3

\* What the apply functions do to a channel.
LEMMA PassbandIs ==
  ASSUME NEW d \in Heard!Setting, NEW c \in Heard!Channel
  PROVE  LET e == Heard!Passband(d, c)
         IN  /\ e \in Heard!Channel
             /\ e.pass = [at |-> Heard!Pitch(d), width |-> d.width] /\ e.shift = d.ctun - Heard!Pitch(d)
             /\ e.mode = c.mode /\ e.model = c.model /\ e.eqRun = c.eqRun /\ e.eq = c.eq
             /\ e.gain = c.gain /\ e.agc = c.agc /\ e.top = c.top
             /\ e.running = c.running /\ e.plain = c.plain
<1> DEFINE shift == d.ctun - Heard!Pitch(d)
           pass == [at |-> Heard!Pitch(d), width |-> d.width]
<1>1. Heard!Passband(d, c) = [c EXCEPT !.shift = shift, !.pass = pass]
  BY DEF Heard!Passband
<1>2. d.ctun \in Int /\ d.width \in Nat /\ Heard!Pitch(d) \in Int
  BY ReceiverConstants, PitchType DEF Heard!Setting
<1>3. shift \in Int /\ pass \in [at : Int, width : Nat]
  BY <1>2
<1> HIDE DEF shift, pass
<1>4. QED
  BY <1>1, <1>3 DEF Heard!Channel, shift, pass

LEMMA NnrIs ==
  ASSUME NEW d \in Heard!Setting, NEW c \in Heard!Channel
  PROVE  LET e == Heard!Nnr(d, c)
         IN  /\ e \in Heard!Channel
             /\ e.model = d.model + (IF d.mode \in Heard!CwModes THEN 2 ELSE 0)
             /\ e.pass = c.pass /\ e.shift = c.shift /\ e.mode = c.mode /\ e.eqRun = c.eqRun /\ e.eq = c.eq
             /\ e.gain = c.gain /\ e.agc = c.agc /\ e.top = c.top
             /\ e.running = c.running /\ e.plain = c.plain
<1> DEFINE model == d.model + (IF d.mode \in Heard!CwModes THEN 2 ELSE 0)
<1>1. Heard!Nnr(d, c) = [c EXCEPT !.model = model]
  BY DEF Heard!Nnr
<1>2. d.model \in {0, 1}
  BY DEF Heard!Setting
<1>3. model \in 0..3
  BY <1>2
<1> HIDE DEF model
<1>4. QED
  BY <1>1, <1>3 DEF Heard!Channel, model

LEMMA AgcIs ==
  ASSUME NEW d \in Heard!Setting, NEW c \in Heard!Channel
  PROVE  LET e == Heard!Agc(d, c)
         IN  /\ e \in Heard!Channel
             /\ e.agc = d.agc /\ (d.agc > 0 => e.top = d.top)
             /\ e.pass = c.pass /\ e.shift = c.shift /\ e.mode = c.mode /\ e.eqRun = c.eqRun /\ e.eq = c.eq
             /\ e.gain = c.gain /\ e.model = c.model
             /\ e.running = c.running /\ e.plain = c.plain
<1> DEFINE top == IF d.agc = 0 THEN c.top ELSE d.top
<1>1. Heard!Agc(d, c) = [c EXCEPT !.agc = d.agc, !.top = top]
  BY DEF Heard!Agc
<1>2. d.agc \in Heard!AgcModes /\ d.top \in Nat /\ c.top \in Nat
  BY ReceiverConstants DEF Heard!Setting, Heard!Channel
<1>3. top \in Nat /\ (d.agc > 0 => top = d.top)
  BY <1>2 DEF Heard!AgcModes
<1> HIDE DEF top
<1>4. QED
  BY <1>1, <1>2, <1>3 DEF Heard!Channel

LEMMA EqIs ==
  ASSUME NEW d \in Heard!Setting, NEW c \in Heard!Channel
  PROVE  LET e == Heard!Eq(d, c)
         IN  /\ e \in Heard!Channel
             /\ e.eq = d.eq /\ e.eqRun = Heard!EqRuns(d)
             /\ e.pass = c.pass /\ e.shift = c.shift /\ e.mode = c.mode
             /\ e.gain = c.gain /\ e.model = c.model /\ e.agc = c.agc /\ e.top = c.top
             /\ e.running = c.running /\ e.plain = c.plain
<1>1. Heard!Eq(d, c) = [c EXCEPT !.eq = d.eq, !.eqRun = Heard!EqRuns(d)]
  BY DEF Heard!Eq
<1>2. d.eq \in Profiles /\ Heard!EqRuns(d) \in BOOLEAN
  BY DEF Heard!Setting, Heard!EqRuns
<1>3. QED
  BY <1>1, <1>2 DEF Heard!Channel

LEMMA NrIs ==
  ASSUME NEW d \in Heard!Setting, NEW c \in Heard!Channel
  PROVE  LET e == Heard!Nr(d, c)
         IN  /\ e \in Heard!Channel
             /\ e.running = {d.nr} \ {0}
             /\ e.pass = c.pass /\ e.shift = c.shift /\ e.mode = c.mode /\ e.eqRun = c.eqRun /\ e.eq = c.eq
             /\ e.gain = c.gain /\ e.model = c.model /\ e.agc = c.agc /\ e.top = c.top
             /\ e.plain = c.plain
<1> DEFINE on == {d.nr} \ {0}
<1>1. Heard!Nr(d, c) = [c EXCEPT !.running = on]
  BY DEF Heard!Nr
<1>2. on \in SUBSET Heard!NrModes
  BY DEF Heard!Setting
<1> HIDE DEF on
<1>3. QED
  BY <1>1, <1>2 DEF Heard!Channel, on

LEMMA ModeIs ==
  ASSUME NEW d \in Heard!Setting, NEW c \in Heard!Channel
  PROVE  LET e == Heard!Mode(d, c)
         IN  /\ e \in Heard!Channel
             /\ e.mode = IF d.mode = "rtty" THEN "digu" ELSE d.mode
             /\ e.pass = c.pass /\ e.shift = c.shift /\ e.eqRun = c.eqRun /\ e.eq = c.eq
             /\ e.gain = c.gain /\ e.model = c.model /\ e.agc = c.agc /\ e.top = c.top
             /\ e.running = c.running /\ e.plain = c.plain
<1> DEFINE mode == IF d.mode = "rtty" THEN "digu" ELSE d.mode
<1>1. Heard!Mode(d, c) = [c EXCEPT !.mode = mode]
  BY DEF Heard!Mode
<1>2. mode \in Heard!RxModes
  BY DEF Heard!Setting, Heard!RxModes, Heard!DigiModes
<1> HIDE DEF mode
<1>3. QED
  BY <1>1, <1>2 DEF Heard!Channel, mode

\* The channel after each of the setters' orders.
LEMMA PassbandFollows ==
  ASSUME NEW d \in Heard!Setting, NEW d0 \in Heard!Setting, NEW c \in Heard!Channel, Heard!Follows(d0, c),
         d.mode = d0.mode, d.model = d0.model, d.eq = d0.eq, d.eqOn = d0.eqOn, d.agc = d0.agc,
         d.top = d0.top, d.nr = d0.nr, d.volume = d0.volume, d.plain = d0.plain
  PROVE  Heard!Passband(d, c) \in Heard!Channel /\ Heard!Follows(d, Heard!Passband(d, c))
BY PassbandIs DEF Heard!Follows, Heard!EqRuns

LEMMA ModeFollows ==
  ASSUME NEW d \in Heard!Setting, NEW d0 \in Heard!Setting, NEW c \in Heard!Channel, Heard!Follows(d0, c),
         d.model = d0.model, d.agc = d0.agc, d.top = d0.top, d.nr = d0.nr,
         d.volume = d0.volume, d.plain = d0.plain
  PROVE  Heard!ModeApplied(d, c) \in Heard!Channel /\ Heard!Follows(d, Heard!ModeApplied(d, c))
<1> DEFINE c1 == Heard!Nnr(d, c)
           c2 == Heard!Mode(d, c1)
           c3 == Heard!Eq(d, c2)
           c4 == Heard!Passband(d, c3)
<1>1. /\ c1 \in Heard!Channel
      /\ c1.model = d.model + (IF d.mode \in Heard!CwModes THEN 2 ELSE 0)
      /\ c1.gain = c.gain /\ c1.agc = c.agc /\ c1.top = c.top /\ c1.running = c.running /\ c1.plain = c.plain
  BY NnrIs
<1> HIDE DEF c1
<1>2. /\ c2 \in Heard!Channel /\ c2.mode = IF d.mode = "rtty" THEN "digu" ELSE d.mode
      /\ c2.model = c1.model /\ c2.gain = c1.gain /\ c2.agc = c1.agc /\ c2.top = c1.top
      /\ c2.running = c1.running /\ c2.plain = c1.plain
  BY <1>1, ModeIs
<1> HIDE DEF c2
<1>3. /\ c3 \in Heard!Channel /\ c3.eq = d.eq /\ c3.eqRun = Heard!EqRuns(d) /\ c3.mode = c2.mode
      /\ c3.model = c2.model /\ c3.gain = c2.gain /\ c3.agc = c2.agc /\ c3.top = c2.top
      /\ c3.running = c2.running /\ c3.plain = c2.plain
  BY <1>2, EqIs
<1> HIDE DEF c3
<1>4. /\ c4 \in Heard!Channel
      /\ c4.pass = [at |-> Heard!Pitch(d), width |-> d.width] /\ c4.shift = d.ctun - Heard!Pitch(d)
      /\ c4.eq = c3.eq /\ c4.eqRun = c3.eqRun /\ c4.mode = c3.mode
      /\ c4.model = c3.model /\ c4.gain = c3.gain /\ c4.agc = c3.agc /\ c4.top = c3.top
      /\ c4.running = c3.running /\ c4.plain = c3.plain
  BY <1>3, PassbandIs
<1>5. Heard!ModeApplied(d, c) = c4
  BY DEF Heard!ModeApplied, c1, c2, c3
<1> HIDE DEF c4
<1>6. QED
  BY <1>1, <1>2, <1>3, <1>4, <1>5 DEF Heard!Follows

LEMMA AgcFollows ==
  ASSUME NEW d \in Heard!Setting, NEW d0 \in Heard!Setting, NEW c \in Heard!Channel, Heard!Follows(d0, c),
         d.mode = d0.mode, d.width = d0.width, d.ctun = d0.ctun, d.cw = d0.cw, d.rtty = d0.rtty,
         d.model = d0.model, d.eq = d0.eq, d.eqOn = d0.eqOn,
         d.nr = d0.nr, d.volume = d0.volume, d.plain = d0.plain
  PROVE  Heard!Agc(d, c) \in Heard!Channel /\ Heard!Follows(d, Heard!Agc(d, c))
BY AgcIs DEF Heard!Follows, Heard!EqRuns, Heard!Pitch

LEMMA EqFollows ==
  ASSUME NEW d \in Heard!Setting, NEW d0 \in Heard!Setting, NEW c \in Heard!Channel, Heard!Follows(d0, c),
         d.mode = d0.mode, d.width = d0.width, d.ctun = d0.ctun, d.cw = d0.cw, d.rtty = d0.rtty,
         d.model = d0.model, d.agc = d0.agc, d.top = d0.top,
         d.nr = d0.nr, d.volume = d0.volume, d.plain = d0.plain
  PROVE  Heard!Eq(d, c) \in Heard!Channel /\ Heard!Follows(d, Heard!Eq(d, c))
BY EqIs DEF Heard!Follows, Heard!Pitch

LEMMA NrFollows ==
  ASSUME NEW d \in Heard!Setting, NEW d0 \in Heard!Setting, NEW c \in Heard!Channel, Heard!Follows(d0, c),
         d.mode = d0.mode, d.width = d0.width, d.ctun = d0.ctun, d.cw = d0.cw, d.rtty = d0.rtty,
         d.model = d0.model, d.agc = d0.agc, d.top = d0.top, d.eq = d0.eq, d.eqOn = d0.eqOn,
         d.volume = d0.volume, d.plain = d0.plain
  PROVE  Heard!Nr(d, c) \in Heard!Channel /\ Heard!Follows(d, Heard!Nr(d, c))
BY NrIs DEF Heard!Follows, Heard!Pitch, Heard!EqRuns

LEMMA NnrFollows ==
  ASSUME NEW d \in Heard!Setting, NEW d0 \in Heard!Setting, NEW c \in Heard!Channel, Heard!Follows(d0, c),
         d.mode = d0.mode, d.width = d0.width, d.ctun = d0.ctun, d.cw = d0.cw, d.rtty = d0.rtty,
         d.agc = d0.agc, d.top = d0.top, d.eq = d0.eq, d.eqOn = d0.eqOn,
         d.nr = d0.nr, d.volume = d0.volume, d.plain = d0.plain
  PROVE  Heard!Nnr(d, c) \in Heard!Channel /\ Heard!Follows(d, Heard!Nnr(d, c))
BY NnrIs DEF Heard!Follows, Heard!Pitch, Heard!EqRuns

\* The channel start_radio leaves.
LEMMA CreatedFollows ==
  ASSUME NEW d0 \in Heard!Setting, NEW d1 \in Heard!Setting, NEW d2 \in Heard!Setting,
         NEW c \in Heard!Channel,
         d1.mode = d0.mode, d1.width = d0.width, d1.model = d0.model, d1.eq = d0.eq, d1.eqOn = d0.eqOn,
         d1.volume = d0.volume, d1.plain = d0.plain,
         d2.mode = d1.mode, d2.width = d1.width, d2.model = d1.model, d2.eq = d1.eq, d2.eqOn = d1.eqOn,
         d2.volume = d1.volume, d2.plain = d1.plain, d2.agc = d1.agc, d2.top = d1.top
  PROVE  LET e == Heard!Passband(d2, Heard!Nr(d2, Heard!Agc(d1, Heard!Created(d0, c))))
         IN  e \in Heard!Channel /\ Heard!Follows(d2, e)
<1> DEFINE c1 == Heard!Mode(d0, c)
           c2 == Heard!Eq(d0, c1)
           c3 == Heard!Passband(d0, c2)
           c4 == Heard!Agc(d0, c3)
           c5 == Heard!Nnr(d0, c4)
           c6 == Heard!Nr(d0, c5)
           c7 == [c6 EXCEPT !.gain = d0.volume, !.plain = d0.plain]
           c8 == Heard!Agc(d1, c7)
           c9 == Heard!Nr(d2, c8)
           e  == Heard!Passband(d2, c9)
<1>1. c1 \in Heard!Channel /\ c1.mode = IF d0.mode = "rtty" THEN "digu" ELSE d0.mode
  BY ModeIs
<1> HIDE DEF c1
<1>2. /\ c2 \in Heard!Channel /\ c2.mode = c1.mode /\ c2.eq = d0.eq /\ c2.eqRun = Heard!EqRuns(d0)
  BY <1>1, EqIs
<1> HIDE DEF c2
<1>3. c3 \in Heard!Channel /\ c3.mode = c2.mode /\ c3.eq = c2.eq /\ c3.eqRun = c2.eqRun
  BY <1>2, PassbandIs
<1> HIDE DEF c3
<1>4. c4 \in Heard!Channel /\ c4.mode = c3.mode /\ c4.eq = c3.eq /\ c4.eqRun = c3.eqRun
  BY <1>3, AgcIs
<1> HIDE DEF c4
<1>5. /\ c5 \in Heard!Channel /\ c5.mode = c4.mode /\ c5.eq = c4.eq /\ c5.eqRun = c4.eqRun
      /\ c5.model = d0.model + (IF d0.mode \in Heard!CwModes THEN 2 ELSE 0)
  BY <1>4, NnrIs
<1> HIDE DEF c5
<1>6. /\ c6 \in Heard!Channel /\ c6.mode = c5.mode /\ c6.eq = c5.eq /\ c6.eqRun = c5.eqRun
      /\ c6.model = c5.model
  BY <1>5, NrIs
<1> HIDE DEF c6
<1>7. /\ c7 \in Heard!Channel /\ c7.mode = c6.mode /\ c7.eq = c6.eq /\ c7.eqRun = c6.eqRun
      /\ c7.model = c6.model /\ c7.gain = d0.volume /\ c7.plain = d0.plain
  BY <1>6 DEF Heard!Channel, Heard!Setting
<1>8. Heard!Created(d0, c) = c7
  BY DEF Heard!Created, c1, c2, c3, c4, c5, c6
<1> HIDE DEF c7
<1>9. /\ c8 \in Heard!Channel /\ c8.mode = c7.mode /\ c8.eq = c7.eq /\ c8.eqRun = c7.eqRun
      /\ c8.model = c7.model /\ c8.gain = c7.gain /\ c8.plain = c7.plain
      /\ c8.agc = d1.agc /\ (d1.agc > 0 => c8.top = d1.top)
  BY <1>7, AgcIs
<1> HIDE DEF c8
<1>10. /\ c9 \in Heard!Channel /\ c9.mode = c8.mode /\ c9.eq = c8.eq /\ c9.eqRun = c8.eqRun
       /\ c9.model = c8.model /\ c9.gain = c8.gain /\ c9.plain = c8.plain
       /\ c9.agc = c8.agc /\ c9.top = c8.top /\ c9.running = {d2.nr} \ {0}
  BY <1>9, NrIs
<1> HIDE DEF c9
<1>11. /\ e \in Heard!Channel /\ e.mode = c9.mode /\ e.eq = c9.eq /\ e.eqRun = c9.eqRun
       /\ e.model = c9.model /\ e.gain = c9.gain /\ e.plain = c9.plain
       /\ e.agc = c9.agc /\ e.top = c9.top /\ e.running = c9.running
       /\ e.pass = [at |-> Heard!Pitch(d2), width |-> d2.width] /\ e.shift = d2.ctun - Heard!Pitch(d2)
  BY <1>10, PassbandIs
<1>12. Heard!Passband(d2, Heard!Nr(d2, Heard!Agc(d1, Heard!Created(d0, c)))) = e
  BY <1>8 DEF c8, c9
<1> HIDE DEF e
<1>13. Heard!EqRuns(d2) = Heard!EqRuns(d0)
  BY DEF Heard!EqRuns
<1>14. Heard!Follows(d2, e)
  BY <1>1, <1>2, <1>3, <1>4, <1>5, <1>6, <1>7, <1>9, <1>10, <1>11, <1>13 DEF Heard!Follows
<1>15. QED
  BY <1>11, <1>12, <1>14

-----------------------------------------------------------------------------
(* Every handler leaves the caches as the App says and the channel as its  *)
(* caches say.                                                             *)

AppType == [set : Heard!Setting, filter : [Heard!RxModes -> Filters], agcBy : [Heard!Groups -> Heard!AgcModes]]

LEMMA AppOfSet == ASSUME Heard!HeardInv, NEW s \in Heard!Setting PROVE [x1 EXCEPT !.set = s] \in AppType
BY DEF Heard!HeardInv, Heard!Types, AppType

LEMMA SetOfApp == ASSUME Heard!HeardInv PROVE x1.set \in Heard!Setting /\ x2 \in Heard!Setting /\ x3 \in Heard!Channel
BY DEF Heard!HeardInv, Heard!Types

LEMMA SetterKeeps ==
  ASSUME Heard!HeardInv, NEW d \in Heard!Setting, NEW c,
         x1' \in AppType, x1'.set.agc = x1'.agcBy[Heard!GroupOf(x1'.set.mode)],
         x2' = d, x3' = IF x4 THEN c ELSE x3, x4' = x4, x8' \in BOOLEAN, x19' \in Nat \ {0},
         x4 => Heard!Told(x2, x1.set)',
         x4 => c \in Heard!Channel /\ Heard!Follows(d, c)
  PROVE  Heard!HeardInv'
<1>1. x2' \in Heard!Setting /\ x3' \in Heard!Channel /\ x4' \in BOOLEAN
  BY DEF Heard!HeardInv, Heard!Types
<1>2. Heard!Types'
  BY <1>1 DEF Heard!Types, AppType
<1>3. x4' => Heard!Told(x2, x1.set)' /\ Heard!Follows(x2', x3')
  OBVIOUS
<1>4. Heard!Follows(x2', x3') = Heard!Follows(x2, x3)'
  BY DEF Heard!Follows, Heard!Pitch, Heard!EqRuns
<1>5. QED
  BY <1>2, <1>3, <1>4 DEF Heard!HeardInv

LEMMA HeardSame == ASSUME Heard!HeardInv, UNCHANGED <<x1, x2, x3, x4, x6, x8, x9, x19>> PROVE Heard!HeardInv'
BY DEF Heard!HeardInv, Heard!Types, Heard!Told, Heard!Follows, Heard!Pitch, Heard!EqRuns

\* A handler that leaves the AGC and its file alone.
LEMMA PlainSetterKeeps ==
  ASSUME Heard!HeardInv, NEW s \in Heard!Setting, NEW d \in Heard!Setting, NEW c,
         x1' = [x1 EXCEPT !.set = s], s.agc = x1.set.agc, s.mode = x1.set.mode,
         x2' = d, x3' = IF x4 THEN c ELSE x3, x4' = x4, x8' \in BOOLEAN, x19' = x19 + 1,
         x4 => Heard!Told(x2, x1.set)',
         x4 => c \in Heard!Channel /\ Heard!Follows(d, c)
  PROVE  Heard!HeardInv'
<1>1. x1' \in AppType
  BY AppOfSet
<1>2. x1'.set = s /\ x1'.agcBy = x1.agcBy
  BY DEF Heard!HeardInv, Heard!Types
<1>3. x1'.set.agc = x1'.agcBy[Heard!GroupOf(x1'.set.mode)]
  BY <1>2 DEF Heard!HeardInv
<1>4. x19' \in Nat \ {0}
  BY DEF Heard!HeardInv, Heard!Types
<1>5. QED
  BY <1>1, <1>3, <1>4, SetterKeeps

LEMMA HeardStart == ASSUME part = "receiver", Init PROVE Heard!HeardInv
<1>1. Heard!Init
  BY DEF Init
<1>2. PICK p \in Pitches, e \in Profiles, m \in Heard!RxModes :
        x1 = [set |-> [Heard!Defaults EXCEPT !.cw = p, !.eq = e, !.eqOn = (e # Flat), !.mode = m],
              filter |-> [n \in Heard!RxModes |-> Heard!Defaults.width],
              agcBy |-> [g \in Heard!Groups |-> 3]]
  BY <1>1 DEF Heard!Init
<1>3. Heard!Defaults \in Heard!Setting /\ Heard!Defaults.agc = 3 /\ Heard!Defaults.eq = Flat
      /\ Heard!Defaults.eqOn = FALSE /\ Heard!Defaults.width \in Filters
  <2>1. /\ (CHOOSE w \in Filters : TRUE) \in Filters /\ (CHOOSE q \in Pitches : TRUE) \in Pitches
        /\ (CHOOSE t \in Tops : TRUE) \in Tops
    BY PartAssumptions DEF Heard!ReceiverAssumption
  <2>2. (CHOOSE v \in Volumes : v > 0) \in Volumes
    BY PartAssumptions DEF Heard!ReceiverAssumption
  <2>3. "usb" \in Heard!RxModes /\ 3 \in Heard!AgcModes /\ 0 \in Heard!NrModes
    BY DEF Heard!RxModes, Heard!AgcModes, Heard!NrModes
  <2>4. QED
    BY <2>1, <2>2, <2>3, ReceiverConstants DEF Heard!Defaults, Heard!Setting
<1>4. x1.set \in Heard!Setting /\ x1.set.agc = 3
  BY <1>2, <1>3 DEF Heard!Setting
<1>5. x1.filter \in [Heard!RxModes -> Filters] /\ x1.agcBy \in [Heard!Groups -> Heard!AgcModes]
  BY <1>2, <1>3 DEF Heard!AgcModes
<1>6. x1 \in AppType
  BY <1>2, <1>4, <1>5 DEF AppType
<1>7. x2 = Heard!Defaults /\ x2.ctun = x1.set.ctun
  BY <1>1, <1>2 DEF Heard!Init, Heard!Defaults
<1>8. x3 \in Heard!Channel
  BY <1>1, ReceiverConstants DEF Heard!Init, Heard!Channel, Heard!AgcModes
<1>9. x4 = FALSE /\ x8 = FALSE /\ x6 = FALSE /\ x19 = 0
  BY <1>1 DEF Heard!Init
<1>10. x1.set.agc = x1.agcBy[Heard!GroupOf(x1.set.mode)]
  BY <1>2, <1>4, GroupOfType DEF Heard!Setting
<1>11. Heard!Types
  BY <1>3, <1>6, <1>7, <1>8, <1>9 DEF Heard!Types, AppType
<1>12. QED
  BY <1>3, <1>7, <1>9, <1>10, <1>11 DEF Heard!HeardInv

LEMMA StartKeeps ==
  ASSUME Heard!HeardInv, NEW works \in BOOLEAN, NEW tx \in BOOLEAN, Heard!Start(works, tx)
  PROVE  Heard!HeardInv'
<1> DEFINE a  == x1.set
           d0 == [x2 EXCEPT !.model = a.model, !.plain = a.plain, !.mode = a.mode, !.width = a.width,
                            !.volume = a.volume]
           d1 == [d0 EXCEPT !.agc = a.agc, !.top = a.top, !.nr = a.nr]
           d2 == [d1 EXCEPT !.rtty = a.rtty, !.cw = IF tx THEN a.cw ELSE @]
           e  == Heard!Passband(d2, Heard!Nr(d2, Heard!Agc(d1, Heard!Created(d0, x3))))
           dn == [x2 EXCEPT !.model = a.model, !.plain = a.plain, !.rtty = d2.rtty, !.cw = d2.cw]
<1>1. /\ x19 = 0 /\ x4' = works /\ x19' = 1
      /\ x2' = IF works THEN d2 ELSE dn
      /\ x3' = IF works THEN e ELSE x3
      /\ x9' = (IF a.eqOn \/ a.eq # Flat THEN {"eq"} ELSE {}) \cup (IF tx THEN {} ELSE {"cw"})
      /\ x1' = x1 /\ x8' = x8
  BY DEF Heard!Start, Heard!switch
<1>2. a \in Heard!Setting /\ x2 \in Heard!Setting /\ x3 \in Heard!Channel
  BY SetOfApp
<1>3. d0 \in Heard!Setting
  BY <1>2 DEF Heard!Setting
<1>4. d1 \in Heard!Setting
  BY <1>2, <1>3 DEF Heard!Setting
<1>5. d2 \in Heard!Setting
  BY <1>2, <1>4 DEF Heard!Setting
<1>6. dn \in Heard!Setting
  <2> HIDE DEF d2
  <2>1. d2.rtty \in Pitches /\ d2.cw \in Pitches
    BY <1>5 DEF Heard!Setting
  <2>2. QED
    BY <1>2, <2>1 DEF Heard!Setting
<1>7. /\ d1.mode = d0.mode /\ d1.width = d0.width /\ d1.model = d0.model /\ d1.eq = d0.eq /\ d1.eqOn = d0.eqOn
      /\ d1.volume = d0.volume /\ d1.plain = d0.plain
  BY <1>3 DEF Heard!Setting
<1>8. /\ d2.mode = d1.mode /\ d2.width = d1.width /\ d2.model = d1.model /\ d2.eq = d1.eq /\ d2.eqOn = d1.eqOn
      /\ d2.volume = d1.volume /\ d2.plain = d1.plain /\ d2.agc = d1.agc /\ d2.top = d1.top
  BY <1>4 DEF Heard!Setting
<1>9. /\ d2.mode = a.mode /\ d2.width = a.width /\ d2.ctun = x2.ctun /\ d2.rtty = a.rtty /\ d2.agc = a.agc
      /\ d2.top = a.top /\ d2.nr = a.nr /\ d2.model = a.model /\ d2.plain = a.plain /\ d2.volume = a.volume
      /\ d2.eq = x2.eq /\ d2.eqOn = x2.eqOn /\ (tx => d2.cw = a.cw)
  BY <1>2 DEF Heard!Setting
<1>10. e \in Heard!Channel /\ Heard!Follows(d2, e)
  <2> HIDE DEF d0, d1, d2
  <2>1. QED
    BY <1>2, <1>3, <1>4, <1>5, <1>7, <1>8, CreatedFollows
<1> HIDE DEF d0, d1, d2, e, dn
<1>11. ~x8 /\ x2.ctun = a.ctun /\ x2.eq = Flat /\ ~x2.eqOn
  BY <1>1 DEF Heard!HeardInv
<1>12. works => Heard!Told(x2, x1.set)'
  <2>1. SUFFICES ASSUME works PROVE Heard!Told(x2, x1.set)'
    OBVIOUS
  <2>2. "eq" \notin x9' => ~a.eqOn /\ a.eq = Flat
    BY <1>1
  <2>3. "cw" \notin x9' => tx
    BY <1>1
  <2>4. a.eqOn \in BOOLEAN /\ x2.eqOn \in BOOLEAN
    BY <1>2 DEF Heard!Setting
  <2>5. x2' = d2 /\ x1'.set = a /\ ~x8'
    BY <2>1, <1>1, <1>11
  <2>6. "eq" \notin x9' => d2.eq = a.eq /\ d2.eqOn = a.eqOn
    BY <2>2, <2>4, <1>9, <1>11
  <2>7. QED
    BY <2>3, <2>5, <2>6, <1>9, <1>11 DEF Heard!Told
<1>13. works => Heard!Follows(x2, x3)'
  <2>1. SUFFICES ASSUME works PROVE Heard!Follows(x2, x3)'
    OBVIOUS
  <2>2. x2' = d2 /\ x3' = e
    BY <2>1, <1>1
  <2>3. QED
    BY <2>2, <1>10 DEF Heard!Follows, Heard!Pitch, Heard!EqRuns
<1>14. Heard!Types'
  <2>1. x2' \in Heard!Setting /\ x3' \in Heard!Channel
    BY <1>1, <1>2, <1>5, <1>6, <1>10
  <2>2. QED
    BY <2>1, <1>1 DEF Heard!HeardInv, Heard!Types
<1>15. QED
  BY <1>1, <1>12, <1>13, <1>14 DEF Heard!HeardInv

LEMMA ModeKeeps ==
  ASSUME Heard!HeardInv, NEW m \in Heard!RxModes, Heard!ToMode(m)
  PROVE  Heard!HeardInv'
<1> DEFINE a     == x1.set
           filed == [x1.agcBy EXCEPT ![Heard!GroupOf(a.mode)] = a.agc]
           same  == Heard!GroupOf(m) = Heard!GroupOf(a.mode)
           agc   == IF same THEN a.agc ELSE filed[Heard!GroupOf(m)]
           d1    == IF agc # a.agc THEN [x2 EXCEPT !.agc = agc] ELSE x2
           c1    == IF agc # a.agc THEN Heard!Agc(d1, x3) ELSE x3
           d2    == [d1 EXCEPT !.mode = m, !.width = x1.filter[m]]
           s     == [a EXCEPT !.mode = m, !.width = x1.filter[m], !.agc = agc]
           by    == IF same THEN x1.agcBy ELSE filed
           e     == Heard!ModeApplied(d2, c1)
<1>1. /\ x19 \in 1..(RxDisturb - 1) /\ x19' = x19 + 1
      /\ x1' = [x1 EXCEPT !.set = s, !.agcBy = by]
      /\ x2' = d2 /\ x3' = (IF x4 THEN e ELSE x3)
      /\ x4' = x4 /\ x8' = x8 /\ x9' = x9
  BY DEF Heard!ToMode, Heard!Input, Heard!Cache
<1>2. /\ a \in Heard!Setting /\ x2 \in Heard!Setting /\ x3 \in Heard!Channel
      /\ x1.agcBy \in [Heard!Groups -> Heard!AgcModes] /\ x1.filter[m] \in Filters
      /\ x1 \in AppType /\ a.mode \in Heard!RxModes /\ a.agc \in Heard!AgcModes
  BY SetOfApp DEF Heard!HeardInv, Heard!Types, AppType, Heard!Setting
<1>3. Heard!GroupOf(m) \in Heard!Groups /\ Heard!GroupOf(a.mode) \in Heard!Groups
  BY <1>2, GroupOfType
<1>4. filed \in [Heard!Groups -> Heard!AgcModes]
  BY <1>2
<1>5. by \in [Heard!Groups -> Heard!AgcModes] /\ agc \in Heard!AgcModes
  BY <1>2, <1>3, <1>4
<1>6. agc = by[Heard!GroupOf(m)]
  BY <1>2, <1>3 DEF Heard!HeardInv
<1> HIDE DEF agc, by, filed
<1>7. s \in Heard!Setting /\ s.agc = agc /\ s.mode = m
  BY <1>2, <1>5 DEF Heard!Setting
<1>8. d1 \in Heard!Setting
  BY <1>2, <1>5 DEF Heard!Setting
<1>9. x4 => d1.agc = agc
  BY <1>2 DEF Heard!Setting, Heard!HeardInv, Heard!Told
<1>10. /\ d1.mode = x2.mode /\ d1.width = x2.width /\ d1.ctun = x2.ctun /\ d1.cw = x2.cw /\ d1.rtty = x2.rtty
       /\ d1.model = x2.model /\ d1.eq = x2.eq /\ d1.eqOn = x2.eqOn /\ d1.top = x2.top
       /\ d1.nr = x2.nr /\ d1.volume = x2.volume /\ d1.plain = x2.plain
  BY <1>2 DEF Heard!Setting
<1>11. x4 => c1 \in Heard!Channel /\ Heard!Follows(d1, c1)
  <2>1. CASE agc = a.agc
    BY <2>1, <1>2 DEF Heard!HeardInv
  <2>2. CASE agc # a.agc
    <3>1. c1 = Heard!Agc(d1, x3)
      BY <2>2
    <3> HIDE DEF d1, c1
    <3>2. x4 => Heard!Follows(x2, x3)
      BY DEF Heard!HeardInv
    <3>3. QED
      BY <3>1, <3>2, <1>2, <1>8, <1>10, AgcFollows
  <2>3. QED
    BY <2>1, <2>2
<1> HIDE DEF d1, c1
<1>12. /\ d2 \in Heard!Setting /\ d2.mode = m /\ d2.width = x1.filter[m]
       /\ d2.ctun = d1.ctun /\ d2.cw = d1.cw /\ d2.rtty = d1.rtty /\ d2.agc = d1.agc
       /\ d2.model = d1.model /\ d2.eq = d1.eq /\ d2.eqOn = d1.eqOn /\ d2.top = d1.top
       /\ d2.nr = d1.nr /\ d2.volume = d1.volume /\ d2.plain = d1.plain
  BY <1>2, <1>8 DEF Heard!Setting
<1>13. /\ s.width = x1.filter[m] /\ s.ctun = a.ctun /\ s.cw = a.cw /\ s.rtty = a.rtty /\ s.model = a.model
       /\ s.eq = a.eq /\ s.eqOn = a.eqOn /\ s.top = a.top /\ s.nr = a.nr /\ s.volume = a.volume
       /\ s.plain = a.plain
  BY <1>2 DEF Heard!Setting
<1> HIDE DEF d2, s
<1>14. x4 => e \in Heard!Channel /\ Heard!Follows(d2, e)
  BY <1>8, <1>11, <1>12, ModeFollows
<1> HIDE DEF e
<1>15. x1' \in AppType /\ x1'.set = s /\ x1'.agcBy = by
  BY <1>1, <1>2, <1>5, <1>7 DEF AppType
<1>16. x1'.set.agc = x1'.agcBy[Heard!GroupOf(x1'.set.mode)]
  BY <1>6, <1>7, <1>15
<1>17. x4 => Heard!Told(x2, x1.set)'
  <2>1. x4 => Heard!Told(x2, a)
    BY DEF Heard!HeardInv
  <2>2. QED
    BY <2>1, <1>1, <1>7, <1>9, <1>10, <1>12, <1>13, <1>15 DEF Heard!Told
<1>18. x8' \in BOOLEAN /\ x19' \in Nat \ {0}
  BY <1>1 DEF Heard!HeardInv, Heard!Types
<1>19. QED
  BY <1>1, <1>12, <1>14, <1>15, <1>16, <1>17, <1>18, SetterKeeps

LEMMA FilterKeeps ==
  ASSUME Heard!HeardInv, NEW w \in Filters, NEW filed \in BOOLEAN, Heard!Filter(w, filed)
  PROVE  Heard!HeardInv'
<1> DEFINE a == x1.set
           d == [x2 EXCEPT !.width = w]
           s == [a EXCEPT !.width = w]
           by == [x1.filter EXCEPT ![a.mode] = IF filed THEN w ELSE @]
           e == Heard!Passband(d, x3)
<1>1. /\ x19 \in 1..(RxDisturb - 1) /\ x19' = x19 + 1
      /\ x1' = [x1 EXCEPT !.set = s, !.filter = by]
      /\ x2' = d /\ x3' = (IF x4 THEN e ELSE x3)
      /\ x4' = x4 /\ x8' = x8 /\ x9' = x9
  <2>1. x1' = [x1 EXCEPT !.set.width = w, !.filter[a.mode] = IF filed THEN w ELSE @]
    BY DEF Heard!Filter
  <2>2. QED
    BY <2>1 DEF Heard!Filter, Heard!Input, Heard!Cache
<1>2. /\ a \in Heard!Setting /\ x2 \in Heard!Setting /\ x3 \in Heard!Channel /\ x1 \in AppType
      /\ x1.filter \in [Heard!RxModes -> Filters]
  BY SetOfApp DEF Heard!HeardInv, Heard!Types, AppType
<1>3. by \in [Heard!RxModes -> Filters]
  BY <1>2
<1> HIDE DEF by
<1>4. /\ d \in Heard!Setting /\ d.width = w
      /\ d.mode = x2.mode /\ d.ctun = x2.ctun /\ d.cw = x2.cw /\ d.rtty = x2.rtty /\ d.agc = x2.agc
      /\ d.model = x2.model /\ d.eq = x2.eq /\ d.eqOn = x2.eqOn /\ d.top = x2.top
      /\ d.nr = x2.nr /\ d.volume = x2.volume /\ d.plain = x2.plain
  BY <1>2 DEF Heard!Setting
<1>5. /\ s \in Heard!Setting /\ s.width = w
      /\ s.mode = a.mode /\ s.ctun = a.ctun /\ s.cw = a.cw /\ s.rtty = a.rtty /\ s.agc = a.agc
      /\ s.model = a.model /\ s.eq = a.eq /\ s.eqOn = a.eqOn /\ s.top = a.top
      /\ s.nr = a.nr /\ s.volume = a.volume /\ s.plain = a.plain
  BY <1>2 DEF Heard!Setting
<1> HIDE DEF d, s
<1>6. x1' \in AppType /\ x1'.set = s /\ x1'.agcBy = x1.agcBy
  BY <1>1, <1>2, <1>3, <1>5 DEF AppType
<1>7. x1'.set.agc = x1'.agcBy[Heard!GroupOf(x1'.set.mode)]
  BY <1>5, <1>6 DEF Heard!HeardInv
<1>8. x4 => Heard!Told(x2, a) /\ Heard!Follows(x2, x3)
  BY DEF Heard!HeardInv
<1>9. x4 => e \in Heard!Channel /\ Heard!Follows(d, e)
  BY <1>2, <1>4, <1>8, PassbandFollows
<1> HIDE DEF e
<1>10. x4 => Heard!Told(x2, x1.set)'
  BY <1>1, <1>4, <1>5, <1>6, <1>8 DEF Heard!Told
<1>11. x8' \in BOOLEAN /\ x19' \in Nat \ {0}
  BY <1>1 DEF Heard!HeardInv, Heard!Types
<1>12. QED
  BY <1>1, <1>4, <1>6, <1>7, <1>9, <1>10, <1>11, SetterKeeps

\* Settings that agree in a part of their fields.
SameTuning(d, e) == d.mode = e.mode /\ d.width = e.width /\ d.ctun = e.ctun /\ d.cw = e.cw /\ d.rtty = e.rtty
SameEq(d, e)     == d.eq = e.eq /\ d.eqOn = e.eqOn
SameAgc(d, e)    == d.agc = e.agc /\ d.top = e.top
SameSound(d, e)  == d.volume = e.volume /\ d.plain = e.plain

\* The caches d and the App's s move the same way from d0 and s0, in none of mode,
\* width, AGC and volume.
Parallel(d, s, d0, s0) ==
  /\ d.mode = d0.mode /\ s.mode = s0.mode /\ d.width = d0.width /\ s.width = s0.width
  /\ d.agc = d0.agc /\ s.agc = s0.agc /\ d.volume = d0.volume /\ s.volume = s0.volume
  /\ d0.ctun = s0.ctun => d.ctun = s.ctun
  /\ d0.rtty = s0.rtty => d.rtty = s.rtty
  /\ d0.top = s0.top => d.top = s.top
  /\ d0.nr = s0.nr => d.nr = s.nr
  /\ d0.model = s0.model => d.model = s.model
  /\ d0.plain = s0.plain => d.plain = s.plain

LEMMA SameSetterKeeps ==
  ASSUME Heard!HeardInv, NEW s \in Heard!Setting, NEW d \in Heard!Setting, NEW c,
         Parallel(d, s, x2, x1.set),
         "cw" \notin x9' => d.cw = s.cw \/ ("cw" \notin x9 /\ (x2.cw = x1.set.cw => d.cw = s.cw)),
         "eq" \notin x9' => SameEq(d, s) \/ ("eq" \notin x9 /\ (SameEq(x2, x1.set) => SameEq(d, s))),
         "volume" \notin x9' => "volume" \notin x9,
         x1' = [x1 EXCEPT !.set = s], x2' = d, x3' = IF x4 THEN c ELSE x3, x4' = x4,
         x8' = x8, x19' = x19 + 1,
         x4 => c \in Heard!Channel /\ Heard!Follows(d, c)
  PROVE  Heard!HeardInv'
<1>1. s.agc = x1.set.agc /\ s.mode = x1.set.mode
  BY DEF Parallel
<1>2. x1'.set = s
  BY DEF Heard!HeardInv, Heard!Types
<1>3. x4 => Heard!Told(x2, x1.set)
  BY DEF Heard!HeardInv
<1>4. x4 => Heard!Told(x2, x1.set)'
  BY <1>2, <1>3 DEF Heard!Told, Parallel, SameEq
<1>5. x8' \in BOOLEAN
  BY DEF Heard!HeardInv, Heard!Types
<1>6. QED
  BY <1>1, <1>4, <1>5, PlainSetterKeeps

LEMMA KnownFollows == ASSUME Heard!HeardInv, x4 PROVE Heard!Follows(x2, x3) /\ Heard!Told(x2, x1.set)
BY DEF Heard!HeardInv

LEMMA DialKeeps == ASSUME Heard!HeardInv, NEW o \in Offsets, Heard!DialTo(o) PROVE Heard!HeardInv'
<1> DEFINE d == [x2 EXCEPT !.ctun = o]
           s == [x1.set EXCEPT !.ctun = o]
           c == Heard!Passband(d, x3)
<1>1. /\ x19' = x19 + 1 /\ x1' = [x1 EXCEPT !.set = s] /\ x2' = d /\ x3' = (IF x4 THEN c ELSE x3)
      /\ x4' = x4 /\ x8' = x8 /\ x9' = x9
  BY DEF Heard!DialTo, Heard!Input, Heard!Cache
<1>2. d \in Heard!Setting /\ s \in Heard!Setting
  BY SetOfApp DEF Heard!Setting
<1>3. /\ SameEq(d, x2) /\ SameAgc(d, x2) /\ SameSound(d, x2) /\ d.mode = x2.mode
      /\ d.nr = x2.nr /\ d.model = x2.model /\ d.cw = x2.cw /\ s.cw = x1.set.cw
      /\ SameEq(s, x1.set) /\ Parallel(d, s, x2, x1.set)
  BY SetOfApp DEF Heard!Setting, SameEq, SameAgc, SameSound, Parallel
<1> HIDE DEF d, s
<1>4. x4 => c \in Heard!Channel /\ Heard!Follows(d, c)
  BY <1>2, <1>3, SetOfApp, KnownFollows, PassbandFollows DEF SameEq, SameAgc, SameSound
<1> HIDE DEF c
<1>5. "eq" \notin x9' => "eq" \notin x9 /\ (SameEq(x2, x1.set) => SameEq(d, s))
  BY <1>1, <1>3 DEF SameEq
<1>6. QED
  BY <1>1, <1>2, <1>3, <1>4, <1>5, SameSetterKeeps

LEMMA CwPushKeeps == ASSUME Heard!HeardInv, NEW p \in Pitches, Heard!CwPush(p) PROVE Heard!HeardInv'
<1> DEFINE d == [x2 EXCEPT !.cw = p]
           s == [x1.set EXCEPT !.cw = p]
           c == Heard!Passband(d, x3)
<1>1. /\ x19' = x19 + 1 /\ x1' = [x1 EXCEPT !.set = s] /\ x2' = d /\ x3' = (IF x4 THEN c ELSE x3)
      /\ x4' = x4 /\ x8' = x8 /\ x9' = x9 \ {"cw"}
  BY DEF Heard!CwPush, Heard!Input, Heard!Cache
<1>2. d \in Heard!Setting /\ s \in Heard!Setting
  BY SetOfApp DEF Heard!Setting
<1>3. /\ SameEq(d, x2) /\ SameAgc(d, x2) /\ SameSound(d, x2) /\ d.mode = x2.mode
      /\ d.nr = x2.nr /\ d.model = x2.model /\ d.cw = s.cw
      /\ SameEq(s, x1.set) /\ Parallel(d, s, x2, x1.set)
  BY SetOfApp DEF Heard!Setting, SameEq, SameAgc, SameSound, Parallel
<1> HIDE DEF d, s
<1>4. x4 => c \in Heard!Channel /\ Heard!Follows(d, c)
  BY <1>2, <1>3, SetOfApp, KnownFollows, PassbandFollows DEF SameEq, SameAgc, SameSound
<1> HIDE DEF c
<1>5. /\ "eq" \notin x9' => "eq" \notin x9 /\ (SameEq(x2, x1.set) => SameEq(d, s))
      /\ "volume" \notin x9' => "volume" \notin x9
  BY <1>1, <1>3 DEF SameEq
<1>6. QED
  BY <1>1, <1>2, <1>3, <1>4, <1>5, SameSetterKeeps

\* In another mode than RTTY its pitch is no part of the channel.
LEMMA RttyPushKeeps == ASSUME Heard!HeardInv, NEW p \in Pitches, Heard!RttyPush(p) PROVE Heard!HeardInv'
<1> DEFINE d == [x2 EXCEPT !.rtty = p]
           s == [x1.set EXCEPT !.rtty = p]
           c == IF x2.mode = "rtty" THEN Heard!Passband(d, x3) ELSE x3
<1>1. /\ x19' = x19 + 1 /\ x1' = [x1 EXCEPT !.set = s] /\ x2' = d /\ x3' = (IF x4 THEN c ELSE x3)
      /\ x4' = x4 /\ x8' = x8 /\ x9' = x9
  BY DEF Heard!RttyPush, Heard!Input, Heard!Cache
<1>2. d \in Heard!Setting /\ s \in Heard!Setting
  BY SetOfApp DEF Heard!Setting
<1>3. /\ SameEq(d, x2) /\ SameAgc(d, x2) /\ SameSound(d, x2) /\ d.mode = x2.mode /\ d.width = x2.width
      /\ d.nr = x2.nr /\ d.model = x2.model /\ d.cw = x2.cw /\ d.ctun = x2.ctun /\ s.cw = x1.set.cw
      /\ SameEq(s, x1.set) /\ Parallel(d, s, x2, x1.set)
  BY SetOfApp DEF Heard!Setting, SameEq, SameAgc, SameSound, Parallel
<1> HIDE DEF d, s
<1>4. x4 => c \in Heard!Channel /\ Heard!Follows(d, c)
  <2>1. CASE x2.mode = "rtty"
    BY <2>1, <1>2, <1>3, SetOfApp, KnownFollows, PassbandFollows DEF SameEq, SameAgc, SameSound
  <2>2. CASE x2.mode # "rtty"
    <3>1. Heard!Pitch(d) = Heard!Pitch(x2) /\ Heard!EqRuns(d) = Heard!EqRuns(x2)
      BY <2>2, <1>3 DEF SameEq, Heard!Pitch, Heard!EqRuns
    <3>2. QED
      BY <2>2, <3>1, <1>3, SetOfApp, KnownFollows DEF SameEq, SameAgc, SameSound, Heard!Follows
  <2>3. QED
    BY <2>1, <2>2
<1> HIDE DEF c
<1>5. "eq" \notin x9' => "eq" \notin x9 /\ (SameEq(x2, x1.set) => SameEq(d, s))
  BY <1>1, <1>3 DEF SameEq
<1>6. QED
  BY <1>1, <1>2, <1>3, <1>4, <1>5, SameSetterKeeps

LEMMA EqEditKeeps ==
  ASSUME Heard!HeardInv, NEW on \in BOOLEAN, NEW p \in Profiles, Heard!EqEdit(on, p)
  PROVE  Heard!HeardInv'
<1> DEFINE d == [x2 EXCEPT !.eqOn = on, !.eq = p]
           s == [x1.set EXCEPT !.eqOn = on, !.eq = p]
           c == Heard!Eq(d, x3)
<1>1. /\ x19' = x19 + 1 /\ x1' = [x1 EXCEPT !.set = s] /\ x2' = d /\ x3' = (IF x4 THEN c ELSE x3)
      /\ x4' = x4 /\ x8' = x8 /\ x9' = x9 \ {"eq"}
  BY DEF Heard!EqEdit, Heard!Input, Heard!Cache, Heard!EqPushed
<1>2. d \in Heard!Setting /\ s \in Heard!Setting
  BY SetOfApp DEF Heard!Setting
<1>3. /\ SameTuning(d, x2) /\ SameAgc(d, x2) /\ SameSound(d, x2)
      /\ d.nr = x2.nr /\ d.model = x2.model /\ s.cw = x1.set.cw
      /\ SameEq(d, s) /\ Parallel(d, s, x2, x1.set)
  BY SetOfApp DEF Heard!Setting, SameTuning, SameEq, SameAgc, SameSound, Parallel
<1> HIDE DEF d, s
<1>4. x4 => c \in Heard!Channel /\ Heard!Follows(d, c)
  BY <1>2, <1>3, SetOfApp, KnownFollows, EqFollows DEF SameTuning, SameAgc, SameSound
<1> HIDE DEF c
<1>5. /\ "cw" \notin x9' => "cw" \notin x9 /\ (x2.cw = x1.set.cw => d.cw = s.cw)
      /\ "volume" \notin x9' => "volume" \notin x9
  BY <1>1, <1>3 DEF SameTuning
<1>6. QED
  BY <1>1, <1>2, <1>3, <1>4, <1>5, SameSetterKeeps

\* A drag moves the App only, and owes the push.
LEMMA EqDragKeeps == ASSUME Heard!HeardInv, NEW p \in Profiles, Heard!EqDrag(p) PROVE Heard!HeardInv'
<1> DEFINE s == [x1.set EXCEPT !.eq = p]
<1>1. /\ x19' = x19 + 1 /\ x1' = [x1 EXCEPT !.set = s] /\ x2' = x2 /\ x3' = x3
      /\ x4' = x4 /\ x8' = x8 /\ x9' = x9 \cup {"eq"}
  BY DEF Heard!EqDrag, Heard!Input
<1>2. s \in Heard!Setting /\ s.cw = x1.set.cw /\ Parallel(x2, s, x2, x1.set)
  BY SetOfApp DEF Heard!Setting, Parallel
<1> HIDE DEF s
<1>3. /\ "cw" \notin x9' => "cw" \notin x9 /\ (x2.cw = x1.set.cw => x2.cw = s.cw)
      /\ "volume" \notin x9' => "volume" \notin x9
      /\ "eq" \in x9'
  BY <1>1, <1>2
<1>4. QED
  BY <1>1, <1>2, <1>3, SetOfApp, KnownFollows, SameSetterKeeps

\* The push a drag left pending, of the page that is shown then.
LEMMA EqApplyKeeps == ASSUME Heard!HeardInv, Heard!EqApply PROVE Heard!HeardInv'
<1>1. CASE x7 = "rx"
  <2> DEFINE d == [x2 EXCEPT !.eqOn = x1.set.eqOn, !.eq = x1.set.eq]
             c == Heard!Eq(d, x3)
  <2>1. /\ x1' = x1 /\ x2' = d /\ x3' = (IF x4 THEN c ELSE x3)
        /\ x4' = x4 /\ x8' = x8 /\ x19' = x19 /\ x6
    BY <1>1 DEF Heard!EqApply, Heard!EqPushed, Heard!Cache
  <2>2. x9' = x9 \ {"eq"}
    BY <1>1 DEF Heard!EqApply
  <2>3. /\ d \in Heard!Setting /\ SameTuning(d, x2) /\ SameAgc(d, x2) /\ SameSound(d, x2)
        /\ d.nr = x2.nr /\ d.model = x2.model /\ SameEq(d, x1.set)
    BY SetOfApp DEF Heard!Setting, SameTuning, SameEq, SameAgc, SameSound
  <2> HIDE DEF d
  <2>4. x4 => c \in Heard!Channel /\ Heard!Follows(d, c)
    BY <2>3, SetOfApp, KnownFollows, EqFollows DEF SameTuning, SameAgc, SameSound
  <2> HIDE DEF c
  <2>5. x4 => Heard!Told(x2, x1.set)'
    BY <2>1, <2>2, <2>3, KnownFollows DEF Heard!Told, SameTuning, SameEq, SameAgc, SameSound
  <2>6. x1' \in AppType /\ x1'.set.agc = x1'.agcBy[Heard!GroupOf(x1'.set.mode)] /\ x8' \in BOOLEAN
    BY <2>1 DEF Heard!HeardInv, Heard!Types, AppType
  <2>7. x19' \in Nat \ {0}
    BY <2>1 DEF Heard!HeardInv, Heard!Types
  <2>8. QED
    BY <2>1, <2>3, <2>4, <2>5, <2>6, <2>7, SetterKeeps
<1>2. CASE x7 # "rx"
  <2>1. UNCHANGED <<x1, x2, x3, x4, x8, x9, x19>> /\ x6
    BY <1>2 DEF Heard!EqApply
  <2>2. x19 # 0
    BY <2>1 DEF Heard!HeardInv
  <2>3. QED
    BY <2>1, <2>2
    DEF Heard!HeardInv, Heard!Types, Heard!Told, Heard!Follows, Heard!Pitch, Heard!EqRuns
<1>3. QED
  BY <1>1, <1>2

LEMMA QuietKeeps ==
  ASSUME Heard!HeardInv, UNCHANGED <<x1, x2, x3, x4, x8, x9>>, x19 \in Nat, x19' = x19 + 1
  PROVE  Heard!HeardInv'
<1>1. x19' # 0 /\ x19' \in Nat
  OBVIOUS
<1>2. QED
  BY <1>1 DEF Heard!HeardInv, Heard!Types, Heard!Told, Heard!Follows, Heard!Pitch, Heard!EqRuns

\* The channel after the volume: demod_set_volume, or the setter of one WDSP call.
LEMMA VolumeFollows ==
  ASSUME Heard!HeardInv, NEW v \in Volumes, x4
  PROVE  LET d == [x2 EXCEPT !.volume = v]
             c == [x3 EXCEPT !.gain = v]
         IN  c \in Heard!Channel /\ Heard!Follows(d, c)
<1> DEFINE d == [x2 EXCEPT !.volume = v]
           c == [x3 EXCEPT !.gain = v]
<1>1. d \in Heard!Setting /\ SameTuning(d, x2) /\ SameEq(d, x2) /\ SameAgc(d, x2) /\ d.nr = x2.nr
      /\ d.model = x2.model /\ d.plain = x2.plain /\ d.volume = v
  BY SetOfApp DEF Heard!Setting, SameTuning, SameEq, SameAgc
<1>2. /\ c \in Heard!Channel /\ c.pass = x3.pass /\ c.shift = x3.shift /\ c.mode = x3.mode /\ c.model = x3.model
      /\ c.eqRun = x3.eqRun /\ c.eq = x3.eq /\ c.agc = x3.agc /\ c.top = x3.top /\ c.running = x3.running
      /\ c.plain = x3.plain /\ c.gain = v
  BY SetOfApp DEF Heard!Channel
<1> HIDE DEF d, c
<1>3. Heard!Pitch(d) = Heard!Pitch(x2) /\ Heard!EqRuns(d) = Heard!EqRuns(x2)
  BY <1>1 DEF SameTuning, SameEq, Heard!Pitch, Heard!EqRuns
<1>4. Heard!Follows(d, c)
  BY <1>1, <1>2, <1>3, KnownFollows DEF SameTuning, SameEq, SameAgc, Heard!Follows
<1>5. QED
  BY <1>2, <1>4 DEF d, c

\* A volume that the caches take, as the App has it or as a TCI mute wants it.
LEMMA VolumeSetterKeeps ==
  ASSUME Heard!HeardInv, NEW v \in Volumes, NEW w \in Volumes, NEW s \in Heard!Setting,
         s = [x1.set EXCEPT !.volume = w], x1' = [x1 EXCEPT !.set = s],
         x2' = [x2 EXCEPT !.volume = v], x3' = IF x4 THEN [x3 EXCEPT !.gain = v] ELSE x3, x4' = x4,
         x8' \in BOOLEAN, x19' = x19 + 1,
         "cw" \notin x9' => "cw" \notin x9,
         "eq" \notin x9' => "eq" \notin x9,
         "volume" \notin x9' => v = IF x8' THEN 0 ELSE w
  PROVE  Heard!HeardInv'
<1> DEFINE d == [x2 EXCEPT !.volume = v]
           c == [x3 EXCEPT !.gain = v]
<1>1. x4 => c \in Heard!Channel /\ Heard!Follows(d, c)
  BY VolumeFollows
<1>2. d \in Heard!Setting /\ SameTuning(d, x2) /\ SameEq(d, x2) /\ SameAgc(d, x2) /\ d.nr = x2.nr
      /\ d.model = x2.model /\ d.plain = x2.plain /\ d.volume = v
  BY SetOfApp DEF Heard!Setting, SameTuning, SameEq, SameAgc
<1>3. SameTuning(s, x1.set) /\ SameEq(s, x1.set) /\ SameAgc(s, x1.set) /\ s.nr = x1.set.nr
      /\ s.model = x1.set.model /\ s.plain = x1.set.plain /\ s.volume = w
  BY SetOfApp DEF Heard!Setting, SameTuning, SameEq, SameAgc
<1>4. x2' = d /\ x3' = IF x4 THEN c ELSE x3
  OBVIOUS
<1> HIDE DEF d, c
<1>5. x1'.set = s
  BY DEF Heard!HeardInv, Heard!Types
<1>6. x4 => Heard!Told(x2, x1.set)'
  <2>1. SUFFICES ASSUME x4 PROVE Heard!Told(x2, x1.set)'
    OBVIOUS
  <2>2. Heard!Told(x2, x1.set)
    BY <2>1, KnownFollows
  <2>3. /\ d.mode = s.mode /\ d.width = s.width /\ d.ctun = s.ctun /\ d.rtty = s.rtty /\ d.agc = s.agc
        /\ d.top = s.top /\ d.nr = s.nr /\ d.model = s.model /\ d.plain = s.plain
    BY <2>2, <1>2, <1>3 DEF Heard!Told, SameTuning, SameAgc
  <2>4. "cw" \notin x9' => d.cw = s.cw
    BY <2>2, <1>2, <1>3 DEF Heard!Told, SameTuning
  <2>5. "eq" \notin x9' => d.eq = s.eq /\ d.eqOn = s.eqOn
    BY <2>2, <1>2, <1>3 DEF Heard!Told, SameEq
  <2>6. "volume" \notin x9' => d.volume = IF x8' THEN 0 ELSE s.volume
    BY <1>2, <1>3
  <2>7. x2' = d
    BY <1>4
  <2> HIDE <1>4
  <2>8. QED
    BY <2>3, <2>4, <2>5, <2>6, <2>7, <1>5 DEF Heard!Told
<1>7. s.agc = x1.set.agc /\ s.mode = x1.set.mode
  BY <1>3 DEF SameTuning, SameAgc
<1>8. QED
  BY <1>1, <1>2, <1>4, <1>6, <1>7, PlainSetterKeeps

LEMMA VolumeKeeps == ASSUME Heard!HeardInv, NEW v \in Volumes, Heard!Volume(v) PROVE Heard!HeardInv'
<1> DEFINE s == [x1.set EXCEPT !.volume = v]
<1>1. /\ x19' = x19 + 1 /\ x1' = [x1 EXCEPT !.set = s] /\ x2' = [x2 EXCEPT !.volume = v]
      /\ x3' = (IF x4 THEN [x3 EXCEPT !.gain = v] ELSE x3)
      /\ x4' = x4 /\ x8' = x8 /\ x9' = x9 \cup (IF x8 THEN {"volume"} ELSE {})
  BY DEF Heard!Volume, Heard!Input, Heard!Cache, Heard!Heard
<1>2. s \in Heard!Setting
  BY SetOfApp DEF Heard!Setting
<1> HIDE DEF s
<1>3. /\ "cw" \notin x9' => "cw" \notin x9
      /\ "eq" \notin x9' => "eq" \notin x9
      /\ "volume" \notin x9' => v = IF x8' THEN 0 ELSE v
  BY <1>1
<1>4. x8' \in BOOLEAN
  BY <1>1 DEF Heard!HeardInv, Heard!Types
<1>5. QED
  BY <1>1, <1>2, <1>3, <1>4, VolumeSetterKeeps DEF s

\* Under a TCI mute the App moves alone.
LEMMA TciVolumeKeeps == ASSUME Heard!HeardInv, NEW v \in Volumes, Heard!TciVolume(v) PROVE Heard!HeardInv'
<1> DEFINE s == [x1.set EXCEPT !.volume = v]
<1>1. /\ x19' = x19 + 1 /\ x1' = [x1 EXCEPT !.set = s] /\ x4' = x4 /\ x8' = x8 /\ x9' = x9
  BY DEF Heard!TciVolume, Heard!Input
<1>2. s \in Heard!Setting
  BY SetOfApp DEF Heard!Setting
<1>3. x8' \in BOOLEAN
  BY <1>1 DEF Heard!HeardInv, Heard!Types
<1>4. CASE x8
  <2>1. x2' = x2 /\ x3' = x3
    BY <1>4 DEF Heard!TciVolume
  <2>2. SameTuning(s, x1.set) /\ SameEq(s, x1.set) /\ SameAgc(s, x1.set) /\ s.nr = x1.set.nr
        /\ s.model = x1.set.model /\ s.plain = x1.set.plain
    BY SetOfApp DEF Heard!Setting, SameTuning, SameEq, SameAgc
  <2> HIDE DEF s
  <2>3. x1'.set = s
    BY <1>1 DEF Heard!HeardInv, Heard!Types
  <2>4. x4 => Heard!Told(x2, x1.set)'
    BY <1>1, <1>4, <2>1, <2>2, <2>3, KnownFollows DEF Heard!Told, SameTuning, SameEq, SameAgc
  <2>5. s.agc = x1.set.agc /\ s.mode = x1.set.mode
    BY <2>2 DEF SameTuning, SameAgc
  <2>6. QED
    BY <1>1, <1>2, <1>3, <2>1, <2>4, <2>5, SetOfApp, KnownFollows, PlainSetterKeeps
<1>5. CASE ~x8
  <2>1. /\ x2' = [x2 EXCEPT !.volume = v]
        /\ x3' = (IF x4 THEN [x3 EXCEPT !.gain = v] ELSE x3)
    BY <1>5 DEF Heard!TciVolume, Heard!Cache, Heard!Heard
  <2> HIDE DEF s
  <2>2. "volume" \notin x9' => v = IF x8' THEN 0 ELSE v
    BY <1>1, <1>5
  <2>3. QED
    BY <1>1, <1>2, <1>3, <2>1, <2>2, VolumeSetterKeeps DEF s
<1>6. QED
  BY <1>4, <1>5

LEMMA TciMuteKeeps == ASSUME Heard!HeardInv, NEW on \in BOOLEAN, Heard!TciMute(on) PROVE Heard!HeardInv'
<1> DEFINE w == x1.set.volume
           s == [x1.set EXCEPT !.volume = w]
           v == IF on THEN 0 ELSE w
<1>1. /\ x19' = x19 + 1 /\ x1' = x1 /\ x2' = [x2 EXCEPT !.volume = v]
      /\ x3' = (IF x4 THEN [x3 EXCEPT !.gain = v] ELSE x3)
      /\ x4' = x4 /\ x8' = on /\ x9' = x9 \ {"volume"}
  BY DEF Heard!TciMute, Heard!Input, Heard!Cache, Heard!Heard
<1>2. w \in Volumes /\ v \in Volumes
  BY SetOfApp, ReceiverConstants DEF Heard!Setting
<1>3. s = x1.set /\ s \in Heard!Setting
  BY SetOfApp DEF Heard!Setting
<1>4. x1 = [x1 EXCEPT !.set = s]
  BY <1>3 DEF Heard!HeardInv, Heard!Types
<1>5. v = IF on THEN 0 ELSE w
  OBVIOUS
<1> HIDE DEF s, v, w
<1>6. /\ "cw" \notin x9' => "cw" \notin x9
      /\ "eq" \notin x9' => "eq" \notin x9
  BY <1>1
<1>7. QED
  BY <1>1, <1>2, <1>3, <1>4, <1>5, <1>6, VolumeSetterKeeps DEF s

LEMMA AgcSelectKeeps ==
  ASSUME Heard!HeardInv, NEW m \in Heard!AgcModes, Heard!AgcSelect(m)
  PROVE  Heard!HeardInv'
<1> DEFINE a  == x1.set
           d  == [x2 EXCEPT !.agc = m]
           s  == [a EXCEPT !.agc = m]
           by == [x1.agcBy EXCEPT ![Heard!GroupOf(a.mode)] = m]
           c  == Heard!Agc(d, x3)
<1>1. /\ x19 \in 1..(RxDisturb - 1) /\ x19' = x19 + 1 /\ x1' = [x1 EXCEPT !.set = s, !.agcBy = by]
      /\ x2' = d /\ x3' = (IF x4 THEN c ELSE x3) /\ x4' = x4 /\ x8' = x8 /\ x9' = x9
  <2>1. x1' = [x1 EXCEPT !.set.agc = m, !.agcBy[Heard!GroupOf(a.mode)] = m]
    BY DEF Heard!AgcSelect
  <2>2. QED
    BY <2>1 DEF Heard!AgcSelect, Heard!Input, Heard!Cache
<1>2. /\ x1 \in AppType /\ x1.agcBy \in [Heard!Groups -> Heard!AgcModes]
      /\ a \in Heard!Setting /\ a.mode \in Heard!RxModes
  BY SetOfApp DEF Heard!HeardInv, Heard!Types, AppType, Heard!Setting
<1>3. by \in [Heard!Groups -> Heard!AgcModes] /\ by[Heard!GroupOf(a.mode)] = m
  BY <1>2, GroupOfType
<1> HIDE DEF by
<1>4. d \in Heard!Setting /\ SameTuning(d, x2) /\ SameEq(d, x2) /\ SameSound(d, x2) /\ d.nr = x2.nr
      /\ d.model = x2.model /\ d.agc = m /\ d.top = x2.top
  BY SetOfApp DEF Heard!Setting, SameTuning, SameEq, SameSound
<1>5. s \in Heard!Setting /\ SameTuning(s, a) /\ SameEq(s, a) /\ SameSound(s, a) /\ s.nr = a.nr
      /\ s.model = a.model /\ s.agc = m /\ s.top = a.top
  BY <1>2 DEF Heard!Setting, SameTuning, SameEq, SameSound
<1> HIDE DEF d, s
<1>6. x1' \in AppType /\ x1'.set = s /\ x1'.agcBy = by
  BY <1>1, <1>2, <1>3, <1>5 DEF AppType
<1>7. x1'.set.agc = x1'.agcBy[Heard!GroupOf(x1'.set.mode)]
  BY <1>3, <1>5, <1>6 DEF SameTuning
<1>8. x4 => c \in Heard!Channel /\ Heard!Follows(d, c)
  BY <1>4, SetOfApp, KnownFollows, AgcFollows DEF SameTuning, SameEq, SameSound
<1> HIDE DEF c
<1>9. x4 => Heard!Told(x2, x1.set)'
  BY <1>1, <1>4, <1>5, <1>6, KnownFollows DEF Heard!Told, SameTuning, SameEq, SameSound
<1>10. x8' \in BOOLEAN /\ x19' \in Nat \ {0}
  BY <1>1 DEF Heard!HeardInv, Heard!Types
<1>11. QED
  BY <1>1, <1>4, <1>6, <1>7, <1>8, <1>9, <1>10, SetterKeeps

\* With the AGC off the threshold is no part of the channel.
LEMMA AgcTopKeeps == ASSUME Heard!HeardInv, NEW t \in Tops, Heard!AgcTop(t) PROVE Heard!HeardInv'
<1> DEFINE d == [x2 EXCEPT !.top = t]
           s == [x1.set EXCEPT !.top = t]
           c == IF d.agc > 0 THEN [x3 EXCEPT !.top = t] ELSE x3
<1>1. /\ x19' = x19 + 1 /\ x1' = [x1 EXCEPT !.set = s] /\ x2' = d /\ x3' = (IF x4 THEN c ELSE x3)
      /\ x4' = x4 /\ x8' = x8 /\ x9' = x9
  BY DEF Heard!AgcTop, Heard!Input, Heard!Cache
<1>2. d \in Heard!Setting /\ s \in Heard!Setting
  BY SetOfApp DEF Heard!Setting
<1>3. /\ SameTuning(d, x2) /\ SameEq(d, x2) /\ SameSound(d, x2)
      /\ d.nr = x2.nr /\ d.model = x2.model /\ d.agc = x2.agc /\ d.top = t /\ s.cw = x1.set.cw
      /\ SameEq(s, x1.set) /\ Parallel(d, s, x2, x1.set)
  BY SetOfApp DEF Heard!Setting, SameTuning, SameEq, SameSound, Parallel
<1>4. /\ c \in Heard!Channel /\ c.pass = x3.pass /\ c.shift = x3.shift /\ c.mode = x3.mode /\ c.model = x3.model
      /\ c.eqRun = x3.eqRun /\ c.eq = x3.eq /\ c.agc = x3.agc /\ c.running = x3.running
      /\ c.plain = x3.plain /\ c.gain = x3.gain /\ (d.agc > 0 => c.top = t)
  <2>1. t \in Nat
    BY ReceiverConstants
  <2> HIDE DEF d
  <2>2. CASE d.agc > 0
    BY <2>1, <2>2, SetOfApp DEF Heard!Channel
  <2>3. CASE ~(d.agc > 0)
    BY <2>3, SetOfApp
  <2>4. QED
    BY <2>2, <2>3
<1> HIDE DEF d, s, c
<1>5. x4 => Heard!Follows(d, c)
  <2>1. Heard!Pitch(d) = Heard!Pitch(x2) /\ Heard!EqRuns(d) = Heard!EqRuns(x2)
    BY <1>3 DEF SameTuning, SameEq, Heard!Pitch, Heard!EqRuns
  <2>2. QED
    BY <2>1, <1>3, <1>4, KnownFollows DEF SameTuning, SameEq, SameSound, Heard!Follows
<1>6. /\ "cw" \notin x9' => "cw" \notin x9 /\ (x2.cw = x1.set.cw => d.cw = s.cw)
      /\ "eq" \notin x9' => "eq" \notin x9 /\ (SameEq(x2, x1.set) => SameEq(d, s))
  BY <1>1, <1>3 DEF SameTuning, SameEq
<1>7. QED
  BY <1>1, <1>2, <1>3, <1>4, <1>5, <1>6, SameSetterKeeps

LEMMA NrNextKeeps == ASSUME Heard!HeardInv, Heard!NrNext PROVE Heard!HeardInv'
<1> DEFINE n == (x1.set.nr + 1) % 5
           d == [x2 EXCEPT !.nr = n]
           s == [x1.set EXCEPT !.nr = n]
           c == Heard!Nr(d, x3)
<1>1. n \in Heard!NrModes
  <2>1. x1.set.nr \in 0..4
    BY SetOfApp DEF Heard!Setting, Heard!NrModes
  <2>2. QED
    BY <2>1 DEF Heard!NrModes
<1>2. d.nr = n
  BY SetOfApp DEF Heard!Setting
<1>3. /\ x19' = x19 + 1 /\ x1' = [x1 EXCEPT !.set = s] /\ x2' = d /\ x3' = (IF x4 THEN c ELSE x3)
      /\ x4' = x4 /\ x8' = x8 /\ x9' = x9
  BY <1>2 DEF Heard!NrNext, Heard!Input, Heard!Cache
<1> HIDE DEF n
<1>4. d \in Heard!Setting /\ s \in Heard!Setting
  BY <1>1, SetOfApp DEF Heard!Setting
<1>5. /\ SameTuning(d, x2) /\ SameEq(d, x2) /\ SameSound(d, x2) /\ SameAgc(d, x2)
      /\ d.model = x2.model /\ s.cw = x1.set.cw
      /\ SameEq(s, x1.set) /\ Parallel(d, s, x2, x1.set)
  BY SetOfApp DEF Heard!Setting, SameTuning, SameEq, SameSound, SameAgc, Parallel
<1> HIDE DEF d, s
<1>6. x4 => c \in Heard!Channel /\ Heard!Follows(d, c)
  BY <1>4, <1>5, SetOfApp, KnownFollows, NrFollows DEF SameTuning, SameEq, SameSound, SameAgc
<1> HIDE DEF c
<1>7. /\ "cw" \notin x9' => "cw" \notin x9 /\ (x2.cw = x1.set.cw => d.cw = s.cw)
      /\ "eq" \notin x9' => "eq" \notin x9 /\ (SameEq(x2, x1.set) => SameEq(d, s))
  BY <1>3, <1>5 DEF SameTuning, SameEq
<1>8. QED
  BY <1>3, <1>4, <1>5, <1>6, <1>7, SameSetterKeeps

LEMMA NnrModelKeeps == ASSUME Heard!HeardInv, Heard!NnrModel PROVE Heard!HeardInv'
<1> DEFINE n == 1 - x1.set.model
           d == [x2 EXCEPT !.model = n]
           s == [x1.set EXCEPT !.model = n]
           c == Heard!Nnr(d, x3)
<1>1. n \in {0, 1}
  <2>1. x1.set.model \in {0, 1}
    BY SetOfApp DEF Heard!Setting
  <2>2. QED
    BY <2>1
<1>2. d.model = n
  BY SetOfApp DEF Heard!Setting
<1>3. /\ x19' = x19 + 1 /\ x1' = [x1 EXCEPT !.set = s] /\ x2' = d /\ x3' = (IF x4 THEN c ELSE x3)
      /\ x4' = x4 /\ x8' = x8 /\ x9' = x9
  BY <1>2 DEF Heard!NnrModel, Heard!Input, Heard!Cache
<1> HIDE DEF n
<1>4. d \in Heard!Setting /\ s \in Heard!Setting
  BY <1>1, SetOfApp DEF Heard!Setting
<1>5. /\ SameTuning(d, x2) /\ SameEq(d, x2) /\ SameSound(d, x2) /\ SameAgc(d, x2)
      /\ d.nr = x2.nr /\ s.cw = x1.set.cw
      /\ SameEq(s, x1.set) /\ Parallel(d, s, x2, x1.set)
  BY SetOfApp DEF Heard!Setting, SameTuning, SameEq, SameSound, SameAgc, Parallel
<1> HIDE DEF d, s
<1>6. x4 => c \in Heard!Channel /\ Heard!Follows(d, c)
  BY <1>4, <1>5, SetOfApp, KnownFollows, NnrFollows DEF SameTuning, SameEq, SameSound, SameAgc
<1> HIDE DEF c
<1>7. /\ "cw" \notin x9' => "cw" \notin x9 /\ (x2.cw = x1.set.cw => d.cw = s.cw)
      /\ "eq" \notin x9' => "eq" \notin x9 /\ (SameEq(x2, x1.set) => SameEq(d, s))
  BY <1>3, <1>5 DEF SameTuning, SameEq
<1>8. QED
  BY <1>3, <1>4, <1>5, <1>6, <1>7, SameSetterKeeps

LEMMA ToggleKeeps == ASSUME Heard!HeardInv, NEW p \in Plain, Heard!Toggle(p) PROVE Heard!HeardInv'
<1> DEFINE n == ~x1.set.plain[p]
           f == [x2.plain EXCEPT ![p] = n]
           g == [x1.set.plain EXCEPT ![p] = n]
           d == [x2 EXCEPT !.plain = f]
           s == [x1.set EXCEPT !.plain = g]
           c == [x3 EXCEPT !.plain = f]
<1>1. f \in [Plain -> BOOLEAN] /\ g \in [Plain -> BOOLEAN]
  <2>1. x1.set.plain \in [Plain -> BOOLEAN] /\ x2.plain \in [Plain -> BOOLEAN]
    BY SetOfApp DEF Heard!Setting
  <2>2. n \in BOOLEAN
    OBVIOUS
  <2> HIDE DEF n
  <2>3. QED
    BY <2>1, <2>2
<1>2. x2.plain = x1.set.plain => f = g
  OBVIOUS
<1>3. [x2 EXCEPT !.plain[p] = n].plain = f
  BY SetOfApp DEF Heard!Setting
<1>4. /\ x19' = x19 + 1 /\ x1' = [x1 EXCEPT !.set.plain[p] = ~@] /\ x2' = [x2 EXCEPT !.plain[p] = n]
      /\ x3' = (IF x4 THEN [x3 EXCEPT !.plain = [x2 EXCEPT !.plain[p] = n].plain] ELSE x3)
      /\ x4' = x4 /\ x8' = x8 /\ x9' = x9
  BY DEF Heard!Toggle, Heard!Input, Heard!Cache
<1>5. x1' = [x1 EXCEPT !.set = s] /\ x2' = d
  BY <1>4
<1>6. x3' = IF x4 THEN c ELSE x3
  BY <1>3, <1>4
<1> HIDE DEF f, g, n
<1>7. d \in Heard!Setting /\ s \in Heard!Setting
  BY <1>1, SetOfApp DEF Heard!Setting
<1>8. /\ SameTuning(d, x2) /\ SameEq(d, x2) /\ SameAgc(d, x2) /\ d.nr = x2.nr /\ d.model = x2.model
      /\ d.volume = x2.volume /\ d.plain = f /\ s.cw = x1.set.cw /\ SameEq(s, x1.set)
  BY <1>1, SetOfApp DEF Heard!Setting, SameTuning, SameEq, SameAgc
<1>9. Parallel(d, s, x2, x1.set)
  BY <1>1, <1>2, SetOfApp DEF Heard!Setting, Parallel
<1>10. /\ c \in Heard!Channel /\ c.pass = x3.pass /\ c.shift = x3.shift /\ c.mode = x3.mode /\ c.model = x3.model
       /\ c.eqRun = x3.eqRun /\ c.eq = x3.eq /\ c.agc = x3.agc /\ c.top = x3.top /\ c.running = x3.running
       /\ c.gain = x3.gain /\ c.plain = f
  BY <1>1, SetOfApp DEF Heard!Channel
<1> HIDE DEF d, s, c
<1>11. x4 => Heard!Follows(d, c)
  <2>1. Heard!Pitch(d) = Heard!Pitch(x2) /\ Heard!EqRuns(d) = Heard!EqRuns(x2)
    BY <1>8 DEF SameTuning, SameEq, Heard!Pitch, Heard!EqRuns
  <2>2. QED
    BY <2>1, <1>8, <1>10, KnownFollows DEF SameTuning, SameEq, SameAgc, Heard!Follows
<1>12. /\ "cw" \notin x9' => "cw" \notin x9 /\ (x2.cw = x1.set.cw => d.cw = s.cw)
       /\ "eq" \notin x9' => "eq" \notin x9 /\ (SameEq(x2, x1.set) => SameEq(d, s))
  BY <1>4, <1>8 DEF SameTuning, SameEq
<1>13. x19' = x19 + 1 /\ x4' = x4 /\ x8' = x8 /\ x9' = x9
  BY <1>4
<1>14. QED
  BY <1>5, <1>6, <1>7, <1>9, <1>10, <1>11, <1>12, <1>13, SameSetterKeeps

LEMMA HeardStep == ASSUME Heard!HeardInv, part = "receiver", [Next]_vars PROVE Heard!HeardInv'
<1>1. ASSUME NEW works \in BOOLEAN, NEW tx \in BOOLEAN, Heard!Start(works, tx) PROVE Heard!HeardInv'
  BY <1>1, StartKeeps
<1>2. ASSUME NEW m \in Heard!RxModes, Heard!ToMode(m) PROVE Heard!HeardInv'
  BY <1>2, ModeKeeps
<1>3. ASSUME NEW w \in Filters, NEW filed \in BOOLEAN, Heard!Filter(w, filed) PROVE Heard!HeardInv'
  BY <1>3, FilterKeeps
<1>4. ASSUME NEW o \in Offsets, Heard!DialTo(o) PROVE Heard!HeardInv'
  BY <1>4, DialKeeps
<1>5. ASSUME NEW p \in Pitches, Heard!CwPush(p) \/ Heard!RttyPush(p) PROVE Heard!HeardInv'
  BY <1>5, CwPushKeeps, RttyPushKeeps
<1>6. ASSUME NEW on \in BOOLEAN, NEW p \in Profiles, Heard!EqEdit(on, p) PROVE Heard!HeardInv'
  BY <1>6, EqEditKeeps
<1>7. ASSUME NEW p \in Profiles, Heard!EqDrag(p) PROVE Heard!HeardInv'
  BY <1>7, EqDragKeeps
<1>8. CASE Heard!EqApply
  BY <1>8, EqApplyKeeps
<1>9. CASE Heard!EqPage
  BY <1>9, QuietKeeps DEF Heard!EqPage, Heard!HeardInv, Heard!Types
<1>10. CASE Heard!TxEqEdit
  BY <1>10, QuietKeeps DEF Heard!TxEqEdit, Heard!Input, Heard!HeardInv, Heard!Types
<1>11. ASSUME NEW v \in Volumes, Heard!Volume(v) \/ Heard!TciVolume(v) PROVE Heard!HeardInv'
  BY <1>11, VolumeKeeps, TciVolumeKeeps
<1>12. ASSUME NEW on \in BOOLEAN, Heard!TciMute(on) PROVE Heard!HeardInv'
  BY <1>12, TciMuteKeeps
<1>13. ASSUME NEW m \in Heard!AgcModes, Heard!AgcSelect(m) PROVE Heard!HeardInv'
  BY <1>13, AgcSelectKeeps
<1>14. ASSUME NEW t \in Tops, Heard!AgcTop(t) PROVE Heard!HeardInv'
  BY <1>14, AgcTopKeeps
<1>15. CASE Heard!NrNext
  BY <1>15, NrNextKeeps
<1>16. CASE Heard!NnrModel
  BY <1>16, NnrModelKeeps
<1>17. ASSUME NEW s \in Plain, Heard!Toggle(s) PROVE Heard!HeardInv'
  BY <1>17, ToggleKeeps
<1>18. CASE Heard!Key
  BY <1>18, QuietKeeps DEF Heard!Key, Heard!settings, Heard!HeardInv, Heard!Types
<1>19. CASE Heard!Publish \/ Heard!IqBlock \/ Heard!Tick
  BY <1>19, HeardSame DEF Heard!Publish, Heard!IqBlock, Heard!Tick, Heard!settings
<1>20. CASE UNCHANGED vars
  BY <1>20, HeardSame DEF vars
<1>21. QED
  BY <1>1, <1>2, <1>3, <1>4, <1>5, <1>6, <1>7, <1>8, <1>9, <1>10, <1>11, <1>12, <1>13, <1>14,
     <1>15, <1>16, <1>17, <1>18, <1>19, <1>20, ReceiverSteps

\* What is known of the settings is what the caches hold.
LEMMA KnownIsCached ==
  ASSUME Heard!HeardInv, x4
  PROVE  /\ SameTuning(Heard!Known, x2) /\ SameEq(Heard!Known, x2) /\ SameAgc(Heard!Known, x2)
         /\ SameSound(Heard!Known, x2) /\ Heard!Known.nr = x2.nr /\ Heard!Known.model = x2.model
<1> DEFINE a == x1.set
           volume == IF "volume" \in x9 THEN x2.volume ELSE IF x8 THEN 0 ELSE a.volume
           cw == IF "cw" \in x9 THEN x2.cw ELSE a.cw
           eq == IF "eq" \in x9 THEN x2.eq ELSE a.eq
           eqOn == IF "eq" \in x9 THEN x2.eqOn ELSE a.eqOn
<1>1. Heard!Known = [a EXCEPT !.volume = volume, !.cw = cw, !.eq = eq, !.eqOn = eqOn]
  BY SetOfApp DEF Heard!Known, Heard!Setting
<1>2. Heard!Told(x2, a)
  BY KnownFollows
<1>3. volume = x2.volume /\ cw = x2.cw /\ eq = x2.eq /\ eqOn = x2.eqOn
  BY <1>2 DEF Heard!Told
<1> HIDE DEF volume, cw, eq, eqOn
<1>4. /\ a.mode = x2.mode /\ a.width = x2.width /\ a.ctun = x2.ctun /\ a.rtty = x2.rtty /\ a.agc = x2.agc
      /\ a.top = x2.top /\ a.nr = x2.nr /\ a.model = x2.model /\ a.plain = x2.plain
  BY <1>2 DEF Heard!Told
<1>5. QED
  BY <1>1, <1>3, <1>4, SetOfApp DEF Heard!Setting, SameTuning, SameEq, SameAgc, SameSound

LEMMA HeardCovers == ASSUME Heard!HeardInv PROVE Heard!HeardAsSet
<1> DEFINE s == Heard!Known
<1>1. SUFFICES ASSUME x4
      PROVE  /\ x3.pass = [at |-> Heard!Pitch(s), width |-> s.width] /\ x3.shift + Heard!Pitch(s) = s.ctun
             /\ x3.mode = "digu" <=> s.mode \in Heard!DigiModes
             /\ x3.model = s.model \/ s.mode \in Heard!CwModes
             /\ x3.model = s.model + 2 \/ s.mode \notin Heard!CwModes
             /\ x3.eqRun => s.mode \notin Heard!DigiModes /\ x3.eq = s.eq
             /\ (s.eqOn /\ s.eq # Flat /\ s.mode \notin Heard!DigiModes) => x3.eqRun
             /\ x3.agc = s.agc /\ s.agc = x1.agcBy[Heard!GroupOf(s.mode)]
             /\ x3.agc > 0 => x3.top = s.top
             /\ x3.running = {s.nr} \ {0} /\ x3.gain = s.volume /\ x3.plain = s.plain
  BY DEF Heard!HeardAsSet
<1>2. SameTuning(s, x2) /\ SameEq(s, x2) /\ SameAgc(s, x2) /\ SameSound(s, x2) /\ s.nr = x2.nr /\ s.model = x2.model
  BY <1>1, KnownIsCached
<1> HIDE DEF s
<1>3. Heard!Pitch(s) = Heard!Pitch(x2) /\ Heard!EqRuns(s) = Heard!EqRuns(x2)
  BY <1>2 DEF SameTuning, SameEq, Heard!Pitch, Heard!EqRuns
<1>4. Heard!Follows(x2, x3) /\ x2.agc = x1.set.agc /\ x2.mode = x1.set.mode
  BY <1>1, KnownFollows DEF Heard!Told
<1>5. x3.pass = [at |-> Heard!Pitch(s), width |-> s.width]
  BY <1>2, <1>3, <1>4 DEF Heard!Follows, SameTuning
<1>6. x3.shift + Heard!Pitch(s) = s.ctun
  <2>1. x3.shift = x2.ctun - Heard!Pitch(x2)
    BY <1>4 DEF Heard!Follows
  <2>2. x2.ctun \in Int
    BY SetOfApp, ReceiverConstants DEF Heard!Setting
  <2>3. Heard!Pitch(x2) \in Int
    BY SetOfApp, PitchType
  <2>4. QED
    BY <2>1, <2>2, <2>3, <1>2, <1>3 DEF SameTuning
<1>7. x3.mode = "digu" <=> s.mode \in Heard!DigiModes
  BY <1>2, <1>4 DEF Heard!Follows, SameTuning, Heard!DigiModes
<1>8. /\ x3.model = s.model \/ s.mode \in Heard!CwModes
      /\ x3.model = s.model + 2 \/ s.mode \notin Heard!CwModes
  <2>1. x3.model = x2.model + (IF x2.mode \in Heard!CwModes THEN 2 ELSE 0)
    BY <1>4 DEF Heard!Follows
  <2>2. x2.model \in {0, 1}
    BY SetOfApp DEF Heard!Setting
  <2>3. QED
    BY <2>1, <2>2, <1>2 DEF SameTuning
<1>9. /\ x3.eqRun => s.mode \notin Heard!DigiModes /\ x3.eq = s.eq
      /\ (s.eqOn /\ s.eq # Flat /\ s.mode \notin Heard!DigiModes) => x3.eqRun
  <2>1. x3.eqRun = Heard!EqRuns(s) /\ x3.eq = s.eq
    BY <1>2, <1>3, <1>4 DEF Heard!Follows, SameEq
  <2>2. QED
    BY <2>1 DEF Heard!EqRuns
<1>10. x3.agc = s.agc /\ s.agc = x1.agcBy[Heard!GroupOf(s.mode)]
  BY <1>2, <1>4 DEF Heard!Follows, SameTuning, SameAgc, Heard!HeardInv
<1>11. x3.agc > 0 => x3.top = s.top
  BY <1>2, <1>4 DEF Heard!Follows, SameAgc
<1>12. x3.running = {s.nr} \ {0} /\ x3.gain = s.volume /\ x3.plain = s.plain
  BY <1>2, <1>4 DEF Heard!Follows, SameSound
<1>13. QED
  BY <1>5, <1>6, <1>7, <1>8, <1>9, <1>10, <1>11, <1>12

\* Whatever the order of the operator's and the TCI clients' handlers, the receiver
\* sounds as the App says, less what start_radio and a drag owe (the setters of
\* demod.c, start_radio).
THEOREM TheReceiverIsHeardAsSet == Spec => []HeardAsSet
<1> DEFINE Inv == part = "receiver" => Heard!HeardInv
<1>1. Init => Inv
  BY HeardStart
<1>2. Inv /\ [Next]_vars => Inv'
  BY HeardStep, PartStays
<1>3. Inv => HeardAsSet
  BY HeardCovers DEF HeardAsSet
<1>4. QED
  BY <1>1, <1>2, <1>3, PTL DEF Spec
=============================================================================
