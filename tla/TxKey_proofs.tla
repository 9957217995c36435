---------------------------- MODULE TxKey_proofs -----------------------------
(***************************************************************************)
(* Proofs about the keying loop, for every set of buttons, modes and band  *)
(* answers, and every hang time, cutoff, PTT delay and length of text.     *)
(***************************************************************************)
EXTENDS TxKey, SequenceTheorems, TLAPS

-----------------------------------------------------------------------------
(* The operators of the loop.                                              *)

\* What the constants are.
LEMMA Constants ==
  /\ Gens \subseteq {"CW", "RTTY"} /\ Gens \subseteq Modes
  /\ \A m \in Modes : m \in Gens \/ m = "SSB"
  /\ "SSB" \in Modes /\ "SSB" \notin Gens
  /\ Hang \in Nat /\ Cutoff \in Nat /\ Cutoff > 0 /\ PttDelay \in Nat
  /\ MaxText \in Nat /\ MaxSends \in Nat
BY KeyAssumption DEF Gens

\* An evaluation of the gate returns its statics and a result.
LEMMA GateTypes ==
  ASSUME NEW g \in GateState, NEW in \in GateInput
  PROVE  GateNext(g, in) \in GateState /\ GateResult(GateNext(g, in), in) \in GateResults
<1>1. Want(in) \in BOOLEAN /\ BandOk(in) \in BOOLEAN /\ TripNow(in) \in BOOLEAN
  BY GateAssumption DEF Want, BandOk, TripNow, GateInput
<1>2. FilterStep(g, in) \in GateState
  BY <1>1 DEF FilterStep, GateState
<1>3. GateNext(g, in) \in GateState
  BY <1>2 DEF ThermalStep, GateNext, GateOff, GateState
<1>4. QED
  BY <1>1, <1>3 DEF GateResult, GateResults, GateState, GateInput

\* A text in the generators: no more blocks than the texts sent could bring.
TextFits == \A g \in Gens : gen[g].left <= MaxText * sends

\* One more text fits.
LEMMA OneMoreText ==
  ASSUME NEW s \in 0..MaxSends, NEW l \in Nat, NEW n \in 1..MaxText,
         l <= MaxText * s, s < MaxSends
  PROVE  /\ l + n <= MaxText * (s + 1)
         /\ MaxText * (s + 1) <= MaxText * MaxSends
<1>1. MaxText \in Nat /\ MaxSends \in Nat
  BY Constants
<1>2. MaxText * (s + 1) = MaxText * s + MaxText
  BY <1>1
<1>3. PICK d \in Nat : MaxSends = (s + 1) + d
  BY <1>1
<1>4. MaxText * MaxSends = MaxText * (s + 1) + MaxText * d /\ MaxText * d \in Nat
  BY <1>1, <1>3
<1>5. QED
  BY <1>1, <1>2, <1>4

\* A mode of the generators names one of them.
GenState == [left : 0..(MaxText * MaxSends), up : BOOLEAN]

\* A generator after a block: it holds no more than before, a generator that was
\* flushed is at rest or, if it is not pulled, has its envelope where it was.
LEMMA GenAfterFacts ==
  ASSUME TypeOK, NEW g \in Gens, NEW x \in GenAfter(g)
  PROVE  /\ x \in GenState /\ x.left <= gen[g].left
         /\ (LinkLost \/ g \in PastCutoff) => x.left = 0
         /\ (LinkLost \/ g \in PastCutoff) /\ Pulls(g) => x = Rest
         /\ gen[g] = Rest => x = Rest
         /\ ~Pulls(g) => x.up = gen[g].up
<1>1. gen[g] \in GenState /\ gen[g].left \in Nat
  BY Constants DEF TypeOK, GenState
<1>2. FlushedAt(g) \in GenState /\ FlushedAt(g).up = gen[g].up
      /\ FlushedAt(g).left <= gen[g].left
      /\ ((LinkLost \/ g \in PastCutoff) => FlushedAt(g).left = 0)
      /\ (gen[g] = Rest => FlushedAt(g) = Rest)
  BY <1>1, Constants DEF FlushedAt, Flush, GenState, Rest
<1>3. CASE ~Pulls(g)
  <2>1. x = FlushedAt(g)
    BY <1>3 DEF GenAfter
  <2>2. QED
    BY <1>2, <1>3, <2>1
<1>4. CASE Pulls(g) /\ FlushedAt(g).left = 0
  <2>1. x = Rest
    BY <1>4 DEF GenAfter, Pulled
  <2>2. MaxText * MaxSends \in Nat /\ Rest \in GenState /\ Rest.left = 0
    BY Constants DEF GenState, Rest
  <2>3. QED
    BY <1>1, <1>4, <2>1, <2>2
<1>5. CASE Pulls(g) /\ FlushedAt(g).left # 0
  <2>1. PICK u \in BOOLEAN : x = [left |-> FlushedAt(g).left - 1, up |-> u]
    BY <1>5 DEF GenAfter, Pulled
  <2>2. ~(LinkLost \/ g \in PastCutoff) /\ gen[g] # Rest
    BY <1>2, <1>5 DEF Rest
  <2>3. FlushedAt(g).left \in 1..(MaxText * MaxSends)
    BY <1>2, <1>5, Constants DEF GenState
  <2>4. QED
    BY <1>1, <1>2, <1>5, <2>1, <2>2, <2>3, Constants DEF GenState
<1>6. QED
  BY <1>3, <1>4, <1>5

-----------------------------------------------------------------------------
(* Types.                                                                  *)

KeyType == TypeOK /\ TextFits

LEMMA InitType == Init => KeyType
<1> SUFFICES ASSUME Init PROVE KeyType
  OBVIOUS
<1>1. MaxText * sends = 0 /\ 0 \in 0..(MaxText * MaxSends)
  BY Constants DEF Init
<1>2. gen \in [Gens -> [left : 0..(MaxText * MaxSends), up : BOOLEAN]] /\ TextFits
  BY <1>1 DEF Init, Rest, TextFits
<1>3. intent \in [Buttons -> BOOLEAN] \X [Gens -> BOOLEAN] \X BOOLEAN
  BY DEF Init
<1>4. gate \in GateState /\ out \in GateResults
  BY DEF Init, GateState, GateOff, GateResults
<1>5. h \in History
  BY Constants DEF Init, History
<1>6. over \in [Gens -> 0..(Cutoff + 2)] /\ hang \in 0..Hang /\ sends \in 0..MaxSends
  BY Constants DEF Init
<1>7. /\ btn \in [Buttons -> BOOLEAN] /\ want \in [Buttons -> BOOLEAN]
      /\ wantGen \in [Gens -> BOOLEAN] /\ todo \in Seq(Buttons)
      /\ cfgMode \in Modes /\ sMode \in Modes /\ inBand \in Bands
  BY Constants, EmptySeq, KeyAssumption DEF Init
<1>8. TypeOK
  BY <1>2, <1>3, <1>4, <1>5, <1>6, <1>7 DEF Init, TypeOK
<1>9. QED
  BY <1>2, <1>8 DEF KeyType

\* What a handler writes are intents.
LEMMA HandledType ==
  ASSUME TypeOK, NEW bs \in [Buttons -> BOOLEAN], NEW b \in Buttons
  PROVE  Handled(bs, b) \in [Buttons -> BOOLEAN]
BY DEF Handled, TypeOK

\* The pops a frame tick queues.
LEMMA PopsType ==
  ASSUME NEW b, NEW needed
  PROVE  Pops(b, needed) \in Seq(Buttons)
<1>1. CASE b \in Buttons /\ needed
  BY <1>1 DEF Pops
<1>2. CASE ~(b \in Buttons /\ needed)
  BY <1>2 DEF Pops
<1>3. QED
  BY <1>1, <1>2

LEMMA LinkLossPopsType == LinkLossPops \in Seq(Buttons)
BY PopsType, ConcatProperties DEF LinkLossPops

LEMMA OperatorType ==
  ASSUME KeyType,
         \/ \E b \in Buttons : Press(b)
         \/ \E m \in Modes : SetMode(m)
         \/ PublishMode \/ Qsy \/ Abort \/ FrameTick \/ Pop
         \/ \E n \in 1..MaxText : Send(n)
  PROVE  KeyType'
<1> USE DEF KeyType, guiVars, radioVars, threadVars, gateVars
<1>1. ASSUME NEW b \in Buttons, Press(b) PROVE KeyType'
  <2>1. btn' \in [Buttons -> BOOLEAN]
    BY <1>1 DEF Press, TypeOK
  <2>2. want' \in [Buttons -> BOOLEAN]
    BY <1>1, <2>1, HandledType DEF Press
  <2>3. h' \in History
    BY <1>1 DEF Press, TypeOK, History
  <2>4. QED
    <3>1. UNCHANGED <<todo, cfgMode, sMode, inBand, sends, pedal, age, gen, wantGen, hang,
                      pc, intent, prevWant, gate, out, feed, lost, over, news>>
      BY <1>1 DEF Press
    <3>2. QED
      BY <2>1, <2>2, <2>3, <3>1 DEF TypeOK, TextFits
<1>2. ASSUME NEW m \in Modes, SetMode(m) PROVE KeyType'
  BY <1>2 DEF SetMode, TypeOK, TextFits
<1>3. CASE PublishMode
  BY <1>3 DEF PublishMode, TypeOK, TextFits
<1>4. CASE Qsy
  BY <1>4 DEF Qsy, TypeOK, TextFits
<1>5. CASE Abort
  <2>1. gen' \in [Gens -> [left : 0..(MaxText * MaxSends), up : BOOLEAN]]
        /\ \A g \in Gens : gen'[g].left = 0
    <3>1. MaxText * MaxSends \in Nat
      BY Constants
    <3>2. QED
      <4>1. ASSUME NEW g \in Gens
            PROVE  /\ Flush(gen[g]) \in [left : 0..(MaxText * MaxSends), up : BOOLEAN]
                   /\ Flush(gen[g]).left = 0
        <5>1. gen[g] \in [left : 0..(MaxText * MaxSends), up : BOOLEAN]
          BY DEF TypeOK
        <5>2. QED
          BY <3>1, <5>1 DEF Flush
      <4>2. QED
        BY <1>5, <4>1 DEF Abort
  <2>2. TextFits'
    <3>1. sends' = sends /\ MaxText * sends \in Nat
      BY <1>5, Constants DEF Abort, TypeOK
    <3>2. QED
      BY <2>1, <3>1 DEF TextFits
  <2>3. QED
    BY <1>5, <2>1, <2>2 DEF Abort, TypeOK
<1>6. CASE FrameTick
  <2>1. todo' \in Seq(Buttons)
    BY <1>6, PopsType, LinkLossPopsType, ConcatProperties, EmptySeq DEF FrameTick
  <2>2. QED
    BY <1>6, <2>1 DEF FrameTick, TypeOK, TextFits
<1>7. CASE Pop
  <2>1. todo' \in Seq(Buttons) /\ Head(todo) \in Buttons
    BY <1>7, HeadTailProperties DEF Pop, TypeOK
  <2>2. btn' \in [Buttons -> BOOLEAN]
    BY <1>7, <2>1 DEF Pop, TypeOK
  <2>3. want' \in [Buttons -> BOOLEAN]
    <3>1. want' = want \/ want' = Handled(btn', Head(todo))
      BY <1>7 DEF Pop
    <3>2. QED
      <4>1. want \in [Buttons -> BOOLEAN]
        BY DEF TypeOK
      <4>2. Handled(btn', Head(todo)) \in [Buttons -> BOOLEAN]
        BY <2>1, <2>2, HandledType
      <4>3. QED
        BY <3>1, <4>1, <4>2
  <2>4. QED
    BY <1>7, <2>1, <2>2, <2>3 DEF Pop, TypeOK, TextFits
<1>8. ASSUME NEW n \in 1..MaxText, Send(n) PROVE KeyType'
  <2>1. sends \in 0..MaxSends /\ sends < MaxSends /\ cfgMode \in Gens
        /\ \A g \in Gens : gen[g].left \in Nat /\ gen[g].left <= MaxText * sends
    BY <1>8, Constants DEF Send, TypeOK, TextFits
  <2>2. MaxText * sends <= MaxText * (sends + 1)
    BY <2>1, Constants
  <2>3. gen' = [gen EXCEPT ![cfgMode].left = gen[cfgMode].left + n] /\ sends' = sends + 1
    BY <1>8 DEF Send
  <2>4. /\ gen[cfgMode].left + n <= MaxText * (sends + 1)
        /\ MaxText * (sends + 1) <= MaxText * MaxSends
    BY <2>1, OneMoreText
  <2>5. gen' \in [Gens -> [left : 0..(MaxText * MaxSends), up : BOOLEAN]]
    <3>1. gen[cfgMode].left + n \in 0..(MaxText * MaxSends)
      BY <2>1, <2>4, Constants, MaxText * (sends + 1) \in Nat, MaxText * MaxSends \in Nat
    <3>2. QED
      BY <2>1, <2>3, <3>1 DEF TypeOK
  <2>6. \A g \in Gens : gen'[g].left <= MaxText * sends'
    <3>1. TAKE g \in Gens
    <3>2. CASE g = cfgMode
      BY <2>1, <2>3, <2>4, <3>2 DEF TypeOK
    <3>3. CASE g # cfgMode
      <4>1. gen'[g] = gen[g]
        BY <2>1, <2>3, <3>3 DEF TypeOK
      <4>2. QED
        BY <2>1, <2>2, <2>3, <4>1, Constants
    <3>4. QED
      BY <3>2, <3>3
  <2>7. h' \in History
    <3>1. h \in History /\ h' = [h EXCEPT !.asked = TRUE, !.tail = 0] /\ 0 \in 0..(Hang + 1)
      BY <1>8, Constants DEF Send, TypeOK
    <3>2. h' = [asked |-> TRUE, only |-> h.only, tail |-> 0]
      BY <3>1 DEF History
    <3>3. QED
      BY <3>1, <3>2 DEF History
  <2>8. sends' \in 0..MaxSends
    BY <2>1, <2>3, Constants
  <2>9. QED
    BY <1>8, <2>5, <2>6, <2>7, <2>8 DEF Send, TypeOK, TextFits
<1>9. QED
  BY <1>1, <1>2, <1>3, <1>4, <1>5, <1>6, <1>7, <1>8

\* The break-in bookkeeping.
LEMMA HangType == TypeOK => HangAfter \in 0..Hang
BY Constants DEF TypeOK, HangAfter

LEMMA WantKeyType == TypeOK => WantMox \in BOOLEAN /\ Wants("tune") \in BOOLEAN
<1> SUFFICES ASSUME TypeOK PROVE WantMox \in BOOLEAN /\ Wants("tune") \in BOOLEAN
  OBVIOUS
<1>1. /\ \A b \in Buttons : want[b] \in BOOLEAN
      /\ \A g \in Gens : wantGen[g] \in BOOLEAN
      /\ pedal \in BOOLEAN
  BY DEF TypeOK
<1>2. QED
  BY <1>1 DEF WantMox, Wants, PedalKeys

\* What the gate run gives the gate, and what comes out.
GateIn(high) ==
  [mox |-> WantMox, tune |-> Wants("tune"), inBand |-> inBand,
   high |-> high, open |-> FALSE, hot |-> FALSE, stale |-> pc = "edge"]

LEMMA GateRunTypes ==
  ASSUME TypeOK, NEW high \in Coupler, GateRun(high)
  PROVE  /\ GateIn(high) \in GateInput
         /\ gate' \in GateState /\ out' \in GateResults
         /\ gate' = GateNext(GateAt, GateIn(high))
         /\ out' = GateResult(gate', GateIn(high))
<1>1. high \in BOOLEAN /\ inBand \in BOOLEAN
  BY KeyAssumption DEF TypeOK
<1>2. GateIn(high) \in GateInput
  BY <1>1, WantKeyType DEF GateIn, GateInput
<1>3. GateAt \in GateState
  BY DEF GateAt, GateOff, GateState, TypeOK
<1>4. gate' = GateNext(GateAt, GateIn(high)) /\ out' = GateResult(gate', GateIn(high))
  BY DEF GateRun, GateIn
<1>5. QED
  BY <1>2, <1>3, <1>4, GateTypes

\* The source of the next blocks.
LEMMA FeedType ==
  ASSUME NEW r \in GateResults
  PROVE  FeedOf(r) \in {"zeros", "mic", "silence"} \cup Gens
BY DEF FeedOf

\* How long an over is, and what its history says.
LEMMA OverType == TypeOK => OverAfter \in [Gens -> 0..(Cutoff + 2)]
BY Constants DEF TypeOK, OverAfter

LEMMA TailType == TypeOK => TailAfter \in 0..(Hang + 1)
<1> SUFFICES ASSUME TypeOK PROVE TailAfter \in 0..(Hang + 1)
  OBVIOUS
<1>1. h.tail \in 0..(Hang + 1)
  BY DEF TypeOK, History
<1>2. QED
  BY <1>1, Constants DEF TailAfter

\* The generators after a block.
LEMMA WorkGens ==
  ASSUME TypeOK, Work
  PROVE  /\ gen' \in [Gens -> GenState]
         /\ \A g \in Gens : gen'[g] \in GenAfter(g)
<1>1. \A g \in Gens : GenAfter(g) \subseteq GenState
  BY GenAfterFacts
<1>2. PICK f \in [Gens -> UNION {GenAfter(g) : g \in Gens}] :
        gen' = f /\ \A g \in Gens : f[g] \in GenAfter(g)
  BY DEF Work
<1>3. QED
  BY <1>1, <1>2

LEMMA ThreadType ==
  ASSUME KeyType,
         \/ \E p \in BOOLEAN : Status(p)
         \/ Silence
         \/ \E s \in BOOLEAN : Content(s)
         \/ \E high \in Coupler : GateRun(high)
         \/ Work
  PROVE  KeyType'
<1> USE DEF KeyType, guiVars, radioVars, threadVars, gateVars
<1>1. ASSUME NEW p \in BOOLEAN, Status(p) PROVE KeyType'
  BY <1>1 DEF Status, TypeOK, TextFits
<1>2. CASE Silence
  BY <1>2 DEF Silence, TypeOK, TextFits
<1>3. ASSUME NEW s \in BOOLEAN, Content(s) PROVE KeyType'
  <2>1. hang' \in 0..Hang /\ wantGen' \in [Gens -> BOOLEAN]
    <3>1. wantGen' \in [Gens -> BOOLEAN]
      BY <1>3 DEF Content, WantGenAfter
    <3>2. QED
      BY <1>3, <3>1, HangType DEF Content
  <2>2. intent' \in [Buttons -> BOOLEAN] \X [Gens -> BOOLEAN] \X BOOLEAN
    BY <1>3, <2>1 DEF Content, TypeOK
  <2>3. pc' \in {"slot", "edge", "work"}
    BY <1>3 DEF Content
  <2>4. UNCHANGED <<btn, todo, cfgMode, sMode, inBand, sends, pedal, age, want, gen, prevWant,
                    gate, out, feed, lost, over, news, h>>
    BY <1>3 DEF Content
  <2>5. QED
    BY <2>1, <2>2, <2>3, <2>4 DEF TypeOK, TextFits
<1>4. ASSUME NEW high \in Coupler, GateRun(high) PROVE KeyType'
  <2>1. gate' \in GateState /\ out' \in GateResults
    BY <1>4, GateRunTypes
  <2>2. feed' \in {"zeros", "mic", "silence"} \cup Gens
    <3>1. feed' = FeedOf(out')
      BY <1>4 DEF GateRun
    <3>2. QED
      BY <2>1, <3>1, FeedType
  <2>3. prevWant' \in BOOLEAN
    BY <1>4, WantKeyType DEF GateRun, WantKey
  <2>4. news' \in [raised : BOOLEAN, published : BOOLEAN]
    BY <1>4 DEF GateRun, TypeOK
  <2>5. h' \in History
    <3>1. PICK only \in BOOLEAN : h' = [h EXCEPT !.only = only]
      BY <1>4 DEF GateRun
    <3>2. h \in History
      BY DEF TypeOK
    <3>3. QED
      BY <3>1, <3>2 DEF History
  <2>6. pc' = "work"
        /\ UNCHANGED <<btn, todo, cfgMode, sMode, inBand, sends, pedal, age, want, gen, wantGen,
                       hang, intent, lost, over>>
    BY <1>4 DEF GateRun
  <2>7. QED
    BY <2>1, <2>2, <2>3, <2>4, <2>5, <2>6 DEF TypeOK, TextFits
<1>5. CASE Work
  <2>1. gen' \in [Gens -> [left : 0..(MaxText * MaxSends), up : BOOLEAN]]
        /\ \A g \in Gens : gen'[g].left <= gen[g].left
    BY <1>5, WorkGens, GenAfterFacts DEF GenState
  <2>2. TextFits'
    <3>1. /\ sends' = sends /\ MaxText * sends \in Nat
          /\ \A g \in Gens : gen[g].left \in Nat /\ gen[g].left <= MaxText * sends
      BY <1>5, Constants DEF Work, TypeOK, TextFits
    <3>2. \A g \in Gens : gen'[g].left \in Nat
      BY <2>1, Constants
    <3>3. QED
      BY <2>1, <3>1, <3>2 DEF TextFits
  <2>3. want' \in [Buttons -> BOOLEAN] /\ lost' \in BOOLEAN
    <3>1. out.keyed \in BOOLEAN /\ want \in [Buttons -> BOOLEAN]
      BY DEF TypeOK, GateResults
    <3>2. QED
      BY <1>5, <3>1 DEF Work, Released, LinkStale
  <2>4. news' \in [raised : BOOLEAN, published : BOOLEAN]
    <3>1. news \in [raised : BOOLEAN, published : BOOLEAN] /\ LinkLost \in BOOLEAN
      BY DEF TypeOK, LinkLost, LinkStale, GateResults
    <3>2. QED
      BY <1>5, <3>1 DEF Work
  <2>5. over' \in [Gens -> 0..(Cutoff + 2)]
    BY <1>5, OverType DEF Work
  <2>6. h' \in History
    <3>1. h \in History /\ LinkLost \in BOOLEAN /\ TailAfter \in 0..(Hang + 1)
      BY TailType DEF TypeOK, LinkLost, LinkStale, GateResults
    <3>2. h' = [h EXCEPT !.asked = h.asked /\ ~LinkLost, !.tail = TailAfter]
      BY <1>5 DEF Work
    <3>3. h' = [asked |-> h.asked /\ ~LinkLost, only |-> h.only, tail |-> TailAfter]
      BY <3>1, <3>2 DEF History
    <3>4. QED
      BY <3>1, <3>3 DEF History
  <2>7. pc' = "content"
        /\ UNCHANGED <<btn, todo, cfgMode, sMode, inBand, sends, pedal, age, wantGen, hang,
                       intent, prevWant, gate, out, feed>>
    BY <1>5 DEF Work
  <2>8. QED
    BY <2>1, <2>2, <2>3, <2>4, <2>5, <2>6, <2>7 DEF TypeOK
<1>6. QED
  BY <1>1, <1>2, <1>3, <1>4, <1>5

LEMMA TypeStep == KeyType /\ [Next]_vars => KeyType'
<1> SUFFICES ASSUME KeyType, [Next]_vars PROVE KeyType'
  OBVIOUS
<1>1. CASE Next
  BY <1>1, OperatorType, ThreadType DEF Next
<1>2. CASE UNCHANGED vars
  BY <1>2 DEF vars, guiVars, radioVars, threadVars, gateVars, KeyType, TypeOK, TextFits
<1>3. QED
  BY <1>1, <1>2

\* Every reachable state of the keying loop has its type; a generator never holds
\* more than the texts that were sent (cw_gen_send, rtty_gen_send).
THEOREM TypeCorrect == Spec => []TypeOK
<1>1. Init => KeyType
  BY InitType
<1>2. KeyType /\ [Next]_vars => KeyType'
  BY TypeStep
<1>3. KeyType => TypeOK
  BY DEF KeyType
<1>4. QED
  BY <1>1, <1>2, <1>3, PTL DEF Spec

-----------------------------------------------------------------------------
(* What the frame tick still has to pop.                                   *)

In(b, s) == \E i \in 1..Len(s) : s[i] = b

\* The button b will be popped.
Pending(b) == In(b, todo)

LEMMA InConcat ==
  ASSUME NEW s \in Seq(Buttons), NEW t \in Seq(Buttons), NEW b, In(b, s) \/ In(b, t)
  PROVE  In(b, s \o t)
<1>1. s \o t \in Seq(Buttons) /\ Len(s \o t) = Len(s) + Len(t)
      /\ \A i \in 1 .. Len(s) + Len(t) :
            (s \o t)[i] = IF i <= Len(s) THEN s[i] ELSE t[i - Len(s)]
  BY ConcatProperties
<1>2. Len(s) \in Nat /\ Len(t) \in Nat
  BY LenProperties
<1>3. CASE In(b, s)
  <2>1. PICK i \in 1..Len(s) : s[i] = b
    BY <1>3 DEF In
  <2>2. i \in 1..(Len(s) + Len(t)) /\ i <= Len(s)
    BY <1>2
  <2>3. QED
    BY <1>1, <2>1, <2>2 DEF In
<1>4. CASE In(b, t)
  <2>1. PICK i \in 1..Len(t) : t[i] = b
    BY <1>4 DEF In
  <2>2. /\ i + Len(s) \in 1..(Len(s) + Len(t)) /\ ~(i + Len(s) <= Len(s))
        /\ (i + Len(s)) - Len(s) = i
    BY <1>2
  <2>3. QED
    BY <1>1, <2>1, <2>2 DEF In
<1>5. QED
  BY <1>3, <1>4

LEMMA InTail ==
  ASSUME NEW s \in Seq(Buttons), s # <<>>, NEW b, In(b, s), b # Head(s)
  PROVE  In(b, Tail(s))
<1>1. PICK i \in 1..Len(s) : s[i] = b
  BY DEF In
<1>2. Head(s) = s[1] /\ Len(Tail(s)) = Len(s) - 1 /\ \A j \in 1..Len(Tail(s)) : Tail(s)[j] = s[j + 1]
  BY HeadTailProperties
<1>3. Len(s) \in Nat /\ i # 1
  BY <1>1, <1>2, LenProperties
<1>4. i - 1 \in 1..Len(Tail(s)) /\ (i - 1) + 1 = i
  BY <1>2, <1>3
<1>5. QED
  BY <1>1, <1>2, <1>4 DEF In

\* A link loss pops every button there is.
LEMMA LinkLossPopsAll == \A b \in Buttons : In(b, LinkLossPops)
<1> TAKE b \in Buttons
<1>1. b \in {"mox", "tune", "tt"}
  BY KeyAssumption
<1>2. In(b, Pops(b, TRUE))
  <2>1. Pops(b, TRUE) = <<b>>
    BY DEF Pops
  <2>2. 1 \in 1..Len(<<b>>) /\ <<b>>[1] = b
    OBVIOUS
  <2>3. QED
    BY <2>1, <2>2 DEF In
<1>3. \A c : Pops(c, TRUE) \in Seq(Buttons)
  BY PopsType
<1>4. Pops("tune", TRUE) \o Pops("mox", TRUE) \in Seq(Buttons)
  BY <1>3, ConcatProperties
<1>5. In(b, Pops("tune", TRUE) \o Pops("mox", TRUE)) \/ In(b, Pops("tt", TRUE))
  BY <1>1, <1>2, <1>3, InConcat
<1>6. QED
  BY <1>3, <1>4, <1>5, InConcat DEF LinkLossPops

-----------------------------------------------------------------------------
(* The buttons and the intents.                                            *)

\* No intent without its button; a button lit in vain has a link loss to come,
\* or its pop is queued.
ButtonsInv ==
  \A b \in Buttons :
    /\ want[b] => btn[b]
    /\ btn[b] /\ ~want[b] => news.raised \/ news.published \/ Pending(b)

LEMMA ButtonsInit == Init => ButtonsInv
BY DEF Init, ButtonsInv

\* A frame tick leaves what was in the news to be popped.
LEMMA TickPends ==
  ASSUME TypeOK, FrameTick, news.published, NEW b \in Buttons
  PROVE  Pending(b)'
<1> DEFINE refused == out.tripped \/ ~out.allowed
           first == Pops("tune", refused /\ btn["tune"]) \o Pops("tt", refused /\ btn["tt"])
<1>1. first \in Seq(Buttons)
  BY PopsType, ConcatProperties
<1>2. todo' = first \o LinkLossPops
  BY DEF FrameTick
<1>3. QED
  BY <1>1, <1>2, LinkLossPopsType, LinkLossPopsAll, InConcat DEF Pending

LEMMA ButtonsStep == KeyType /\ ButtonsInv /\ [Next]_vars => ButtonsInv'
<1> SUFFICES ASSUME KeyType, ButtonsInv, [Next]_vars, NEW b \in Buttons
             PROVE  /\ want[b]' => btn[b]'
                    /\ btn[b]' /\ ~want[b]' => news.raised' \/ news.published' \/ Pending(b)'
  BY DEF ButtonsInv
<1>1. /\ btn \in [Buttons -> BOOLEAN] /\ want \in [Buttons -> BOOLEAN]
      /\ todo \in Seq(Buttons) /\ news \in [raised : BOOLEAN, published : BOOLEAN]
  BY DEF KeyType, TypeOK
<1>2. /\ want[b] => btn[b]
      /\ btn[b] /\ ~want[b] => news.raised \/ news.published \/ Pending(b)
  BY DEF ButtonsInv
<1>3. CASE UNCHANGED <<btn, want, todo, news>>
  BY <1>2, <1>3 DEF Pending, In
<1>4. ASSUME NEW c \in Buttons, Press(c) PROVE UNCHANGED <<todo, news>>
        /\ (want'[b] = btn'[b] \/ UNCHANGED <<btn[b], want[b]>>)
  BY <1>1, <1>4 DEF Press, Handled
<1>5. CASE FrameTick
  <2>1. UNCHANGED <<btn, want>> /\ news'.raised = news.raised
    BY <1>1, <1>5 DEF FrameTick, threadVars
  <2>2. CASE news.published
    <3>1. Pending(b)'
      BY <1>5, <2>2, TickPends DEF KeyType
    <3>2. QED
      BY <1>2, <2>1, <3>1
  <2>3. CASE ~news.published
    <3>1. ~Pending(b)
      BY <1>5 DEF FrameTick, GuiIdle, Pending, In
    <3>2. QED
      BY <1>2, <2>1, <2>3, <3>1
  <2>4. QED
    BY <2>2, <2>3
<1>6. CASE Pop
  <2>1. Head(todo) \in Buttons /\ todo # <<>> /\ todo' = Tail(todo) /\ UNCHANGED news
    BY <1>1, <1>6, HeadTailProperties DEF Pop
  <2>2. CASE b = Head(todo)
    <3>1. btn'[b] = FALSE /\ want'[b] = FALSE
      <4>1. CASE btn[b]
        BY <1>1, <1>6, <2>1, <2>2, <4>1 DEF Pop, Handled
      <4>2. CASE ~btn[b]
        BY <1>1, <1>2, <1>6, <2>1, <2>2, <4>2 DEF Pop
      <4>3. QED
        BY <4>1, <4>2
    <3>2. QED
      BY <3>1
  <2>3. CASE b # Head(todo)
    <3>1. want'[b] = btn'[b] \/ UNCHANGED <<btn[b], want[b]>>
      BY <1>1, <1>6, <2>1, <2>3 DEF Pop, Handled
    <3>2. Pending(b) => Pending(b)'
      BY <1>1, <2>1, <2>3, InTail DEF Pending
    <3>3. QED
      BY <1>2, <2>1, <3>1, <3>2
  <2>4. QED
    BY <2>2, <2>3
<1>7. ASSUME NEW high \in Coupler, GateRun(high)
      PROVE  UNCHANGED <<btn, want, todo>> /\ (news'.raised \/ news'.published <=> news.raised \/ news.published)
  BY <1>1, <1>7 DEF GateRun, guiVars
<1>8. ASSUME Work
      PROVE  UNCHANGED <<btn, todo>>
             /\ \/ want' = want /\ news' = news
                \/ want' = Released /\ news'.raised
  <2>1. UNCHANGED <<btn, todo>>
    BY <1>8 DEF Work, guiVars
  <2>2. CASE LinkLost
    <3>1. want' = Released /\ news' = [news EXCEPT !.raised = news.raised \/ TRUE]
      BY <1>8, <2>2 DEF Work
    <3>2. QED
      BY <1>1, <2>1, <3>1
  <2>3. CASE ~LinkLost
    <3>1. want' = want /\ news' = [news EXCEPT !.raised = news.raised \/ FALSE]
      BY <1>8, <2>3 DEF Work
    <3>2. QED
      BY <1>1, <2>1, <3>1
  <2>4. QED
    BY <2>1, <2>2, <2>3
<1>9. CASE Next
  <2>1. ASSUME NEW c \in Buttons, Press(c)
        PROVE  UNCHANGED todo /\ UNCHANGED news
               /\ (want'[b] = btn'[b] \/ (want'[b] = want[b] /\ btn'[b] = btn[b]))
    BY <1>4, <2>1
  <2>2. ASSUME NEW c \in Buttons, Press(c) PROVE (want[b] => btn[b])' /\
           (btn[b]' /\ ~want[b]' => news.raised' \/ news.published' \/ Pending(b)')
    BY <1>2, <2>1, <2>2 DEF Pending, In
  <2>3. ASSUME NEW high \in Coupler, GateRun(high) PROVE (want[b] => btn[b])' /\
           (btn[b]' /\ ~want[b]' => news.raised' \/ news.published' \/ Pending(b)')
    BY <1>2, <1>7, <2>3 DEF Pending, In
  <2>4. CASE Work
    BY <1>2, <1>8, <2>4 DEF Pending, In, Released
  <2>5. ASSUME \/ \E m \in Modes : SetMode(m)
               \/ PublishMode \/ Qsy \/ Abort \/ Silence
               \/ \E n \in 1..MaxText : Send(n)
               \/ \E p \in BOOLEAN : Status(p)
               \/ \E s \in BOOLEAN : Content(s)
        PROVE  UNCHANGED <<btn, want, todo, news>>
    BY <2>5 DEF SetMode, PublishMode, Qsy, Abort, Silence, Send, Status, Content, guiVars
  <2>6. QED
    BY <1>3, <1>5, <1>6, <1>9, <2>2, <2>3, <2>4, <2>5 DEF Next
<1>10. QED
  BY <1>3, <1>9 DEF vars, guiVars

\* Once the main thread has done its pops and heard of every link loss, the
\* intents the engine acts on are the buttons the operator sees
\* (on_tx_key_toggled, on_tick, tx_run's link-loss release).
THEOREM ButtonsAgree == Spec => []ButtonsShowIntents
<1>1. Init => KeyType /\ ButtonsInv
  BY InitType, ButtonsInit
<1>2. KeyType /\ ButtonsInv /\ [Next]_vars => KeyType' /\ ButtonsInv'
  BY TypeStep, ButtonsStep
<1>3. KeyType /\ ButtonsInv => ButtonsShowIntents
  <2> SUFFICES ASSUME KeyType, ButtonsInv, GuiIdle, ~news.raised, ~news.published
               PROVE  want = btn
    BY DEF ButtonsShowIntents
  <2>1. btn \in [Buttons -> BOOLEAN] /\ want \in [Buttons -> BOOLEAN]
    BY DEF KeyType, TypeOK
  <2>2. \A b \in Buttons : ~Pending(b)
    BY DEF GuiIdle, Pending, In
  <2>3. \A b \in Buttons : want[b] = btn[b]
    BY <2>1, <2>2 DEF ButtonsInv
  <2>4. QED
    BY <2>1, <2>3
<1>4. QED
  BY <1>1, <1>2, <1>3, PTL DEF Spec

-----------------------------------------------------------------------------
(* The outage.                                                             *)

\* While an outage lasts and the operator asked for nothing since its release,
\* no text is queued, and the buttons still lit have a link loss to come, or
\* their pops are queued.
OutageInv ==
  lost /\ ~h.asked =>
    /\ \A g \in Gens : gen[g].left = 0
    /\ news.raised \/ news.published \/ \A b \in Buttons : btn[b] => Pending(b)

LEMMA OutageInit == Init => OutageInv
BY DEF Init, OutageInv

\* What a block leaves of the texts and of the outage.
LEMMA OutageWork ==
  ASSUME KeyType, OutageInv, Work, lost', ~h'.asked
  PROVE  /\ \A g \in Gens : gen'[g].left = 0
         /\ news'.raised \/ news'.published \/ \A b \in Buttons : btn'[b] => Pending(b)'
<1>1. /\ news \in [raised : BOOLEAN, published : BOOLEAN] /\ h \in History
      /\ LinkLost \in BOOLEAN /\ LinkStale \in BOOLEAN
      /\ \A g \in Gens : gen[g].left \in Nat
  BY Constants DEF KeyType, TypeOK, LinkLost, LinkStale, GateResults
<1>2. lost' = LinkStale /\ UNCHANGED <<btn, todo>>
  BY DEF Work, guiVars
<1>3. \A g \in Gens : /\ gen'[g].left \in Nat /\ gen'[g].left <= gen[g].left
                      /\ LinkLost => gen'[g].left = 0
  <2>1. TypeOK
    BY DEF KeyType
  <2>2. MaxText * MaxSends \in Nat
    BY Constants
  <2>3. QED
    BY <2>1, <2>2, WorkGens, GenAfterFacts DEF GenState
<1>4. CASE LinkLost
  <2>1. news' = [news EXCEPT !.raised = news.raised \/ TRUE]
    BY <1>4 DEF Work
  <2>2. QED
    BY <1>1, <1>3, <1>4, <2>1
<1>5. CASE ~LinkLost
  <2>1. lost
    BY <1>2, <1>5 DEF LinkLost
  <2>2. news' = [news EXCEPT !.raised = news.raised \/ FALSE]
    BY <1>5 DEF Work
  <2>3. h' = [h EXCEPT !.asked = h.asked /\ TRUE, !.tail = TailAfter]
    BY <1>5 DEF Work
  <2>4. ~h.asked /\ news' = news
    BY <1>1, <2>2, <2>3 DEF History
  <2>5. \A g \in Gens : gen'[g].left = 0
    BY <1>1, <1>3, <2>1, <2>4 DEF OutageInv
  <2>6. QED
    BY <1>2, <2>1, <2>4, <2>5 DEF OutageInv, Pending, In
<1>6. QED
  BY <1>4, <1>5

LEMMA OutageStep == KeyType /\ OutageInv /\ [Next]_vars => OutageInv'
<1> SUFFICES ASSUME KeyType, OutageInv, [Next]_vars, lost', ~h'.asked
             PROVE  /\ \A g \in Gens : gen'[g].left = 0
                    /\ news'.raised \/ news'.published \/ \A b \in Buttons : btn'[b] => Pending(b)'
  BY DEF OutageInv
<1>1. /\ btn \in [Buttons -> BOOLEAN] /\ todo \in Seq(Buttons) /\ h \in History
      /\ news \in [raised : BOOLEAN, published : BOOLEAN]
  BY DEF KeyType, TypeOK
<1>2. CASE UNCHANGED <<btn, todo, news, lost, h, gen>>
  BY <1>2 DEF OutageInv, Pending, In
<1>3. ASSUME \/ \E b \in Buttons : Press(b)
             \/ \E n \in 1..MaxText : Send(n)
      PROVE  FALSE
  BY <1>1, <1>3 DEF Press, Send, History
<1>4. CASE Abort
  <2>1. UNCHANGED <<btn, todo, news, lost, h>>
    BY <1>4 DEF Abort, guiVars, threadVars
  <2>2. \A g \in Gens : gen'[g].left = 0
    <3>1. \A g \in Gens : gen[g] \in GenState
      BY DEF KeyType, TypeOK, GenState
    <3>2. QED
      BY <1>4, <3>1 DEF Abort, Flush, GenState
  <2>3. QED
    BY <2>1, <2>2 DEF OutageInv, Pending, In
<1>5. CASE FrameTick
  <2>1. UNCHANGED <<btn, gen, lost, h>> /\ news'.raised = news.raised
    BY <1>1, <1>5 DEF FrameTick, threadVars
  <2>2. CASE news.published
    <3>1. \A b \in Buttons : Pending(b)'
      BY <1>5, <2>2, TickPends DEF KeyType
    <3>2. QED
      BY <2>1, <3>1 DEF OutageInv
  <2>3. CASE ~news.published
    <3>1. \A b \in Buttons : ~Pending(b)
      BY <1>5 DEF FrameTick, GuiIdle, Pending, In
    <3>2. QED
      BY <2>1, <2>3, <3>1 DEF OutageInv
  <2>4. QED
    BY <2>2, <2>3
<1>6. CASE Pop
  <2>1. /\ Head(todo) \in Buttons /\ todo # <<>> /\ todo' = Tail(todo)
        /\ UNCHANGED <<gen, lost, h, news>>
    BY <1>1, <1>6, HeadTailProperties DEF Pop, threadVars
  <2>2. btn' = [btn EXCEPT ![Head(todo)] = FALSE]
    <3>1. CASE btn[Head(todo)]
      BY <1>6, <3>1 DEF Pop
    <3>2. CASE ~btn[Head(todo)]
      BY <1>1, <1>6, <2>1, <3>2 DEF Pop
    <3>3. QED
      BY <3>1, <3>2
  <2>3. ASSUME NEW b \in Buttons, btn[b] => Pending(b), btn'[b] PROVE Pending(b)'
    <3>1. b # Head(todo) /\ btn[b]
      BY <1>1, <2>1, <2>2, <2>3
    <3>2. QED
      BY <1>1, <2>1, <2>3, <3>1, InTail DEF Pending
  <2>4. QED
    BY <2>1, <2>3 DEF OutageInv
<1>7. ASSUME NEW high \in Coupler, GateRun(high)
      PROVE  /\ UNCHANGED <<btn, todo, lost, gen>> /\ h'.asked = h.asked
             /\ (news'.raised \/ news'.published <=> news.raised \/ news.published)
  <2>1. UNCHANGED <<btn, todo, lost, gen>>
    BY <1>7 DEF GateRun, guiVars
  <2>2. PICK o : h' = [h EXCEPT !.only = o]
    BY <1>7 DEF GateRun
  <2>3. QED
    BY <1>1, <1>7, <2>1, <2>2 DEF GateRun, History
<1>8. ASSUME NEW high \in Coupler, GateRun(high)
      PROVE  /\ \A g \in Gens : gen'[g].left = 0
             /\ news'.raised \/ news'.published \/ \A b \in Buttons : btn'[b] => Pending(b)'
  BY <1>7, <1>8 DEF OutageInv, Pending, In
<1>9. ASSUME \/ \E m \in Modes : SetMode(m)
             \/ PublishMode \/ Qsy \/ Silence
             \/ \E p \in BOOLEAN : Status(p)
             \/ \E s \in BOOLEAN : Content(s)
      PROVE  UNCHANGED <<btn, todo, news, lost, h, gen>>
  BY <1>9 DEF SetMode, PublishMode, Qsy, Silence, Status, Content, guiVars, threadVars
<1>10. CASE Next
  BY <1>2, <1>3, <1>4, <1>5, <1>6, <1>8, <1>9, <1>10, OutageWork DEF Next
<1>11. QED
  BY <1>2, <1>10 DEF vars, guiVars, threadVars

\* A key held or a text queued when the radio was lost does not key again when it
\* comes back: once the GUI has done its pops nothing is left of either
\* (tx_run's link-loss release, on_tick).
THEOREM OutageClears == Spec => []OutageLeavesNothing
<1>1. Init => KeyType /\ ButtonsInv /\ OutageInv
  BY InitType, ButtonsInit, OutageInit
<1>2. KeyType /\ ButtonsInv /\ OutageInv /\ [Next]_vars
        => KeyType' /\ ButtonsInv' /\ OutageInv'
  BY TypeStep, ButtonsStep, OutageStep
<1>3. KeyType /\ ButtonsInv /\ OutageInv => OutageLeavesNothing
  BY DEF OutageLeavesNothing, GuiIdle, ButtonsInv, OutageInv, Pending, In
<1>4. QED
  BY <1>1, <1>2, <1>3, PTL DEF Spec

-----------------------------------------------------------------------------
(* The cutoff.                                                             *)

\* The fingerprint holds the generator intents as they are.
IntentInv == intent[2] = wantGen

\* From the gate run to the end of the block, and to the next one, a generator
\* that alone was keyed still wants the key.
OnlyInv == pc \in {"work", "content"} /\ h.only => feed \in Gens /\ wantGen[feed]

\* With a PTT delay longer than the cutoff no generator is ever pulled.
UpInv == PttDelay >= Cutoff + 2 => \A g \in Gens : ~gen[g].up

\* What may still key the generator g past its cutoff: nothing for RTTY, the
\* rest of the hang time for CW.
RunsOut(g) ==
  IF pc = "content" THEN g = "CW" => hang + h.tail <= Hang + 1
  ELSE wantGen[g] => g = "CW" /\ hang > 0 /\ hang + h.tail <= Hang

\* Past the cutoff one generator is keyed, at rest, and running out.
TailInv ==
  h.tail > 0 =>
    \E g \in Gens :
      /\ gen[g] = Rest
      /\ \A f \in Gens \ {g} : over[f] = 0
      /\ RunsOut(g)

CutoffInv == IntentInv /\ OnlyInv /\ UpInv /\ TailInv /\ CutoffBoundsTheOver

LEMMA CutoffInit == Init => CutoffInv
BY Constants DEF Init, Rest, CutoffInv, IntentInv, OnlyInv, UpInv, TailInv, CutoffBoundsTheOver

LEMMA CutoffContent ==
  ASSUME KeyType, CutoffInv, NEW s \in BOOLEAN, Content(s)
  PROVE  CutoffInv'
<1>1. /\ pc = "content" /\ pc' \in {"slot", "edge", "work"}
      /\ hang' = HangAfter /\ wantGen' = WantGenAfter /\ intent' = <<want, wantGen', pedal>>
      /\ UNCHANGED <<sMode, gen, feed, over, h>>
      /\ pc' = "work" => intent' = intent
  BY DEF Content, guiVars
<1>2. IntentInv'
  BY <1>1 DEF IntentInv
<1>3. OnlyInv'
  BY <1>1, <1>2 DEF CutoffInv, IntentInv, OnlyInv
<1>4. UpInv'
  BY <1>1 DEF CutoffInv, UpInv
<1>5. TailInv'
  <2> SUFFICES ASSUME h'.tail > 0 PROVE TailInv'
    BY DEF TailInv
  <2>1. h.tail > 0 /\ h.tail \in Nat /\ hang \in Nat
    BY <1>1, Constants DEF KeyType, TypeOK, History
  <2>0. TailInv
    BY DEF CutoffInv
  <2>2. PICK g \in Gens : /\ gen[g] = Rest
                          /\ \A f \in Gens \ {g} : over[f] = 0
                          /\ RunsOut(g)
    BY <2>0, <2>1 DEF TailInv
  <2>3. g = "CW" => HangAfter = IF hang > 0 THEN hang - 1 ELSE 0
    BY <2>2 DEF HangAfter, GenIdle
  <2>4. ASSUME wantGen'[g] PROVE g = "CW" /\ hang' > 0 /\ hang' + h'.tail <= Hang
    <3>1. sMode = g /\ (IF g = "CW" THEN HangAfter > 0 ELSE ~GenIdle(g))
      BY <1>1, <2>4 DEF WantGenAfter
    <3>2. g = "CW" /\ HangAfter > 0
      BY <2>2, <3>1 DEF GenIdle
    <3>3. HangAfter = hang - 1 /\ hang > 0
      BY <2>1, <2>3, <3>2
    <3>4. hang + h.tail <= Hang + 1
      BY <1>1, <2>2, <3>2 DEF RunsOut
    <3>5. QED
      BY <1>1, <2>1, <3>2, <3>3, <3>4, Constants
  <2>5. RunsOut(g)'
    BY <1>1, <2>4 DEF RunsOut
  <2>6. QED
    BY <1>1, <2>2, <2>5 DEF TailInv
<1>6. CutoffBoundsTheOver'
  BY <1>1 DEF CutoffInv, CutoffBoundsTheOver
<1>7. QED
  BY <1>2, <1>3, <1>4, <1>5, <1>6 DEF CutoffInv

LEMMA CutoffGate ==
  ASSUME KeyType, CutoffInv, NEW high \in Coupler, GateRun(high)
  PROVE  CutoffInv'
<1>1. /\ pc \in {"slot", "edge"} /\ pc' = "work" /\ feed' = FeedOf(out')
      /\ UNCHANGED <<sMode, gen, wantGen, hang, intent, over, want>>
  BY DEF GateRun, guiVars
<1>2. PICK o \in BOOLEAN :
        /\ h' = [h EXCEPT !.only = o]
        /\ o = (feed' \in Gens /\ ~PedalKeys /\ \A b \in Buttons : ~want[b])
  BY DEF GateRun
<1>3. h'.only = o /\ h'.tail = h.tail
  BY <1>2 DEF KeyType, TypeOK, History
<1>4. ASSUME o PROVE feed' \in Gens /\ wantGen'[feed']
  <2>1. feed' \in Gens /\ ~PedalKeys /\ \A b \in Buttons : ~want[b]
    BY <1>2, <1>4
  <2>2. out'.mox /\ sMode \in Gens /\ feed' = sMode
    <3>1. "zeros" \notin Gens /\ "silence" \notin Gens /\ "mic" \notin Gens
      BY Constants
    <3>2. QED
      BY <1>1, <2>1, <3>1 DEF FeedOf
  <2>3. WantMox
    <3>1. out' = GateResult(gate', GateIn(high))
      BY GateRunTypes DEF KeyType
    <3>2. out'.mox => GateIn(high).mox
      BY <3>1 DEF GateResult
    <3>3. QED
      BY <2>2, <3>2 DEF GateIn
  <2>4. wantGen[sMode]
    BY <2>1, <2>3 DEF WantMox, Wants
  <2>5. QED
    BY <1>1, <2>2, <2>4
<1>5. OnlyInv'
  BY <1>3, <1>4 DEF OnlyInv
<1>6. TailInv'
  <2> SUFFICES ASSUME h'.tail > 0 PROVE TailInv'
    BY DEF TailInv
  <2>0. TailInv
    BY DEF CutoffInv
  <2>1. PICK g \in Gens : /\ gen[g] = Rest
                          /\ \A f \in Gens \ {g} : over[f] = 0
                          /\ RunsOut(g)
    BY <1>3, <2>0 DEF TailInv
  <2>2. RunsOut(g)'
    BY <1>1, <1>3, <2>1 DEF RunsOut
  <2>3. QED
    BY <1>1, <2>1, <2>2 DEF TailInv
<1>7. IntentInv' /\ UpInv' /\ CutoffBoundsTheOver'
  BY <1>1, <1>3 DEF CutoffInv, IntentInv, UpInv, CutoffBoundsTheOver
<1>8. QED
  BY <1>5, <1>6, <1>7 DEF CutoffInv

\* A block past the cutoff: the generator that is keyed alone is at rest after it.
LEMMA PastCutoffRests ==
  ASSUME KeyType, UpInv, Work, feed \in PastCutoff
  PROVE  /\ feed \in Gens /\ OverAfter[feed] = Cutoff + 2
         /\ gen'[feed] = Rest
<1>1. feed \in Gens /\ OverAfter[feed] = Cutoff + 2
  BY OverType, Constants DEF PastCutoff, KeyType
<1>2. gen'[feed] \in GenAfter(feed)
  BY <1>1, WorkGens DEF KeyType
<1>3. gen'[feed] \in GenState /\ gen'[feed].left = 0
      /\ (Pulls(feed) => gen'[feed] = Rest)
      /\ (~Pulls(feed) => gen'[feed].up = gen[feed].up)
  BY <1>1, <1>2, GenAfterFacts DEF KeyType
<1>4. CASE ~Pulls(feed)
  <2>1. PttDelay >= Cutoff + 2
    BY <1>1, <1>4, Constants DEF Pulls
  <2>2. ~gen'[feed].up
    BY <1>1, <1>3, <1>4, <2>1 DEF UpInv
  <2>3. gen'[feed].up = FALSE
    BY <1>3, <2>2 DEF GenState
  <2>4. QED
    BY <1>1, <1>3, <2>3 DEF GenState, Rest
<1>5. QED
  BY <1>1, <1>3, <1>4

LEMMA CutoffWork ==
  ASSUME KeyType, CutoffInv, Work
  PROVE  CutoffInv'
<1>1. /\ pc = "work" /\ pc' = "content" /\ over' = OverAfter
      /\ UNCHANGED <<wantGen, hang, intent, feed>>
  BY DEF Work, gateVars
<1>2. h'.only = h.only /\ h'.tail = TailAfter
  <2>1. PICK a : h' = [h EXCEPT !.asked = a, !.tail = TailAfter]
    BY DEF Work
  <2>2. QED
    BY <2>1 DEF KeyType, TypeOK, History
<1>3. IntentInv' /\ OnlyInv'
  BY <1>1, <1>2 DEF CutoffInv, IntentInv, OnlyInv
<1>4. UpInv'
  <2> SUFFICES ASSUME PttDelay >= Cutoff + 2, NEW g \in Gens PROVE ~gen'[g].up
    BY DEF UpInv
  <2>1. ~Pulls(g)
    BY OverType, Constants DEF Pulls, KeyType
  <2>2. gen'[g].up = gen[g].up
    BY <2>1, WorkGens, GenAfterFacts DEF KeyType
  <2>3. QED
    BY <2>2 DEF CutoffInv, UpInv
<1>5. ASSUME TailAfter > 0
      PROVE  /\ feed \in Gens /\ gen'[feed] = Rest
             /\ \A f \in Gens \ {feed} : over'[f] = 0
             /\ TailAfter = 1 \/ TailAfter <= Hang
             /\ feed = "CW" => hang + TailAfter <= Hang + 1
  <2>1. h.only /\ feed \in PastCutoff /\ TailAfter = (IF h.tail = Hang + 1 THEN h.tail ELSE h.tail + 1)
    BY <1>5 DEF TailAfter
  <2>2. feed \in Gens /\ OverAfter[feed] = Cutoff + 2 /\ gen'[feed] = Rest
    BY <2>1, PastCutoffRests DEF CutoffInv
  <2>3. \A f \in Gens \ {feed} : over'[f] = 0
    BY <1>1 DEF OverAfter
  <2>4. wantGen[feed]
    BY <1>1, <2>1 DEF CutoffInv, OnlyInv
  <2>5. h.tail \in 0..(Hang + 1) /\ hang \in 0..Hang /\ over[feed] \in Nat
    BY <2>2, Constants DEF KeyType, TypeOK, History
  <2>6. CASE h.tail = 0
    BY <2>1, <2>2, <2>3, <2>5, <2>6, Constants
  <2>7. CASE h.tail > 0
    <3>0. TailInv
      BY DEF CutoffInv
    <3>1. PICK g \in Gens : /\ \A f \in Gens \ {g} : over[f] = 0
                            /\ RunsOut(g)
      BY <2>7, <3>0 DEF TailInv
    <3>2. over[feed] # 0
      <4>1. over[feed] = Cutoff + 2 \/ over[feed] + 1 = Cutoff + 2
        BY <2>2 DEF OverAfter
      <4>2. QED
        BY <2>5, <4>1, Constants
    <3>3. g = feed
      BY <2>2, <3>1, <3>2
    <3>4. feed = "CW" /\ hang > 0 /\ hang + h.tail <= Hang
      BY <1>1, <2>4, <3>1, <3>3 DEF RunsOut
    <3>5. TailAfter = h.tail + 1
      BY <2>1, <2>5, <3>4, Constants
    <3>6. QED
      BY <2>2, <2>3, <2>5, <3>4, <3>5, Constants
  <2>8. QED
    BY <2>5, <2>6, <2>7, Constants
<1>6. TailInv'
  <2> SUFFICES ASSUME h'.tail > 0 PROVE TailInv'
    BY DEF TailInv
  <2>1. TailAfter > 0
    BY <1>2
  <2>2. RunsOut(feed)'
    BY <1>1, <1>2, <1>5, <2>1 DEF RunsOut
  <2>3. QED
    BY <1>1, <1>5, <2>1, <2>2 DEF TailInv
<1>7. CutoffBoundsTheOver'
  <2>1. TailAfter \in 0..(Hang + 1)
    BY TailType DEF KeyType
  <2>2. QED
    BY <1>2, <1>5, <2>1, Constants DEF CutoffBoundsTheOver
<1>8. QED
  BY <1>3, <1>4, <1>6, <1>7 DEF CutoffInv

LEMMA CutoffStep == KeyType /\ CutoffInv /\ [Next]_vars => CutoffInv'
<1> SUFFICES ASSUME KeyType, CutoffInv, [Next]_vars PROVE CutoffInv'
  OBVIOUS
<1>1. CASE UNCHANGED <<gen, wantGen, hang, pc, intent, feed, over>> /\ h'.only = h.only
           /\ h'.tail = h.tail
  BY <1>1 DEF CutoffInv, IntentInv, OnlyInv, UpInv, TailInv, RunsOut, CutoffBoundsTheOver
<1>2. ASSUME NEW b \in Buttons, Press(b) PROVE CutoffInv'
  <2>1. h' = [h EXCEPT !.asked = TRUE]
    BY <1>2 DEF Press
  <2>2. h'.only = h.only /\ h'.tail = h.tail
    BY <2>1 DEF KeyType, TypeOK, History
  <2>3. QED
    BY <1>1, <1>2, <2>2 DEF Press, threadVars, gateVars
<1>3. ASSUME NEW n \in 1..MaxText, Send(n) PROVE CutoffInv'
  <2>1. h' = [h EXCEPT !.asked = TRUE, !.tail = 0]
    BY <1>3 DEF Send
  <2>2. h'.only = h.only /\ h'.tail = 0
    BY <2>1 DEF KeyType, TypeOK, History
  <2>3. UNCHANGED <<wantGen, pc, intent, feed>>
    BY <1>3 DEF Send, threadVars, gateVars
  <2>4. \A g \in Gens : gen'[g].up = gen[g].up
    BY <1>3 DEF Send, KeyType, TypeOK
  <2>5. QED
    BY <2>2, <2>3, <2>4, Constants
    DEF CutoffInv, IntentInv, OnlyInv, UpInv, TailInv, CutoffBoundsTheOver
<1>4. CASE Abort
  <2>1. UNCHANGED <<wantGen, hang, pc, intent, feed, over, h>>
    BY <1>4 DEF Abort, threadVars, gateVars
  <2>2. \A g \in Gens : gen'[g].up = gen[g].up /\ (gen[g] = Rest => gen'[g] = Rest)
    <3>1. \A g \in Gens : gen[g] \in GenState
      BY DEF KeyType, TypeOK, GenState
    <3>2. QED
      BY <1>4, <3>1 DEF Abort, Flush, GenState, Rest
  <2>3. QED
    BY <2>1, <2>2
    DEF CutoffInv, IntentInv, OnlyInv, UpInv, TailInv, RunsOut, CutoffBoundsTheOver
<1>5. ASSUME \/ \E m \in Modes : SetMode(m)
             \/ PublishMode \/ Qsy \/ FrameTick \/ Pop \/ Silence
             \/ \E p \in BOOLEAN : Status(p)
      PROVE  UNCHANGED <<gen, wantGen, hang, pc, intent, feed, over, h>>
  BY <1>5 DEF SetMode, PublishMode, Qsy, FrameTick, Pop, Silence, Status, threadVars, gateVars
<1>6. CASE Next
  BY <1>1, <1>2, <1>3, <1>4, <1>5, <1>6, CutoffContent, CutoffGate, CutoffWork DEF Next
<1>7. QED
  BY <1>1, <1>6 DEF vars, threadVars, gateVars

\* The 20 s cutoff ends an over of the CW or RTTY generator: past it the exciter is
\* keyed for the hang time at most, whatever the hang, the cutoff and the PTT delay
\* are (tx_run's cutoff and its break-in bookkeeping).
THEOREM CutoffEndsTheOver == Spec => []CutoffBoundsTheOver
<1>1. Init => KeyType /\ CutoffInv
  BY InitType, CutoffInit
<1>2. KeyType /\ CutoffInv /\ [Next]_vars => KeyType' /\ CutoffInv'
  BY TypeStep, CutoffStep
<1>3. CutoffInv => CutoffBoundsTheOver
  BY DEF CutoffInv
<1>4. QED
  BY <1>1, <1>2, <1>3, PTL DEF Spec

=============================================================================
