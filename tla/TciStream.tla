------------------------------ MODULE TciStream ------------------------------
(***************************************************************************)
(* The IQ stream of the TCI server, tci_server.c, and the centre stamps in *)
(* its blocks.  The listener pushes the radio's frames into a ring, the    *)
(* service thread pumps them out in chunks and collects them into blocks   *)
(* for the client; a block says on which frequency the DDC was at its      *)
(* first frame, at which frame that changed, and to what.  The change      *)
(* itself happens on another thread, ahead of the frames that carry it:    *)
(* it is noted with the index its first frame will have.                   *)
(*                                                                         *)
(* A frame is the frequency it was received on; time is counted in frames, *)
(* and the sample clock is taken as right.  Indices count from the next    *)
(* frame to pump.  One client, which asked for the radio's own rate.       *)
(***************************************************************************)
EXTENDS Integers, Sequences

CONSTANTS
  Centres,     \* frequencies of the dial and the DDC
  Latency,     \* frames from the retune to the first one that carries it
  Chunk,       \* IQ_CHUNK
  Block,       \* IQ_BLK_FRAMES
  NetMax,      \* bound: frames the listener is behind
  StreamDisturb \* bound: retunes, starts and stops of the stream

StreamAssumption ==
  /\ Centres \subseteq Nat \ {0} /\ Centres # {} /\ Latency \in Nat
  /\ Chunk \in Nat \ {0} /\ Block \in Nat \ {0, 1} /\ {NetMax, StreamDisturb} \subseteq Nat

VARIABLES
  dial, centre, ctun, \* app->freq, app->centre, app->ctun
  pipe,        \* what the next frames of the radio carry
  net,         \* frames the listener has not read
  iq,          \* iq_ring, from tail to head
  stamps,      \* s_stamp, from c->stamp_seen on
  noted,       \* s_stamp_last_hz
  client,      \* iq_sub and the stamp_ fields of the client
  out,         \* the last block sent, or <<>>
  h,           \* history: what the frames of the block carry, and the stamps that
               \* took effect inside it; the stream began on frames of the
               \* current centre, and with the dial on it
  turns        \* how often anything was touched

tuneVars == <<dial, centre, ctun, noted>>
vars     == <<tuneVars, pipe, net, iq, stamps, client, out, h, turns>>

Quiet == [sub |-> FALSE, cur |-> 0, fill |-> 0, hz0 |-> 0, off |-> 0, hz1 |-> 0]

\* A block as it goes out, with what its frames carry.
BlockOf(c, frames, marks) ==
  [hz0 |-> c.hz0, off |-> c.off, hz1 |-> c.hz1, frames |-> frames, marks |-> marks]

Stamp      == [at : Int, hz : Centres]
ClientType == [sub : BOOLEAN, cur : Centres \cup {0}, fill : 0..Block - 1,
               hz0 : Centres \cup {0}, off : 0..Block - 1, hz1 : Centres \cup {0}]

TypeOK ==
  /\ {dial, centre} \subseteq Centres /\ ctun \in BOOLEAN /\ noted \in Centres \cup {0}
  /\ pipe \in [1..Latency -> Centres]
  /\ net \in Seq(Centres) /\ Len(net) <= NetMax /\ iq \in Seq(Centres)
  /\ \A i \in DOMAIN stamps : stamps[i] \in Stamp
  /\ client \in ClientType
  /\ h.frames \in Seq(Centres) /\ turns \in 0..StreamDisturb

Init ==
  /\ dial \in Centres /\ centre = dial /\ ctun = FALSE /\ noted = 0
  /\ pipe = [i \in 1..Latency |-> dial] /\ net = <<>> /\ iq = <<>>
  /\ stamps = <<>> /\ client = Quiet /\ out = <<>> /\ turns = 0
  /\ h = [frames |-> <<>>, marks |-> 0, settled |-> TRUE, onDial |-> TRUE]

-----------------------------------------------------------------------------
(* The main loop: tuning, and the client's commands.                       *)

Turn == turns < StreamDisturb /\ turns' = turns + 1

\* Mutant: the index is that of the next frame to come, without the frames the
\* listener is behind.
IndexOfNext == Len(iq) + Latency

\* The index of the first frame that carries a change made now.
ChangeIndex == Len(iq) + Len(net) + Latency

\* stamp_note_freq: a change is noted once; what a client that is not subscribed
\* misses it never sees.
Note(hz) ==
  /\ noted' = hz
  /\ stamps' = IF client.sub /\ hz # noted THEN Append(stamps, [at |-> ChangeIndex, hz |-> hz])
                                           ELSE stamps

\* engine_set_frequency, engine_set_centre and ctun_set end in tci_server_freq_changed.
Retune(f) ==
  /\ Turn /\ f # dial
  /\ dial' = f /\ centre' = IF ctun THEN centre ELSE f
  /\ Note(centre') /\ UNCHANGED <<ctun, pipe, net, iq, client, out, h>>

SetCentre(c) ==
  /\ Turn /\ ctun /\ c # centre
  /\ centre' = c
  /\ Note(c) /\ UNCHANGED <<dial, ctun, pipe, net, iq, client, out, h>>

Ctun ==
  /\ Turn /\ ctun' = ~ctun
  /\ centre' = IF ctun THEN dial ELSE centre
  /\ Note(centre') /\ UNCHANGED <<dial, pipe, net, iq, client, out, h>>

\* iq_start: the stamps start from now, at the frequency of the dial.
IqStart ==
  /\ Turn /\ ~client.sub
  /\ client' = [Quiet EXCEPT !.sub = TRUE, !.cur = dial, !.hz0 = dial]
  /\ stamps' = <<>>
  /\ h' = [frames |-> <<>>, marks |-> 0,
           settled |-> \A s \in {pipe, net, iq} : \A i \in DOMAIN s : s[i] = centre,
           onDial |-> dial = centre]
  /\ UNCHANGED <<tuneVars, pipe, net, iq, out>>

\* iq_stop and CLOSED.
IqStop ==
  /\ Turn /\ client.sub
  /\ client' = Quiet /\ stamps' = <<>> /\ out' = <<>>
  /\ h' = [h EXCEPT !.frames = <<>>, !.marks = 0]
  /\ UNCHANGED <<tuneVars, pipe, net, iq>>

-----------------------------------------------------------------------------
(* The radio, the listener, the service thread.                            *)

\* A frame is received on the frequency the radio was on Latency frames ago.
Capture ==
  /\ Len(net) < NetMax /\ (client.sub => Len(iq) < Block)
  /\ net' = Append(net, (Append(pipe, centre))[1])
  /\ pipe' = Tail(Append(pipe, centre))
  /\ UNCHANGED <<tuneVars, iq, stamps, client, out, h, turns>>

\* tci_server_iq_push: nothing is kept while nobody listens.
IqPush ==
  /\ net # <<>>
  /\ net' = Tail(net)
  /\ iq' = IF client.sub THEN Append(iq, Head(net)) ELSE iq
  /\ UNCHANGED <<tuneVars, pipe, stamps, client, out, h, turns>>

\* How many of the stamps st have taken effect by frame i of the chunk: the loop that
\* consumes them stops at the first one that has not.
Due(st, i) ==
  CHOOSE n \in 0..Len(st) :
    (\A k \in 1..n : st[k].at < i) /\ (n < Len(st) => st[n + 1].at >= i)

\* The frequency after n of the stamps st, from cur on.
After(cur, st, n) == IF n = 0 THEN cur ELSE st[n].hz

\* The body of iq_pump's loop over the frames: s has the client, the stamps it has
\* not seen and the block so far; frame i of the chunk arrives.
PumpFrame(s, i) ==
  LET fresh == s.c.fill = 0
      full  == s.c.fill + 1 = Block
      n     == Due(s.stamps, i)
      hz    == After(s.c.cur, s.stamps, n)
      c     == [s.c EXCEPT
                  !.cur = hz,
                  !.hz0 = IF fresh THEN hz ELSE @,
                  !.off = IF fresh THEN 0 ELSE IF n > 0 /\ @ = 0 THEN s.c.fill ELSE @,
                  !.hz1 = IF fresh THEN 0 ELSE IF n > 0 THEN hz ELSE @]
      frames == Append(s.frames, iq[i])
      marks  == IF fresh THEN 0 ELSE s.marks + n
  IN  [c |-> [c EXCEPT !.fill = IF full THEN 0 ELSE @ + 1],
       stamps |-> SubSeq(s.stamps, n + 1, Len(s.stamps)),
       frames |-> IF full THEN <<>> ELSE frames, marks |-> IF full THEN 0 ELSE marks,
       out |-> IF full THEN BlockOf(c, frames, marks) ELSE s.out]

\* The loop, after i frames.
Pumped[i \in 0..Chunk] ==
  IF i = 0 THEN [c |-> client, stamps |-> stamps, frames |-> h.frames, marks |-> h.marks,
                 out |-> out]
           ELSE PumpFrame(Pumped[i - 1], i)

\* iq_pump for one chunk; iq_emit when a block is full.
IqPump ==
  /\ client.sub /\ Len(iq) >= Chunk
  /\ LET s == Pumped[Chunk]
     IN  /\ client' = s.c /\ out' = s.out
         /\ stamps' = [j \in DOMAIN s.stamps |-> [s.stamps[j] EXCEPT !.at = @ - Chunk]]
         /\ h' = [h EXCEPT !.frames = s.frames, !.marks = s.marks]
  /\ iq' = SubSeq(iq, Chunk + 1, Len(iq))
  /\ UNCHANGED <<tuneVars, pipe, net, turns>>

Next ==
  \/ \E f \in Centres : Retune(f) \/ SetCentre(f)
  \/ Ctun \/ IqStart \/ IqStop
  \/ Capture \/ IqPush \/ IqPump

Spec == Init /\ [][Next]_vars

-----------------------------------------------------------------------------
(* Properties.                                                             *)

\* What a block says of its frame i.
Stamped(b, i) == IF b.off = 0 \/ i <= b.off THEN b.hz0 ELSE b.hz1

\* The stamps of a block agree with its frames; when more than one change was noted
\* inside it, up to the first one, and at its end.
Truthful(b) ==
  \A i \in 1..Block :
    (i <= b.off \/ i = Block \/ b.marks <= 1) => b.frames[i] = Stamped(b, i)

\* "The DDC centre of the block's FIRST frame, the frame offset at which the centre
\* changed inside the block, and the centre from that frame on" (tci_server.c): so
\* it is however retunes fall between frames, pushes, chunks and blocks, for a
\* stream that was started with the dial on the centre.
StampsAreTrue == (out # <<>> /\ h.settled /\ h.onDial) => Truthful(out)

(* What makes it so: every frame still to come carries the frequency that  *)
(* the stamps give it, the last of them the centre's.                      *)

\* The frame k that is to be pumped.
FrameAt(k) ==
  IF k <= Len(iq) THEN iq[k]
  ELSE IF k <= Len(iq) + Len(net) THEN net[k - Len(iq)] ELSE pipe[k - Len(iq) - Len(net)]

\* Frame k is received after n of the stamps st and before the next one.
InForce(st, n, k) == (n > 0 => st[n].at < k) /\ (n < Len(st) => k <= st[n + 1].at)

\* From cur on, the stamps st are those of the frames after the first i.
Foretold(cur, st, i) ==
  /\ After(cur, st, Len(st)) = centre
  /\ \A j \in 1..Len(st) : st[j].at <= ChangeIndex
  /\ \A n \in 0..Len(st), k \in i + 1..ChangeIndex :
       InForce(st, n, k) => FrameAt(k) = After(cur, st, n)

\* The block that is being filled.
BlockSoFar(c, frames, marks) ==
  /\ Len(frames) = c.fill
  /\ c.fill = 0 => marks = 0
  /\ c.fill > 0 =>
       /\ frames[c.fill] = c.cur
       /\ c.off < c.fill /\ (c.off = 0 <=> marks = 0)
       /\ \A i \in 1..c.fill : (marks = 0 \/ i <= c.off) => frames[i] = c.hz0
       /\ marks > 0 => c.hz1 = c.cur
       /\ marks = 1 => \A i \in c.off + 1..c.fill : frames[i] = c.hz1

StreamInv ==
  /\ {dial, centre} \subseteq Centres /\ noted \in {0, centre}
  /\ pipe \in [1..Latency -> Centres] /\ {net, iq} \subseteq Seq(Centres)
  /\ stamps \in Seq(Stamp) /\ client \in ClientType
  /\ h \in [frames : Seq(Centres), marks : Nat, settled : BOOLEAN, onDial : BOOLEAN]
  /\ ~client.sub => out = <<>>
  /\ (client.sub /\ h.settled /\ h.onDial) =>
       /\ Foretold(client.cur, stamps, 0) /\ BlockSoFar(client, h.frames, h.marks)
       /\ out # <<>> => Truthful(out)
=============================================================================
