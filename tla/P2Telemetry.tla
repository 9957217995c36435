----------------------------- MODULE P2Telemetry -----------------------------
(***************************************************************************)
(* The forward peak of protocol2.c's telemetry: the listener raises it     *)
(* from every status packet, the transmit thread takes it once per gate    *)
(* slot for the wattmeter and lets it decay.  Nothing locks it: raising    *)
(* and decaying are each a read and a write of their own.                  *)
(*                                                                         *)
(* A level is a raw coupler word; the decay by a sixteenth is by a half.   *)
(***************************************************************************)
EXTENDS Naturals

CONSTANTS
  Levels,       \* raw forward words a status packet may carry
  MaxPackets    \* bound: status packets per link

TelemetryAssumption == Levels \subseteq Nat /\ 0 \in Levels /\ MaxPackets \in Nat

VARIABLES
  peak,         \* tlm_fwd_max
  parse,        \* the packet the listener is at, and what it decided on the peak
  take,         \* the peak the transmit thread read and has not yet decayed
  packets,      \* status packets of this link
  h             \* history: the highest word parsed since the last decay; and what
                \* that was, with what the slot took, at the last take

vars == <<peak, parse, take, packets, h>>

MaxLevel == CHOOSE l \in Levels : \A k \in Levels : k <= l
Idle     == [busy |-> FALSE, level |-> 0, raise |-> FALSE]
NoTake   == [busy |-> FALSE, peak |-> 0]

TypeOK ==
  /\ peak \in 0..MaxLevel /\ packets \in 0..MaxPackets
  /\ parse \in [busy : BOOLEAN, level : 0..MaxLevel, raise : BOOLEAN]
  /\ take \in [busy : BOOLEAN, peak : 0..MaxLevel]
  /\ h \in [highest : 0..MaxLevel, due : 0..MaxLevel, taken : 0..MaxLevel]

Init ==
  /\ peak = 0 /\ parse = Idle /\ take = NoTake /\ packets = 0
  /\ h = [highest |-> 0, due |-> 0, taken |-> 0]

-----------------------------------------------------------------------------
(* The listener thread: parse_high_priority_status.                        *)

\* Mutant: the peak follows every word.
RaisesAlways(w) == TRUE

Raises(w) == w > peak

\* Compare the forward word with the peak ...
Parse(w) ==
  /\ ~parse.busy /\ packets < MaxPackets
  /\ packets' = packets + 1
  /\ parse' = [busy |-> TRUE, level |-> w, raise |-> Raises(w)]
  /\ UNCHANGED <<peak, take, h>>

\* ... and store it.  A packet all of which fell between two decays counts for the
\* peak that is due.
Store ==
  /\ parse.busy
  /\ peak' = IF parse.raise THEN parse.level ELSE peak
  /\ parse' = Idle
  /\ h' = [h EXCEPT !.highest = IF parse.level > @ /\ parse.raise = Raises(parse.level)
                                  THEN parse.level ELSE @]
  /\ UNCHANGED <<take, packets>>

-----------------------------------------------------------------------------
(* The transmit thread: p2_tx_fwd_max_take, for gate_slot.                 *)

\* Read the peak ...
Slot ==
  /\ ~take.busy
  /\ take' = [busy |-> TRUE, peak |-> peak]
  /\ h' = [h EXCEPT !.due = h.highest, !.taken = peak]
  /\ UNCHANGED <<peak, parse, packets>>

\* ... and store it decayed.
Decay ==
  /\ take.busy
  /\ peak' = take.peak \div 2
  /\ take' = NoTake
  /\ h' = [h EXCEPT !.highest = 0]
  /\ UNCHANGED <<parse, packets>>

\* p2_rx_start of the next link leaves the peak; the listener of the last one has
\* ended.
Restart ==
  /\ ~parse.busy
  /\ packets' = 0
  /\ UNCHANGED <<peak, parse, take, h>>

Next ==
  \/ \E w \in Levels : Parse(w)
  \/ Store \/ Slot \/ Decay \/ Restart

Spec == Init /\ [][Next]_vars

-----------------------------------------------------------------------------
(* Correctness.                                                            *)

\* The peak a slot takes is no lower than any word parsed since the last decay:
\* only a packet that the decay cuts in two may be lost, and the next one counts
\* again (p2_tx_fwd_max_take, the comparison in parse_high_priority_status).
PeakIsTaken == h.taken >= h.due

-----------------------------------------------------------------------------
(* What makes it so: an inductive invariant.                               *)

Counts ==
  /\ peak \in Nat
  /\ parse \in [busy : BOOLEAN, level : Nat, raise : BOOLEAN]
  /\ take \in [busy : BOOLEAN, peak : Nat]
  /\ h \in [highest : Nat, due : Nat, taken : Nat]

\* The peak is no lower than what it owes, it has not fallen since it was read to be
\* decayed, and a decision to raise it still raises it: of the two that write, the
\* listener only raises, the transmit thread only lowers what it read.
PeakInv ==
  /\ Counts
  /\ h.highest <= peak
  /\ take.busy => take.peak <= peak
  /\ parse.busy /\ parse.raise => parse.level > peak
  /\ PeakIsTaken
=============================================================================
