------------------------------ MODULE TxPacing -------------------------------
(***************************************************************************)
(* The pacing of the transmit feed on Protocol 2.  The radio's mic packets *)
(* are the clock: the listener banks their samples, the feed thread        *)
(* (tx_thread) spends one block's worth per block it produces, keyed or    *)
(* not.  When the clock is silent for a timeout the thread paces itself by *)
(* the local timer and probes the clock once per block.                    *)
(*                                                                         *)
(* Time goes in mic packets; a block lasts PerBlock of them.  The radio    *)
(* drains its FIFO at the same rate whether or not mic packets get         *)
(* through.                                                                *)
(***************************************************************************)
EXTENDS Integers

CONSTANTS
  PerBlock,     \* 8, mic packets per block (FEED_BLOCK / 64)
  Timeout,      \* 75, mic packets in the 100 ms timeout
  Hold,         \* bound: mic packets a stalled network holds back
  Busy          \* bound: how long the thread takes for a block

PacingAssumption ==
  /\ PerBlock \in Nat \ {0} /\ Timeout \in Nat /\ Timeout >= 3 * PerBlock
  /\ Hold \in Nat \ {0} /\ Busy \in Nat /\ Busy < PerBlock

VARIABLES
  credit,       \* mic_clock
  clockOk,      \* mic_clock_ok
  at,           \* where the thread is
  left,         \* time to the end of the timeout, or of the work on the block
  next,         \* next_feed, from now
  fill,         \* what the radio's FIFO holds, as time
  streaming,    \* the radio sends mic packets
  calm,         \* the network delivers at once, rather than stall
  backlog       \* mic packets held back by the network

netVars == <<streaming, calm, backlog>>
vars    == <<credit, clockOk, at, left, next, fill, netVars>>

TypeOK ==
  /\ credit \in 0..2 * PerBlock /\ clockOk \in BOOLEAN
  /\ at \in {"work", "pace", "wait", "sleep"}
  /\ left \in 0..Timeout /\ next \in -PerBlock..PerBlock
  /\ fill \in Nat /\ streaming \in BOOLEAN /\ calm \in BOOLEAN /\ backlog \in 0..Hold

Init ==
  /\ credit = 0 /\ clockOk = FALSE /\ at = "work" /\ left = Busy /\ next = 0
  /\ fill = 0 /\ streaming \in BOOLEAN /\ calm = TRUE /\ backlog = 0

-----------------------------------------------------------------------------
(* The radio and the network.                                              *)

Due ==
  \/ at = "pace"
  \/ at = "work" /\ left = 0
  \/ at = "sleep" /\ next = 0
  \/ at = "wait" /\ (left = 0 \/ credit >= PerBlock)

Down(n) == IF n > 0 THEN n - 1 ELSE 0

\* The time of one mic packet: the FIFO drains, deadlines come nearer, and the
\* packet is sent.  The network loses what it cannot hold.
Tick ==
  /\ ~Due /\ (calm => backlog = 0)
  /\ fill' = Down(fill) /\ left' = Down(left)
  /\ next' = IF next > -PerBlock THEN next - 1 ELSE next
  /\ backlog' = IF streaming /\ backlog < Hold THEN backlog + 1 ELSE backlog
  /\ UNCHANGED <<credit, clockOk, at, streaming, calm>>

\* Mutant: credit is banked without a limit.
BankedAll(c) == c

Banked(c) == IF c > 2 * PerBlock THEN 2 * PerBlock ELSE c

\* listener_thread for the mic packets that wait: it reads them all in less time
\* than the feed thread needs for a block.
CreditClock ==
  /\ calm /\ backlog > 0
  /\ backlog' = 0
  /\ credit' = Banked(credit + backlog)
  /\ UNCHANGED <<clockOk, at, left, next, fill, streaming, calm>>

\* The radio stops or resumes its mic stream; the network stalls, and what it
\* held back it delivers at once, or has lost.
Weather ==
  /\ \/ streaming' = ~streaming /\ UNCHANGED <<calm, backlog>>
     \/ calm' = ~calm /\ backlog' \in {0, backlog} /\ UNCHANGED streaming
  /\ UNCHANGED <<credit, clockOk, at, left, next, fill>>

-----------------------------------------------------------------------------
(* The feed thread.                                                        *)

\* Work on the next block for up to Busy.
NextBlock == at' = "work" /\ left' \in 0..Busy

\* A block is ready (on_tx_iq hands it to the TX-IQ ring).
Produce ==
  /\ at = "work" /\ left = 0
  /\ fill' = fill + PerBlock
  /\ at' = "pace"
  /\ UNCHANGED <<credit, clockOk, left, next, netVars>>

\* The local timer: sleep to the next deadline, or start over from now.
TimerPace(from) ==
  IF from + PerBlock > 0 THEN next' = from + PerBlock /\ at' = "sleep" /\ UNCHANGED left
                         ELSE next' = 0 /\ NextBlock

\* Mutant: no probe, the clock once lost stays lost.
ProbesNever == FALSE

ProbeSucceeds == credit >= PerBlock

\* p2_mic_clock_wait while the clock ticks, the non-blocking probe while it does not.
Pace ==
  /\ at = "pace"
  /\ IF clockOk
       THEN at' = "wait" /\ left' = Timeout /\ UNCHANGED <<credit, clockOk, next>>
       ELSE IF ProbeSucceeds
         THEN clockOk' = TRUE /\ credit' = credit - PerBlock /\ NextBlock /\ UNCHANGED next
         ELSE TimerPace(next) /\ UNCHANGED <<credit, clockOk>>
  /\ UNCHANGED <<fill, netVars>>

ClockTicks ==
  /\ at = "wait" /\ credit >= PerBlock
  /\ credit' = credit - PerBlock
  /\ NextBlock
  /\ UNCHANGED <<clockOk, next, fill, netVars>>

\* The deadline may win against a packet that arrives with it.
ClockLost ==
  /\ at = "wait" /\ left = 0
  /\ clockOk' = FALSE
  /\ TimerPace(0)
  /\ UNCHANGED <<credit, fill, netVars>>

WakeUp ==
  /\ at = "sleep" /\ next = 0
  /\ NextBlock
  /\ UNCHANGED <<credit, clockOk, next, fill, netVars>>

FeedStep == Produce \/ Pace \/ ClockTicks \/ ClockLost \/ WakeUp

Next == Tick \/ CreditClock \/ Weather \/ FeedStep

Spec == Init /\ [][Next]_vars

\* Time passes, the listener and the feed thread run on.
FairSpec == Spec /\ WF_vars(Tick) /\ WF_vars(CreditClock) /\ WF_vars(FeedStep)

-----------------------------------------------------------------------------
(* Correctness.                                                            *)

\* The radio's FIFO never gets more than five blocks ahead: the one that is being
\* drained, the one just made, the two blocks of credit that may be banked, and
\* one from a second stall while the first is being caught up.  Neither a burst
\* of delayed mic packets nor the changes between the two clocks add up (the clamp
\* in listener_thread, p2_mic_clock_wait, the pacing in tx_thread).
LeadIsBounded == fill <= 5 * PerBlock

\* Once the radio's clock ticks undisturbed the feed is paced by it for good,
\* whatever outages came before (the probe in tx_thread).
Undisturbed     == streaming /\ calm
Followed        == clockOk
ClockIsFollowed == <>[]Undisturbed => <>[]Followed
=============================================================================
