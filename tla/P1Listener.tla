------------------------------ MODULE P1Listener ------------------------------
(***************************************************************************)
(* Receiving in Protocol 1, protocol1.c: the start of a link, the thread   *)
(* that parses what the radio sends, and the telemetry it leaves for the   *)
(* frame tick.  How the samples of a packet lie follows from the count of  *)
(* receivers; nothing in a packet says it, and the gateware takes up a new *)
(* count only some time after the first packet that asks for it.           *)
(*                                                                         *)
(* The radio and the network are external.  Time is in ticks of eight      *)
(* milliseconds, the longest the gateware was measured to take.            *)
(***************************************************************************)
EXTENDS Naturals, Sequences

CONSTANTS
  Tries,        \* starts of p1_rx_start before it gives up
  Apply,        \* ticks within which the gateware takes up a count
  Settle,       \* the 25 ms of listener_thread
  MaxDelay,     \* longest a packet lies in the socket
  MaxQueue,     \* bound: packets in the socket
  MaxPackets    \* bound: packets of one link

\* A packet is late by less than the guard leaves of the gateware's time.
ListenerAssumption ==
  /\ {Tries, Apply, Settle, MaxQueue} \subseteq Nat \ {0} /\ {MaxDelay, MaxPackets} \subseteq Nat
  /\ Settle >= Apply + MaxDelay

VARIABLES
  link,         \* where p1_rx_start and p1_rx_stop are
  tries,        \* starts left
  ps,           \* s_ps_on
  nrx,          \* s_nrx
  layout,       \* the count of receivers the gateware sends
  due,          \* ticks until it takes up what it was told; 0 if it has
  net,          \* packets in the socket
  gap,          \* the last packet was lost
  packets,      \* packets of this link
  settle,       \* ticks until settle_until, or Unarmed
  have,         \* have_seq
  keyed,        \* s_tx_on and MOX
  filled,       \* fifo_filled
  tel,          \* s_tel: what is latched or has been counted
  heard         \* history: what was made of the samples of this link

vars == <<link, tries, ps, nrx, layout, due, net, gap, packets, settle, have, keyed, filled,
          tel, heard>>

Never   == Apply + 1
Unarmed == Settle + 1
Counts  == {1, 4}           \* without PureSignal, and with it: PS_NRX
NoTel   == [valid |-> FALSE, overload |-> FALSE, lost |-> FALSE, under |-> FALSE, over |-> FALSE]

\* The status of a packet, as far as it is parsed: an answer to a command, the ADC
\* and the FIFO, or one of the meters.
Status == {"answer", "well", "overload", "low", "high", "meter"}
Packet == [layout : Counts, gap : BOOLEAN, status : Status, age : 0..MaxDelay]

TypeOK ==
  /\ link \in {"off", "probe", "on", "ending"} /\ tries \in 0..Tries
  /\ {ps, gap, have, keyed, filled} \subseteq BOOLEAN /\ {nrx, layout} \subseteq Counts
  /\ due \in 0..Never /\ settle \in 0..Unarmed /\ packets \in 0..MaxPackets
  /\ net \in Seq(Packet) /\ Len(net) <= MaxQueue
  /\ DOMAIN tel = DOMAIN NoTel /\ \A f \in DOMAIN tel : tel[f] \in BOOLEAN
  /\ heard \in {"nothing", "receivers", "garbage"}

Init ==
  /\ link = "off" /\ tries = 0 /\ ps \in BOOLEAN /\ nrx = 1 /\ layout \in Counts /\ due = 0
  /\ net = <<>> /\ gap = FALSE /\ packets = 0 /\ settle = Unarmed /\ have = FALSE
  /\ keyed = FALSE /\ filled = FALSE /\ tel = NoTel /\ heard = "nothing"

-----------------------------------------------------------------------------
(* The GUI: p1_set_ps, p1_rx_start, p1_rx_stop, p1_get_telemetry.          *)

Receivers == IF ps THEN 4 ELSE 1

SetPs ==
  /\ ps' = ~ps
  /\ UNCHANGED <<link, tries, nrx, layout, due, net, gap, packets, settle, have, keyed, filled, tel, heard>>

\* The count is latched, transmit is off, the telemetry empty and the socket a new
\* one; whether the FIFO had filled is kept.
Start ==
  /\ link = "off" /\ link' = "probe" /\ tries' = Tries
  /\ nrx' = Receivers /\ keyed' = FALSE /\ tel' = NoTel
  /\ net' = <<>> /\ gap' = FALSE /\ packets' = 0 /\ settle' = Unarmed /\ have' = FALSE
  /\ heard' = "nothing" /\ due' = IF layout = Receivers THEN 0 ELSE Never
  /\ UNCHANGED <<ps, layout, filled>>

\* Two packets to prime the registers, which may both be lost, and the start command;
\* the first packet that comes is the proof, and the threads start.
ToldCount == IF due = Never THEN Apply ELSE due
Prime(arrives) ==
  /\ link = "probe" /\ tries > 0 /\ tries' = tries - 1
  /\ due' = IF arrives THEN ToldCount ELSE due
  /\ UNCHANGED <<link, ps, nrx, layout, net, gap, packets, settle, have, keyed, filled, tel, heard>>
Proved ==
  /\ link = "probe" /\ net # <<>> /\ link' = "on" /\ net' = Tail(net)
  /\ due' = ToldCount     \* the sender's packets tell the count from here on
  /\ UNCHANGED <<tries, ps, nrx, layout, gap, packets, settle, have, keyed, filled, tel, heard>>
StartFails ==
  /\ link = "probe" /\ tries = 0 /\ net = <<>> /\ link' = "off"
  /\ UNCHANGED <<tries, ps, nrx, layout, due, net, gap, packets, settle, have, keyed, filled, tel, heard>>

Stop ==
  /\ link = "on" /\ link' = "ending" /\ keyed' = FALSE
  /\ UNCHANGED <<tries, ps, nrx, layout, due, net, gap, packets, settle, have, filled, tel, heard>>
Join ==
  /\ link = "ending" /\ link' = "off" /\ net' = <<>>
  /\ UNCHANGED <<tries, ps, nrx, layout, due, gap, packets, settle, have, keyed, filled, tel, heard>>

\* Read and clear, under the lock.
Poll ==
  /\ link = "on" /\ tel.overload /\ tel' = [tel EXCEPT !.overload = FALSE]
  /\ UNCHANGED <<link, tries, ps, nrx, layout, due, net, gap, packets, settle, have, keyed, filled, heard>>

\* The feed thread: p1_set_tx_state.
Key(on) ==
  /\ link = "on" /\ keyed # on /\ keyed' = on
  /\ UNCHANGED <<link, tries, ps, nrx, layout, due, net, gap, packets, settle, have, filled, tel, heard>>

-----------------------------------------------------------------------------
(* The radio, the network and time.                                        *)

Applies ==
  /\ due \in 1..Apply /\ due' = 0 /\ layout' = nrx
  /\ UNCHANGED <<link, tries, ps, nrx, net, gap, packets, settle, have, keyed, filled, tel, heard>>

Sends(status, lost) ==
  /\ link \in {"probe", "on", "ending"} /\ tries < Tries /\ packets < MaxPackets
  /\ lost \/ Len(net) < MaxQueue
  /\ packets' = packets + 1 /\ gap' = lost
  /\ net' = IF lost THEN net ELSE Append(net, [layout |-> layout, gap |-> gap, status |-> status, age |-> 0])
  /\ UNCHANGED <<link, tries, ps, nrx, layout, due, settle, have, keyed, filled, tel, heard>>

TimePasses ==
  /\ link \in {"probe", "on"} /\ due # 1
  /\ \A i \in DOMAIN net : net[i].age < MaxDelay
  /\ net' = [i \in DOMAIN net |-> [net[i] EXCEPT !.age = @ + 1]]
  /\ due' = IF due \in 2..Apply THEN due - 1 ELSE due
  /\ settle' = IF settle \in 1..Settle THEN settle - 1 ELSE settle
  /\ UNCHANGED <<link, tries, ps, nrx, layout, gap, packets, have, keyed, filled, tel, heard>>

-----------------------------------------------------------------------------
(* listener_thread, with parse_frame.                                      *)

\* A FIFO that has not filled since the key went down is not counted as run dry.
Filled(status) ==
  IF status \notin {"well", "overload", "low", "high"} THEN filled
  ELSE keyed /\ (filled \/ status # "low")
Parsed(p) ==
  [valid    |-> tel.valid \/ p.status # "answer",
   overload |-> tel.overload \/ p.status = "overload",
   lost     |-> tel.lost \/ (have /\ p.gap),
   under    |-> tel.under \/ (p.status = "low" /\ keyed /\ filled),
   over     |-> tel.over \/ (p.status = "high" /\ keyed)]

\* Mutant: the guard is left out.
Unguarded(s) == TRUE

Settled(s) == s = 0

\* The first packet arms the guard; until it is over the status is parsed and the
\* samples are not used.
Handle ==
  /\ link \in {"on", "ending"} /\ net # <<>> /\ net' = Tail(net)
  /\ LET p == Head(net)
         s == IF settle = Unarmed THEN Settle ELSE settle
     IN /\ settle' = s /\ have' = TRUE
        /\ tel' = Parsed(p) /\ filled' = Filled(p.status)
        /\ heard' = IF heard = "garbage" \/ ~Settled(s) THEN heard
                    ELSE IF p.layout = nrx THEN "receivers" ELSE "garbage"
  /\ UNCHANGED <<link, tries, ps, nrx, layout, due, gap, packets, keyed>>

-----------------------------------------------------------------------------
Next ==
  \/ SetPs \/ Start \/ Proved \/ StartFails \/ Stop \/ Join \/ Poll
  \/ \E arrives \in BOOLEAN : Prime(arrives)
  \/ \E on \in BOOLEAN : Key(on)
  \/ Applies \/ TimePasses \/ Handle
  \/ \E status \in Status, lost \in BOOLEAN : Sends(status, lost)

Spec == Init /\ [][Next]_vars

-----------------------------------------------------------------------------
\* The demodulator, the spectrum and PureSignal never get samples of another count of
\* receivers than the link's, whatever the last link had, whether the packets that
\* announce the count arrive and however the socket lags within the bound: the guard
\* runs from the first packet parsed, not from the start (settle_until).
OneLayout == heard # "garbage"

-----------------------------------------------------------------------------
(* What makes it so: an inductive invariant.                               *)

Running == link \in {"on", "ending"}

\* While the gateware has still to take up the count the guard has so much left that
\* no packet of the old count outlives it; and a packet of the old count in the socket
\* is younger than what the guard has left.
LayoutInv ==
  /\ settle \in 0..Unarmed /\ due \in 0..Never /\ net \in Seq(Packet)
  /\ layout \in Counts /\ gap \in BOOLEAN /\ nrx \in Counts
  /\ link \in {"off", "probe", "on", "ending"}
  /\ Running => due <= Apply
  /\ link = "probe" => settle = Unarmed
  /\ link # "off" /\ due = 0 => layout = nrx
  /\ Running /\ settle # Unarmed =>
       /\ due > 0 => settle >= MaxDelay + due
       /\ \A i \in 1..Len(net) : net[i].layout # nrx => settle + net[i].age > MaxDelay
  /\ OneLayout
=============================================================================
