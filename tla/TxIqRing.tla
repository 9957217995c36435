------------------------------ MODULE TxIqRing -------------------------------
(***************************************************************************)
(* The TX-IQ ring of protocol2.c: the feed thread puts framed packets into *)
(* a ring of Slots slots, the txiq thread sends them.  The two share no    *)
(* lock over the data; each owns one index, both indices are unsigned and  *)
(* wrap at Width.  The gate live keeps the feed thread, which runs before  *)
(* and after every link, out of the ring while p2_rx_start resets it.      *)
(*                                                                         *)
(* A packet is the number the framer gave it.  The pacing of the sender    *)
(* and the wake-up are left out: the sender may take any time, and the     *)
(* signal is sent under the lock under which it looks at the ring.         *)
(***************************************************************************)
EXTENDS Naturals, Sequences

CONSTANTS
  Slots,        \* TXIQ_RING_PKTS
  Width,        \* 2^32, the range of guint
  MaxMade       \* bound: packets the feed thread makes

RingAssumption ==
  /\ Slots \in Nat \ {0} /\ MaxMade \in Nat \ {0}
  /\ Width \in Nat /\ Width > Slots /\ Width % Slots = 0

VARIABLES
  made,         \* the framer's packet counter
  feed,         \* where p2_tx_iq_socket_emit is
  hSeen, tSeen, \* the indices it read
  slot,         \* txiq_ring
  head, tail,   \* txiq_head, txiq_tail
  live,         \* txiq_live
  sender,       \* where txiq_thread is
  running,      \* p2running
  phase,        \* of p2_rx_start and p2_rx_stop
  drops,        \* txiq_drops
  prelink,      \* txiq_prelink
  sent,         \* txiq_sent
  wire,         \* the last packet sent
  h             \* history: packets made and drops reported since the gate opened,
                \* and the packet that is watched, any

feedVars   == <<made, feed, hSeen, tSeen>>
ringVars   == <<slot, head>>
senderVars == <<sender, tail, sent, wire>>
linkVars   == <<live, running, phase>>
vars       == <<feedVars, ringVars, senderVars, linkVars, drops, prelink, h>>

Index == 0..Width - 1

TypeOK ==
  /\ made \in 0..MaxMade /\ feed \in {"idle", "read", "fill", "publish"}
  /\ {hSeen, tSeen, head, tail} \subseteq Index
  /\ slot \in [0..Slots - 1 -> 0..MaxMade]
  /\ live \in BOOLEAN /\ running \in BOOLEAN
  /\ sender \in {"none", "wait", "send", "advance"}
  /\ phase \in {"off", "start", "armed", "on", "closed", "stop"}
  /\ {drops, prelink, sent, wire} \subseteq 0..MaxMade
  /\ h \in [made : 0..MaxMade, reported : 0..MaxMade, watched : 1..MaxMade]

Init ==
  /\ made = 0 /\ feed = "idle" /\ hSeen = 0 /\ tSeen = 0
  /\ slot = [i \in 0..Slots - 1 |-> 0]
  /\ head = 0 /\ tail = 0
  /\ live = FALSE /\ running = FALSE /\ phase = "off" /\ sender = "none"
  /\ drops = 0 /\ prelink = 0 /\ sent = 0 /\ wire = 0
  /\ h \in [made : {0}, reported : {0}, watched : 1..MaxMade]

-----------------------------------------------------------------------------
(* The indices.                                                            *)

Succ(i)       == (i + 1) % Width
Fill(hd, tl)  == (hd + Width - tl) % Width
Full(hd, tl)  == Fill(hd, tl) >= Slots

\* Mutant: the last packet does not count as waiting.
WaitingButLast == Fill(head, tail) > 1

Waiting == head # tail

-----------------------------------------------------------------------------
(* The feed thread: p2_tx_iq_socket_emit for the next packet.              *)

\* Mutant: the feed thread does not ask for the link.
GateOpen == TRUE

Gate == live

Emit ==
  /\ feed = "idle" /\ made < MaxMade
  /\ made' = made + 1
  /\ IF Gate THEN feed' = "read" /\ UNCHANGED prelink
             ELSE prelink' = prelink + 1 /\ UNCHANGED feed
  /\ UNCHANGED <<hSeen, tSeen, ringVars, senderVars, linkVars, drops, h>>

ReadIndices ==
  /\ feed = "read"
  /\ hSeen' = head /\ tSeen' = tail
  /\ feed' = "fill"
  /\ UNCHANGED <<made, ringVars, senderVars, linkVars, drops, prelink, h>>

\* Without room the packet is counted and gone.
FillSlot ==
  /\ feed = "fill"
  /\ IF Full(hSeen, tSeen)
       THEN feed' = "idle" /\ drops' = drops + 1 /\ UNCHANGED slot
       ELSE /\ feed' = "publish"
            /\ slot' = [slot EXCEPT ![hSeen % Slots] = made]
            /\ UNCHANGED drops
  /\ UNCHANGED <<made, hSeen, tSeen, head, senderVars, linkVars, prelink, h>>

Publish ==
  /\ feed = "publish"
  /\ head' = Succ(hSeen)
  /\ feed' = "idle"
  /\ UNCHANGED <<made, hSeen, tSeen, slot, senderVars, linkVars, drops, prelink, h>>

\* The unkey statistics read and clear the drops (p2_txiq_ring_stats_take, which
\* gate_slot calls on the feed thread itself).
TakeStats ==
  /\ feed = "idle" /\ drops > 0
  /\ h' = [h EXCEPT !.reported = @ + drops]
  /\ drops' = 0
  /\ UNCHANGED <<feedVars, ringVars, senderVars, linkVars, prelink>>

-----------------------------------------------------------------------------
(* The txiq thread.                                                        *)

\* It waits for a packet or the end of the link ...
Wake ==
  /\ sender = "wait"
  /\ \/ running /\ Waiting /\ sender' = "send"
     \/ ~running /\ sender' = "none"
  /\ UNCHANGED <<tail, sent, wire, feedVars, ringVars, linkVars, drops, prelink, h>>

\* ... sends it, and only then gives its slot back.
SendPacket ==
  /\ sender = "send"
  /\ wire' = slot[tail % Slots]
  /\ sender' = "advance"
  /\ UNCHANGED <<tail, sent, feedVars, ringVars, linkVars, drops, prelink, h>>

Advance ==
  /\ sender = "advance"
  /\ tail' = Succ(tail) /\ sent' = sent + 1
  /\ sender' = "wait"
  /\ UNCHANGED <<wire, feedVars, ringVars, linkVars, drops, prelink, h>>

-----------------------------------------------------------------------------
(* p2_rx_start and p2_rx_stop.                                             *)

\* A stop, the socket and the handshake take half a second: an emit that passed
\* the gate of the last link is over.
Start ==
  /\ phase = "off" /\ feed = "idle"
  /\ phase' = "start" /\ running' = TRUE
  /\ sent' = 0
  /\ UNCHANGED <<live, tail, wire, sender, feedVars, ringVars, drops, prelink, h>>

\* Mutant: the drops of the last link stay.
DropsKept == drops

DropsAtStart == 0

\* Reset the ring, then create the sender.
Arm ==
  /\ phase = "start"
  /\ phase' = "armed"
  /\ head' = 0 /\ tail' = 0 /\ drops' = DropsAtStart
  /\ sender' = "wait"
  /\ UNCHANGED <<live, running, slot, sent, wire, feedVars, prelink, h>>

Open ==
  /\ phase = "armed"
  /\ phase' = "on"
  /\ prelink' = 0 /\ live' = TRUE
  /\ h' = [h EXCEPT !.made = made, !.reported = 0]
  /\ UNCHANGED <<running, feedVars, ringVars, senderVars, drops>>

Close ==
  /\ phase = "on"
  /\ phase' = "closed" /\ live' = FALSE
  /\ UNCHANGED <<running, feedVars, ringVars, senderVars, drops, prelink, h>>

Stop ==
  /\ phase = "closed"
  /\ phase' = "stop" /\ running' = FALSE
  /\ UNCHANGED <<live, feedVars, ringVars, senderVars, drops, prelink, h>>

Join ==
  /\ phase = "stop" /\ sender = "none"
  /\ phase' = "off"
  /\ UNCHANGED <<live, running, feedVars, ringVars, senderVars, drops, prelink, h>>

FeedStep   == Emit \/ ReadIndices \/ FillSlot \/ Publish
SenderStep == Wake \/ SendPacket \/ Advance
LinkStep   == Start \/ Arm \/ Open \/ Close \/ Stop \/ Join

Next == FeedStep \/ SenderStep \/ LinkStep \/ TakeStats

Spec == Init /\ [][Next]_vars

\* Both threads run on; nobody has to start or stop a link.
FairSpec ==
  /\ Spec
  /\ WF_vars(ReadIndices \/ FillSlot \/ Publish) /\ WF_vars(SenderStep)

-----------------------------------------------------------------------------
(* Safety.                                                                 *)

\* The feed thread's packet in flight
InFlight == IF feed = "idle" THEN 0 ELSE 1

\* While the gate is open every packet made since it opened was sent, waits, is
\* in flight or was counted as dropped: the over's statistics are the truth.
AccountedFor ==
  live => made - h.made =
            sent + Fill(head, tail) + InFlight + drops + h.reported

-----------------------------------------------------------------------------
(* The ring implements the queue.                                          *)

\* What waits: from the packet after the one being given back to the head.
First == IF sender = "advance" THEN Succ(tail) ELSE tail

Queue == [i \in 1..Fill(head, First) |-> slot[((First + i - 1) % Width) % Slots]]

Promise == INSTANCE TxIqQueue
  WITH Capacity <- Slots, made <- made - InFlight, queue <- Queue,
       wire <- wire, up <- sender # "none"

\* The ring keeps what TxIqQueue promises: order, no duplicates, no packet of
\* the last link (p2_tx_iq_socket_emit, txiq_thread, the reset in p2_rx_start).
RingIsAQueue == Promise!Spec

\* A packet, whichever is watched, that is waiting while the gate is open is sent,
\* unless the link is stopped (txiq_thread's wait and the signal of the emit).
Waits          == live /\ \E i \in DOMAIN Queue : Queue[i] = h.watched
SentOrShut     == wire >= h.watched \/ ~live
AcceptedIsSent == Waits ~> SentOrShut
=============================================================================
