------------------------------ MODULE TxIqQueue ------------------------------
(***************************************************************************)
(* What the TX-IQ ring of protocol2.c promises: packets leave for the      *)
(* radio in the order they were made, each at most once, at most Capacity  *)
(* of them wait, none is sent while the link is down, and a link starts    *)
(* without packets of the one before.  A packet may always be lost.        *)
(***************************************************************************)
EXTENDS Naturals, Sequences

CONSTANT Capacity

VARIABLES
  made,      \* packets made so far: the number of the last one
  queue,     \* numbers of the packets that wait
  wire,      \* number of the last packet sent, over all links
  up         \* the link has a sender

vars == <<made, queue, wire, up>>

Init == made = 0 /\ queue = <<>> /\ wire = 0 /\ up = FALSE

Lose == made' = made + 1 /\ UNCHANGED <<queue, wire, up>>

Accept ==
  /\ Len(queue) < Capacity
  /\ made' = made + 1
  /\ queue' = Append(queue, made')
  /\ UNCHANGED <<wire, up>>

Send ==
  /\ up /\ queue # <<>>
  /\ wire' = Head(queue) /\ queue' = Tail(queue)
  /\ UNCHANGED <<made, up>>

LinkUp   == ~up /\ up' = TRUE /\ queue' = <<>> /\ UNCHANGED <<made, wire>>
LinkDown == up /\ up' = FALSE /\ UNCHANGED <<made, queue, wire>>

Next == Lose \/ Accept \/ Send \/ LinkUp \/ LinkDown

Spec == Init /\ [][Next]_vars
=============================================================================
