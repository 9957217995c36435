------------------------------ MODULE Discovery ------------------------------
(***************************************************************************)
(* Finding a radio: the picker asks for rounds of discovery, start_radio   *)
(* does one more for the radio that was picked.  A round probes an address *)
(* if one is given and broadcasts on every interface if the probe found    *)
(* nothing new; the answers are appended to one table, discovered[], over  *)
(* all rounds, and discovery_dedup leaves one entry per radio, the one     *)
(* heard over the best interface, which is where the link is then bound.   *)
(*                                                                         *)
(* A radio answers once per probe or broadcast, or not at all; it speaks   *)
(* one protocol and keeps its address.  All radios are in one subnet.      *)
(***************************************************************************)
EXTENDS Integers, Sequences, FiniteSets

CONSTANTS
  P1Radios, P2Radios,   \* the radios, by the protocol they speak
  Supported,            \* of them, those the whitelist lets start
  Interfaces,           \* how many interfaces the host has, broadcast on in order
  InSubnet, LinkLocal,  \* of them, in the radios' subnet, and with a 169.254 address
  MaxDevices,           \* MAX_DEVICES, 16
  MaxRounds             \* bound: rounds the operator asks for

AllRadios == P1Radios \cup P2Radios
Anywhere  == 0          \* INADDR_ANY, the interface of a probe
NoRadio   == "none"

DiscoveryAssumption ==
  /\ Interfaces \in Nat \ {0} /\ InSubnet \subseteq 1..Interfaces
  /\ LinkLocal \subseteq 1..Interfaces \ InSubnet
  /\ P1Radios \cap P2Radios = {} /\ NoRadio \notin AllRadios /\ Supported \subseteq AllRadios
  /\ MaxDevices \in Nat \ {0} /\ MaxRounds \in Nat

VARIABLES
  table,   \* discovered[]: the radio and the interface of each answer
  shown,   \* the radios in the picker's list
  target,  \* ipaddr_radio
  stage,   \* where the round is
  picked,  \* the radio the operator started, and how that went
  heard,   \* history: the best rank each radio was heard at since the table was emptied
  rounds

vars == <<table, shown, target, stage, picked, heard, rounds>>

Entry  == [radio : AllRadios, iface : 0..Interfaces]
Idle   == [of |-> "nobody", protocol |-> 2, at |-> -1, answered |-> {}, before |-> 0]
Unheard == -1

TypeOK ==
  /\ table \in UNION {[1..n -> Entry] : n \in 0..MaxDevices}
  /\ shown \subseteq AllRadios /\ target \in AllRadios \cup {NoRadio}
  /\ stage.of \in {"nobody", "picker", "start", "done"} /\ stage.protocol \in 1..2
  /\ stage.at \in -1..Interfaces /\ stage.answered \subseteq AllRadios
  /\ picked \in [radio : AllRadios \cup {NoRadio}, iface : -1..Interfaces]
  /\ heard \in [AllRadios -> -1..3] /\ rounds \in 0..MaxRounds

\* The next thing a round does; a probe without an address is no step at all.
From(of, protocol, ip, t) ==
  [of |-> of, protocol |-> protocol, at |-> IF ip = NoRadio THEN 1 ELSE Anywhere,
   answered |-> {}, before |-> Len(t)]

\* The picker opens with a round, unless the environment names the radio.
Init ==
  /\ table = <<>> /\ shown = {}
  /\ target \in AllRadios \cup {NoRadio}
  /\ stage = From(IF target = NoRadio THEN "picker" ELSE "start", 2, target, table)
  /\ picked = [radio |-> target, iface |-> -1]
  /\ heard = [r \in AllRadios |-> Unheard] /\ rounds = 0

-----------------------------------------------------------------------------
(* One entry per radio.                                                    *)

\* discovery_rank: the interface in the radio's subnet, the routing of a probe, an
\* interface elsewhere, a link-local one.
Rank(i) ==
  CASE i = Anywhere     -> 2
    [] i \in InSubnet  -> 3
    [] i \in LinkLocal -> 0
    [] OTHER            -> 1

\* Mutant: only the neighbour of an entry is compared with it.
MergedNextOnly(kept, e) ==
  LET last == Len(kept)
  IN  IF kept = <<>> \/ kept[last].radio # e.radio THEN Append(kept, e)
      ELSE IF Rank(e.iface) > Rank(kept[last].iface) THEN [kept EXCEPT ![last] = e] ELSE kept

\* An entry joins the first one of its radio, and takes its place if it ranks higher.
Merged(kept, e) ==
  LET same == {k \in 1..Len(kept) : kept[k].radio = e.radio}
  IN  IF same = {} THEN Append(kept, e)
      ELSE LET k == CHOOSE k \in same : TRUE
           IN  IF Rank(e.iface) > Rank(kept[k].iface) THEN [kept EXCEPT ![k] = e] ELSE kept

\* discovery_dedup.
Dedup(t) ==
  LET merged[n \in 0..Len(t)] == IF n = 0 THEN <<>> ELSE Merged(merged[n - 1], t[n])
  IN  merged[Len(t)]

Listed(t) == {t[k].radio : k \in 1..Len(t)}

-----------------------------------------------------------------------------
(* The rounds.                                                             *)

\* on_rescan and on_probe; the buttons are insensitive during a round.
Rescan ==
  /\ stage.of = "nobody" /\ rounds < MaxRounds
  /\ table' = <<>> /\ target' = NoRadio
  /\ stage' = From("picker", 2, target', table')
  /\ heard' = [r \in AllRadios |-> Unheard]
  /\ rounds' = rounds + 1
  /\ UNCHANGED <<shown, picked>>

Probe(r) ==
  /\ stage.of = "nobody" /\ rounds < MaxRounds
  /\ table' = table /\ target' = r
  /\ stage' = From("picker", 2, target', table')
  /\ rounds' = rounds + 1
  /\ UNCHANGED <<shown, picked, heard>>

\* A row of a radio that may start is activated: start_radio begins with its round.
Pick(r) ==
  /\ stage.of = "nobody" /\ r \in shown \cap Supported
  /\ picked' = [radio |-> r, iface |-> -1]
  /\ table' = table /\ target' = r
  /\ stage' = From("start", 2, target', table')
  /\ UNCHANGED <<shown, heard, rounds>>

\* A radio answers what the round has just sent.
Answers(r, radios) ==
  /\ stage.of \in {"picker", "start"}
  /\ r \in radios \ stage.answered /\ (stage.at = Anywhere => r = target)
  /\ stage' = [stage EXCEPT !.answered = @ \cup {r}]
  /\ UNCHANGED <<shown, target, picked, rounds>>

Recorded(r) ==
  IF Len(table) = MaxDevices THEN UNCHANGED <<table, heard>>
  ELSE /\ table' = Append(table, [radio |-> r, iface |-> stage.at])
       /\ heard' = [heard EXCEPT ![r] = IF Rank(stage.at) > @ THEN Rank(stage.at) ELSE @]

\* p2_discover_receive_thread takes every answer, p1_discover_receive_thread only
\* those whose MAC is not in the table yet.
AnswerP2(r) == stage.protocol = 2 /\ Answers(r, P2Radios) /\ Recorded(r)

AnswerP1(r) ==
  /\ stage.protocol = 1 /\ Answers(r, P1Radios)
  /\ IF r \in Listed(table) THEN UNCHANGED <<table, heard>> ELSE Recorded(r)

\* The two seconds are over, or the probe has its answer.  A round that found the
\* probed radio does not broadcast.
NextInterface ==
  /\ stage.of \in {"picker", "start"} /\ stage.at < Interfaces
  /\ stage.at = Anywhere => Len(table) = stage.before
  /\ stage' = [stage EXCEPT !.at = @ + 1, !.answered = {}]
  /\ UNCHANGED <<table, shown, target, picked, heard, rounds>>

RoundEnds ==
  /\ stage.of \in {"picker", "start"}
  /\ IF stage.at = Anywhere THEN Len(table) > stage.before ELSE stage.at = Interfaces
  /\ table' = Dedup(table)

\* The picker goes on with Protocol 1, start_radio only when the radio is still missing.
ThenP1 ==
  /\ RoundEnds /\ stage.protocol = 2
  /\ stage.of = "picker" \/ target \notin Listed(table')
  /\ target' = target /\ stage' = From(stage.of, 1, target, table')
  /\ UNCHANGED <<shown, picked, heard, rounds>>

\* fill_list.
Show ==
  /\ RoundEnds /\ stage.of = "picker" /\ stage.protocol = 1
  /\ shown' = Listed(table')
  /\ stage' = Idle
  /\ UNCHANGED <<target, picked, heard, rounds>>

\* start_radio takes the first entry with the address that was picked, if it may.
Select ==
  /\ RoundEnds /\ stage.of = "start"
  /\ stage.protocol = 1 \/ target \in Listed(table')
  /\ picked' = [picked EXCEPT !.iface =
       IF target \notin Listed(table') \cap Supported THEN -1
       ELSE LET k == CHOOSE k \in 1..Len(table') :
                       /\ table'[k].radio = target
                       /\ \A j \in 1..k - 1 : table'[j].radio # target
            IN  table'[k].iface]
  /\ stage' = [Idle EXCEPT !.of = "done"]
  /\ UNCHANGED <<shown, target, heard, rounds>>

\* The program ends and is started again.
Again ==
  /\ stage.of \in {"nobody", "done"}
  /\ table' = <<>> /\ shown' = {} /\ target' \in AllRadios \cup {NoRadio}
  /\ stage' = From(IF target' = NoRadio THEN "picker" ELSE "start", 2, target', table')
  /\ picked' = [radio |-> target', iface |-> -1]
  /\ heard' = [r \in AllRadios |-> Unheard] /\ rounds' = 0

Next ==
  \/ Rescan
  \/ \E r \in AllRadios : Probe(r) \/ Pick(r) \/ AnswerP2(r) \/ AnswerP1(r)
  \/ NextInterface \/ ThenP1 \/ Show \/ Select \/ Again

Spec == Init /\ [][Next]_vars

-----------------------------------------------------------------------------
(* Correctness.                                                            *)

Quiet == stage.of \in {"nobody", "done"}

\* Whatever rounds were made, in whatever order the answers came and from whatever
\* interfaces: every radio that found room is in the table, once, and a Protocol 2
\* radio with the best interface it was heard over; so the radio that was picked is
\* the one that starts, over that interface (discovery.h:34-38, gui.c:7742-7747).
BestOfEach ==
  Quiet =>
    /\ \A r \in AllRadios :
         Cardinality({k \in 1..Len(table) : table[k].radio = r}) = (IF heard[r] = Unheard THEN 0 ELSE 1)
    /\ \A k \in 1..Len(table) :
         table[k].radio \in P2Radios => Rank(table[k].iface) = heard[table[k].radio]
    /\ stage.of = "done" /\ picked.radio \in P2Radios \cap Supported
         => heard[picked.radio] = IF picked.iface = -1 THEN Unheard ELSE Rank(picked.iface)

(* What makes it so: a round adds entries, none better than what was heard *)
(* of their radio, and the best of them is kept.                           *)

\* No radio has two entries in t.
OneEach(t) == \A j, k \in 1..Len(t) : t[j].radio = t[k].radio => j = k

FoundInv ==
  /\ table \in Seq(Entry) /\ shown \subseteq AllRadios
  /\ target \in AllRadios \cup {NoRadio} /\ stage.at \in -1..Interfaces
  /\ picked \in [radio : AllRadios \cup {NoRadio}, iface : -1..Interfaces]
  /\ stage.of \in {"picker", "start"} => stage.at # -1
  /\ heard \in [AllRadios -> -1..3]
  /\ \A r \in AllRadios : heard[r] = Unheard <=> r \notin Listed(table)
  /\ \A r \in P2Radios : r \in Listed(table) =>
       /\ \A k \in 1..Len(table) : table[k].radio = r => Rank(table[k].iface) <= heard[r]
       /\ \E k \in 1..Len(table) : table[k].radio = r /\ Rank(table[k].iface) = heard[r]
  /\ Quiet => OneEach(table)
  /\ stage.of = "start" => target = picked.radio /\ target \in AllRadios
  /\ stage.of = "done" /\ picked.radio \in P2Radios \cap Supported
       => heard[picked.radio] = IF picked.iface = -1 THEN Unheard ELSE Rank(picked.iface)
=============================================================================
