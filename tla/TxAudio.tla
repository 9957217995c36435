------------------------------- MODULE TxAudio --------------------------------
(***************************************************************************)
(* The audio of an over: the microphone's ring (mic_pw.c), the ring a TCI  *)
(* client fills (tx_run.c), and the feed loop of tx_thread, which takes    *)
(* its blocks from one of them while MOX is keyed.                         *)
(*                                                                         *)
(* Four parties touch the rings without a lock: PipeWire's capture thread, *)
(* the TCI service thread, the feed thread, and the main loop, which opens *)
(* and closes the capture with the mode, switches the source and keys.  A  *)
(* block is one sample here.  Samples are known by their index; what was   *)
(* captured before the key of this over has an index below the mark.       *)
(***************************************************************************)
EXTENDS Integers

CONSTANTS
  MicRing, ExtRing, \* RING_FRAMES, EXT_FRAMES
  Keep,             \* what mic_flush leaves
  MaxSamples,       \* bound: samples per ring, and taken from it
  AudioDisturb      \* bound: inputs of the main loop

AudioAssumption ==
  /\ {MicRing, ExtRing, Keep} \subseteq Nat \ {0} /\ Keep < MicRing
  /\ {MaxSamples, AudioDisturb} \subseteq Nat

VARIABLES
  want,          \* s_want_mox, s_want_tune
  mode,          \* s_cfg.mode: a voice mode, DIGU or DIGL, or one with a generator
  ext,           \* s_ext_src
  main,          \* where the main loop is in a trx command
  mic, client,   \* m_head and m_tail, ext_head and ext_tail
  over,          \* what the feed thread is keyed for
  pc, pull,      \* where it is in its loop, and in taking a block
  byClient,      \* history: the over began with the client's source
  pure,          \* history: keyed by MOX alone, and nobody else touched it since
  mark,          \* history: the heads at its key
  old, fromMic,  \* history: blocks of it that are older than it, and from the microphone
  moves          \* how many inputs came

vars == <<want, mode, ext, main, mic, client, over, pc, pull, byClient, pure, mark, old,
          fromMic, moves>>
history == <<byClient, pure, mark, old, fromMic>>

Overs == {"rx", "mox", "tune", "gen"}
Ring  == [head : 0..MaxSamples, tail : -Keep..MaxSamples]
Idle  == [at |-> "idle", to |-> 0]
NoPull == [of |-> "none", at |-> 0, n |-> 0]

TypeOK ==
  /\ want \subseteq {"mox", "tune"} /\ mode \in {"voice", "digi", "gen"} /\ ext \in BOOLEAN
  /\ main \in [at : {"idle", "key", "off", "drop"}, to : 0..MaxSamples]
  /\ mic \in Ring /\ client \in Ring /\ over \in Overs /\ pc \in {"top", "feed", "take"}
  /\ pull \in [of : {"none", "mic", "client"}, at : -Keep..MaxSamples, n : 0..1]
  /\ byClient \in BOOLEAN /\ pure \in BOOLEAN /\ mark \in [mic : Nat, client : Nat]
  /\ {old, fromMic} \subseteq 0..(Keep + 2) /\ moves \in 0..AudioDisturb

Init ==
  /\ want = {} /\ mode = "voice" /\ ext = FALSE /\ main = Idle
  /\ mic = [head |-> 0, tail |-> 0] /\ client = mic
  /\ over = "rx" /\ pc = "top" /\ pull = NoPull
  /\ byClient = FALSE /\ pure = FALSE /\ mark = [mic |-> 0, client |-> 0]
  /\ old = 0 /\ fromMic = 0 /\ moves = 0

-----------------------------------------------------------------------------
(* The main loop, one handler at a time.                                   *)

Moves == main = Idle /\ moves < AudioDisturb /\ moves' = moves + 1
Meddle == pure' = FALSE /\ UNCHANGED <<byClient, mark, old, fromMic>>

\* MOX and TUNE at the radio, or a pop.
OperatorKeys(w) ==
  /\ Moves /\ w # want /\ want' = w /\ Meddle
  /\ UNCHANGED <<mode, ext, main, mic, client, over, pc, pull>>

\* tx_update_mic: only a voice mode has the capture open, and mic_start empties its ring
\* by writing both indices.
ModeSet(m) ==
  /\ Moves /\ m # mode /\ mode' = m /\ Meddle
  /\ mic' = IF m = "voice" THEN [head |-> 0, tail |-> 0] ELSE mic
  /\ UNCHANGED <<want, ext, main, client, over, pc, pull>>

\* A TCI client's trx with its own audio: the source before the key.
ClientKeys ==
  /\ Moves /\ ext' = TRUE /\ main' = [Idle EXCEPT !.at = "key"]
  /\ IF over = "rx" THEN UNCHANGED history ELSE Meddle
  /\ UNCHANGED <<want, mode, mic, client, over, pc, pull>>

ThenTheKey ==
  /\ main.at = "key" /\ want' = want \cup {"mox"} /\ main' = Idle
  /\ UNCHANGED <<mode, ext, mic, client, over, pc, pull, moves, history>>

\* Its release, or its loss: the key before the source, and tx_run_set_ext_source drops
\* what is left in two steps.
ClientReleases ==
  /\ Moves /\ ext /\ want' = want \ {"mox"} /\ main' = [Idle EXCEPT !.at = "off"]
  /\ UNCHANGED <<mode, ext, mic, client, over, pc, pull, history>>

ThenTheSource ==
  /\ main.at = "off" /\ ext' = FALSE /\ main' = [at |-> "drop", to |-> client.head]
  /\ UNCHANGED <<want, mode, mic, client, over, pc, pull, moves, history>>

ThenTheRest ==
  /\ main.at = "drop" /\ client' = [client EXCEPT !.tail = main.to] /\ main' = Idle
  /\ UNCHANGED <<want, mode, ext, mic, over, pc, pull, moves, history>>

-----------------------------------------------------------------------------
(* The producers: on a full ring the newest is dropped.                    *)

\* on_process, while the capture is open.
Captured ==
  /\ mode = "voice" /\ mic.head < MaxSamples /\ mic.head - mic.tail < MicRing
  /\ mic' = [mic EXCEPT !.head = @ + 1]
  /\ UNCHANGED <<want, mode, ext, main, client, over, pc, pull, moves, history>>

\* tx_run_ext_push.
ClientSends ==
  /\ ext /\ client.head < MaxSamples /\ client.head - client.tail < ExtRing
  /\ client' = [client EXCEPT !.head = @ + 1]
  /\ UNCHANGED <<want, mode, ext, main, mic, over, pc, pull, moves, history>>

-----------------------------------------------------------------------------
(* tx_thread.  An intent that changed runs the gate before the next block. *)

\* The indices are unsigned: a tail ahead of its head is a full ring, and more.
Queued(r) == IF r.head < r.tail THEN MicRing + ExtRing ELSE r.head - r.tail

\* Mutant: the over begins with the backlog of the pause.
Backlog(r) == r

\* mic_flush keeps the freshest of what the ring holds.
Flushed(r) == IF Queued(r) > Keep THEN [r EXCEPT !.tail = r.head - Keep] ELSE r

\* The history counts no further than it is asked for.
Capped(n) == IF n > Keep + 2 THEN Keep + 2 ELSE n

FedBy(w) == IF "mox" \notin w THEN "tune" ELSE IF mode = "gen" THEN "gen" ELSE "mox"

\* gate_slot: the key of an over that takes audio empties its source.
KeyOn ==
  /\ over' = FedBy(want)
  /\ IF over' # "mox" THEN UNCHANGED <<mic, client>>
     ELSE IF ext THEN client' = [client EXCEPT !.tail = client.head] /\ UNCHANGED mic
     ELSE mic' = Flushed(mic) /\ UNCHANGED client
  /\ byClient' = ext /\ pure' = (over' = "mox" /\ "tune" \notin want)
  /\ mark' = [mic |-> mic.head, client |-> client.head] /\ old' = 0 /\ fromMic' = 0

\* ... the slots after it change the feed and empty nothing.
Refresh ==
  /\ over' = FedBy(want) /\ pure' = (pure /\ over' = over /\ "tune" \notin want)
  /\ UNCHANGED <<mic, client, byClient, mark, old, fromMic>>

\* ... and the last one leaves the rings as they are.
KeyOff == over' = "rx" /\ UNCHANGED <<mic, client, history>>

Slot(allowed) ==
  /\ pc = "top" /\ (allowed => mic.tail < MaxSamples)
  /\ UNCHANGED <<want, mode, ext, main, pull, moves>>
  /\ IF want = {} \/ ~allowed
     THEN KeyOff /\ UNCHANGED pc
     ELSE pc' = "feed" /\ IF over = "rx" THEN KeyOn ELSE Refresh

\* The block of this turn: from the source of this moment, by mic_pull, which finds no
\* stream when the capture is closed, or from the client's ring.
Feed ==
  /\ pc = "feed"
  /\ LET of == IF ext THEN "client" ELSE "mic"
         r  == IF ext THEN client ELSE mic
         n  == IF (ext \/ mode = "voice") /\ Queued(r) > 0 THEN 1 ELSE 0
     IN  IF over = "mox" THEN pull' = [of |-> of, at |-> r.tail, n |-> n] /\ pc' = "take"
         ELSE UNCHANGED pull /\ pc' = "top"
  /\ UNCHANGED <<want, mode, ext, main, mic, client, over, moves, history>>

\* ... its tail stored, a mic_pull without a stream stores none, and the block sent.
Take ==
  /\ pc = "take" /\ pc' = "top" /\ pull' = NoPull
  /\ LET moved(r) == IF pull.n = 0 THEN r ELSE [r EXCEPT !.tail = pull.at + 1]
     IN  IF pull.of = "mic" THEN mic' = moved(mic) /\ UNCHANGED client
         ELSE client' = moved(client) /\ UNCHANGED mic
  /\ LET was == IF pull.of = "mic" THEN mark.mic ELSE mark.client
     IN  old' = IF pull.n = 1 /\ pull.at < was THEN Capped(old + 1) ELSE old
  /\ fromMic' = IF pull.of = "mic" THEN Capped(fromMic + 1) ELSE fromMic
  /\ UNCHANGED <<want, mode, ext, main, over, byClient, pure, mark, moves>>

-----------------------------------------------------------------------------
Next ==
  \/ \E w \in SUBSET {"mox", "tune"} : OperatorKeys(w)
  \/ \E m \in {"voice", "digi", "gen"} : ModeSet(m)
  \/ ClientKeys \/ ThenTheKey \/ ClientReleases \/ ThenTheSource \/ ThenTheRest
  \/ Captured \/ ClientSends \/ (\E allowed \in BOOLEAN : Slot(allowed)) \/ Feed \/ Take

Spec == Init /\ [][Next]_vars

-----------------------------------------------------------------------------
\* An over sends its own audio.  Of a voice over no more than what mic_flush keeps is
\* older than its key; of a client's nothing is, and of the microphone ("the source
\* switches BEFORE the key so no mic audio can leak", tci_server.c:620) it sends at most
\* the block whose source is looked at between the client's release and the unkey.
AudioIsTheOvers ==
  pure /\ over = "mox" => IF byClient THEN fromMic <= 1 /\ old <= fromMic ELSE old <= Keep

-----------------------------------------------------------------------------
(* What makes it so: an inductive invariant.                               *)

Types ==
  /\ mic \in [head : Int, tail : Int] /\ client \in [head : Int, tail : Int]
  /\ mark \in [mic : Int, client : Int] /\ pull \in [of : {"none", "mic", "client"}, at : Int, n : {0, 1}]
  /\ main \in [at : {"idle", "key", "off", "drop"}, to : Int] /\ ext \in BOOLEAN
  /\ old \in Nat /\ fromMic \in Nat /\ pure \in BOOLEAN /\ byClient \in BOOLEAN

\* Where the main loop is in a command tells the source and the intent, and the feed
\* thread holds a block in one place only.
Places ==
  /\ main.at \in {"key", "off"} => ext
  /\ main.at = "off" => "mox" \notin want
  /\ main.at = "drop" => ~ext
  /\ IF pc = "take" THEN pull.of # "none" ELSE pull = NoPull

\* A client's over: nothing of its ring is older than the key, whoever moved the tail
\* last, and once the source is the microphone again the intent is gone and one block is
\* all that is left of the turn.
ClientsOver ==
  /\ client.tail >= mark.client /\ client.head >= mark.client
  /\ pull.of = "client" /\ pull.n = 1 => pull.at >= mark.client
  /\ ~ext => "mox" \notin want
  /\ main.at = "drop" => main.to >= mark.client
  /\ fromMic = 0 \/ (fromMic = 1 /\ ~ext /\ pc = "top")
  /\ pull.of = "mic" => ~ext
  /\ old <= fromMic

\* A voice over: what was sent of the pause, and what of it is still in the ring, are no
\* more than mic_flush kept.
MicsOver ==
  /\ ~ext /\ pull.of # "client" /\ (pull.n = 1 => pull.at = mic.tail)
  /\ old <= Keep /\ old + mark.mic - mic.tail <= Keep

OversInv ==
  /\ Types /\ Places
  /\ pure /\ over = "mox" /\ byClient => ClientsOver
  /\ pure /\ over = "mox" /\ ~byClient => MicsOver
=============================================================================
