# sdr-for-linux: TLA+ models

`sdr-for-linux` is a GTK program that drives HPSDR radios over UDP. On
reception a mistake costs a crackle. On transmission it can burn an
amplifier, transmit where it may not, or leave a carrier on the air after the
operator has gone. These modules therefore start with the transmit path: what
keys the exciter, what unkeys it, how that reaches the radio, and how the
samples get there. Round it stand the receiver, tuning, settings, discovery,
the TCI server and the client of a remote server. Paths below are relative to
the repository's root.

## The system

Threads of the running program:

| thread | code | does |
|---|---|---|
| main (GTK) | `src/gui.c`, `picker.c` | buttons, mode, VFO, preferences; a frame tick that pops buttons, polls meters and follows bands; starts and stops the link; runs the TCI commands |
| transmit, also "feed" | `src/engine/tx_run.c` `tx_thread` | one block of samples per iteration, a gate slot every 50 ms, an extra gate run on every change of intent |
| P2 timer | `src/engine/protocol2.c` `timer_thread` | sends every control packet while the link is up |
| P2 listener | `protocol2.c` `listener_thread` | status words, telemetry, receive and feedback IQ, mic packets; calls the demodulator |
| txiq | `protocol2.c` `txiq_thread` | sends the TX-IQ packets, paced |
| P1 sender, P1 listener | `src/engine/protocol1.c` | packets of samples with the configuration in their headers; parse of what comes back |
| TCI service | `src/tci_server.c` | WebSocket clients of logging and digital-mode programs |
| audio and mic callbacks | `audio_pw.c`, `mic_pw.c` | PipeWire real-time threads |
| discovery | `src/engine/discovery_*.c` | one receive thread per protocol and round |
| remote: datagrams, TCP | `src/client.c` | the two threads of a client of a piHPSDR server |

Components, with the state each keeps, what it does, and what makes it correct:

| component | state | operations | must hold |
|---|---|---|---|
| Safety gate, `tx_gate.c` | trip latch, the two-reading filter | evaluate, reset | bad readings unkey, good ones never do, a trip stays until release |
| Wattmeter, `tx_meter.c` | smoothed SWR | update, reset | garbage at low power neither trips nor hides a trip |
| Keying loop, `tx_run.c` | intents, fingerprint, hang and cutoff clocks, link-loss edge | request, set_cfg, set_freq, send and abort text, `gate_slot`, an iteration | no key is held that nobody holds; an over ends when it must; queued text goes out |
| GUI keys, `gui.c` | toggle buttons, pops to do | toggles, mode buttons, Esc, tick | the buttons show the engine's intents |
| CW and RTTY generators, `cw_gen.c`, `rtty_gen.c` | queued text, envelope | send, flush, pull, idle | a flush brings the envelope to rest |
| P2 control plane, `protocol2.c` | TX state, PureSignal state, frequency, two kicks, the cycle | setters, burst, cycle, start, stop | no update is lost; the parking packet is the last |
| TX-IQ ring, `protocol2.c` | slots, two indices, the gate, drop counters | emit, send, start, stop | order, no torn slot, honest statistics |
| P2 listener and telemetry, `protocol2.c` | peaks, status age, DDC routing, mic clock | status handler, `*_take`, `p2_mic_clock_wait` | peaks are not lost; the audio keeps its pace; the pacing never stalls |
| PureSignal, `ps.c` | enable, attenuator, auto-attenuator state, TUNE park | set, key, tune, tick | no block mixes two overs; calibration resumes; the attenuator settles |
| Protocol 1, `protocol1.c` | round robin, TX ring, count of receivers, telemetry | sender, listener, setters, start, stop | every register comes round; an over sends its own samples; samples are read as they lie |
| TCI server, `tci_server.c` | slots, subscriptions, who owns TRX, the reporter's last look | commands, broadcasts, streams | a client's exit releases its TRX; what clients are told is true |
| VFO, modes and bands, `gui.c` | dial, other VFO, DDC centre, filters, band memories | tune, CTUN, swap, copy, modes, band changes | what is heard is the dial; a swap is its own inverse |
| Settings, `settings.c` | the file, the App of a session | start, change, delayed save, quit, crash | a radio comes back as it was left, and never with another radio's calibration |
| Discovery and picker, `discovery_*.c`, `picker.c` | device table | probe, broadcast, parse, dedup, choose | the best route to each radio survives, in any order |
| Audio of an over, `mic_pw.c`, `tx_run.c` | two sample rings, the source switch | capture, flush, pull, switch, take | an over sends its own audio |
| Receive DSP, `demod.c` | cached settings, the WDSP channel, the mute | setters, demod_create, feed | the receiver sounds as it is set and is shut while keyed |
| Remote client, `client.c`, `transport.c` | sockets, widths asked for, latest frame | connect, start, latest, stop | the server is left as it was found, no socket or thread is left behind |
| Analyzer, TX DSP, audio output, band plan, rendering, wisdom gate, log | | | numeric work, drawing, tables or plain I/O |

How they interact: the GUI writes intents and configuration (atomics and one
mutex) that the transmit thread reads; the transmit thread calls the gate and
installs what it returns with `p2_set_tx_state` or `p1_set_tx_state`; the
timer thread (P2) or the sender (P1) turns the configuration into packets. The
listener stores coupler words, the footswitch and the time of the last status
packet, which the transmit thread loads without a lock, and hands IQ to the
demodulator under the demodulator's lock. The engine tells the GUI about a link
loss through a sequence number it polls. TCI commands arrive in the service
thread and run in the main loop, from a queue of idle jobs. The hard parts are
these hand-overs: values read in one step and used in the next, edges that are
seen once, levels that go stale, latches that outlive the over, packets that
may be lost, and rings that two threads share without a lock.

`PROJECT.json` lists the forty hazards that weigh most at their lines, each
with the properties that would catch it going wrong. What was seen besides, and
no property covers, is under "Seen and not checked" below.

## The modules

| module | models | variables ↔ code | actions ↔ code |
|---|---|---|---|
| `TxGate` | `tx_gate.c` as operators | `GateState`: `s_tripped`, `s_pre_high` | `GateNext`, `GateResult`: `tx_gate_evaluate`; `GateOff`: `tx_gate_reset` |
| `TxMeter` | the SWR half of `tx_meter.c` as operators | `swr`: `m_swr`, in tenths | `Gamma`, `RawSwr`, `Smooth`: `tx_meter_update`; limits of the gate |
| `TxProtect` | both, in the loop that uses them | `mox`, `tune`, `inBand`, `prevWant`, `seen` (fingerprint), `out` (published) | `Request`, `Qsy`, `EdgeRun`, `Slot` |
| `TxKey` | the keying loop with the GUI and the generators | every static of `tx_run.c` it keeps is named at its variable | GUI: `Press`, `SetMode`, `PublishMode`, `Qsy`, `Send`, `Abort`, `FrameTick`, `Pop`; radio: `Status`, `Silence`; transmit thread: `Content`, `GateRun`, `Work` |
| `P2Wire` | the P2 control plane | `cfgTx`, `cfgPs`, `cfgFreq`, `kick`, `freqKick`, `timer`, `cycling`; `radio`: the last packet of each kind received | setters, `Kick`, `TakeKick`, `Tick`, one action per packet, `Cycle`, `Start`, `DropKick`, `StartTimer`, `Stop`, `Joined`, `Park` |
| `TxIqQueue` | what the TX-IQ ring promises: a lossy bounded FIFO | `queue`, `wire`, `up` | `Lose`, `Accept`, `Send`, `LinkUp`, `LinkDown` |
| `TxIqRing` | the ring itself | `head`, `tail`, `slot`, `live`, `drops`, `prelink`, `sent` | `Emit`, `ReadIndices`, `FillSlot`, `Publish`, `TakeStats`; `Wake`, `SendPacket`, `Advance`; `Start`, `Arm`, `Open`, `Close`, `Stop`, `Join` |
| `P2Telemetry` | the forward peak | `peak`: `tlm_fwd_max` | `Parse`, `Store` (listener); `Slot`, `Decay` (transmit thread); `Restart` |
| `P2Listener` | routing of DDC and mic packets | `txOn`, `psOn`, `psTxmode`: the configuration and `ps_txmode`; `streams`, `net`: the radio and its packets; `acc`, `fed`: what the decoder holds and handed on | `Configure`, `SendReceiveSpecific` (timer); `Deliver`, `Lose`, `Beat` (radio); `HandleDdc`, `HandleMic` (listener) |
| `TxPacing` | mic clock and local timer | `credit`: `mic_clock`, `clockOk`: `mic_clock_ok`, `at`, `left`, `next`: the wait; `fill`: the radio's FIFO | `Tick`, `CreditClock`, `Weather` (time, listener, the link); `Produce`, `Pace`, `ClockTicks`, `ClockLost`, `WakeUp` (`tx_thread`) |
| `PureSignal` | `ps.c` with WDSP's calibrator outside | `enable`, `att`, `auto`, `wire`, the tick's copies in `tick`, the fill of a block | `Set`, `SetWire`, `Arm`, `Disarm`, `ClearWire`, `SetAuto` (GUI); `Slot`, `Retune`, `Key`, `Decide`, `PutAtt` (transmit thread); `RadioObeys`, `Feedback` |
| `P1Link` | the P1 configuration and sender | `dial`, `txDial`, `ps`, `tx`, `nrx`, `ring`; `radio`: its registers | setters, `Push`, `Top`, `Take`, `General`, `SendEp2`, `Stop`, `Join`, `Start`, `Prime` |
| `P1Listener` | the P1 start and its receive side | `nrx`, `settle`, `have`, `filled`, `tel`; `net`: the socket | `Start`, `Prime`, `Proved`, `StartFails`, `Handle`, `Poll`, `Key`, `Stop`, `Join` |
| `TciServer` | slots, jobs, TRX ownership, subscriptions | `cli`, `trxClient`, `active`, `idles`, `hand`, `last`: the client table, `s_trx_client`, `s_au_active`, the idle jobs, the job under way, `s_last` | `Established`, `Receive`, `Closed` (service thread); `Payload`, `Stream`, `Trx`, `TrxEnd`, `OwnerLost`, `Report` (main loop); `Press`, `Qsy`, `Follow`, `Stop`, `Start` |
| `TciStream` | the IQ stream with its centre stamps | `pipe`, `net`, `iq`, `stamps`, `noted`: ring, block in the making, the noted retune | `Retune`, `SetCentre`, `Ctun`, `IqStart`, `IqStop`, `Capture`, `IqPush`, `IqPump` |
| `TciClients` | what clients have been told | `app`, `echo`: the radio and the stored echoes; `last`: the reporter's last look; `told`: what each client knows | one action per class of command; `Reporter`, `Established`, `SendInitial`, `Closed`, `Start`, `Stop` |
| `Vfo` | tuning, modes, bands | `app`: the fields of App that tuning touches; `engine`: what was pushed to DDC, demodulator and transmitter; `onAir`: `tx_run_keyed` | `Tune`, `OtherSet`, `SetCentre`, `BandButton`, `Ctun`, `ModeButton`, `Filter`, `Drive`, `Swap`, `Copy`, `FrameTick`, `Air`, `Relink` |
| `Startup` | what is remembered between sessions | `file`, `app`, `radio`, `timer` | `StartNotFound`, `StartFound`, `Change`, `Calibrate`, `Save`, `Quit`, `Crash` |
| `Discovery` | rounds and the device table | `discovered[]` in order, answers on their way | `Rescan`, `Probe`, `AnswerP1`, `AnswerP2`, `NextInterface`, `ThenP1`, `Show`, `Select`, `Pick` |
| `TxAudio` | the two rings that feed an over | `mic`, `client`: heads and tails as free-running indices; `want`, `mode`, `ext`: the source; `pc`, `pull`: the thread's place; `mark`: where the over begins | `OperatorKeys`, `ModeSet`, `ClientKeys`, `ThenTheKey`, `ClientReleases`, `ThenTheSource`, `ThenTheRest`; `Captured`, `ClientSends`; `Slot` (with `mic_flush`), `Feed`, `Take` (`mic_pull`) |
| `Receiver` | the settings of the receiver and its mute | `app` (App), `dem` (the cache of `demod.c`), `chan` (the WDSP channel); `mute`, `gain`, `armed` | one action per handler with every setter it calls; `Key`, `Publish`, `IqBlock`, `Tick` |
| `RemoteClient` | `client.c` with the sockets of `transport.c` | `tcp`, `udp`, `running`, `columns`, `native`, `applied`, the two threads | one action per step of `client_connect`, `Start`, `Stop`, `JoinRx`, `Tell`, `JoinTcp`; `Receive`, `AskWidth`, `Deliver`, `DrainEnds` |

`MC*` modules give TLC its instances, `*_proofs` hold the theorems. `TxProtect`
and `TxKey` both EXTEND `TxGate`: the same gate is checked once against real
coupler words and a free operator, once with a free over-limit bit and the whole
keying loop. A variable called history in a module (`h`, `found`, `heard`,
`calm` and the like) is read by no guard.

`MCLive` and `MCRound` check several components in one run each, side by side:
the variables `x1`, `x2`, ... belong to whichever component `part` names, which
is chosen in the initial state and never changes, and the others' operators are
reached through INSTANCE. The state space is the sum of the components', not
their product: no interaction between two of these modules is claimed. Where
components do meet, one module has both sides (`TxKey`: GUI, generators, gate and
transmit thread; `TxAudio`: four threads; `TciServer`: service thread, main loop
and key; `Receiver`: GUI, transmit and listener thread).

What the models abstract, beyond the DSP:

- `TxProtect`: watts and SWR are integers in tenths and the reflection
  coefficient in hundredths; each division truncates where the code computes in
  doubles. The trim curve of the wattmeter is the identity. A slot loads any
  pair of words, because it does not wait for a packet and loads the two words
  one by one.
- `TxKey`: time is counted in blocks. A generator is a number of blocks and an
  envelope. The status packet's age has four classes (none yet, fresh, late,
  old), which are the ones `tx_run.c` and `p2_ptt_get` tell apart.
- `P2Wire`: the attenuator and PTT-input bits, which only wait for the next
  packet, are left out; building and sending a packet is one step, except
  TX-specific, which reads the configuration in two critical sections. UDP loses
  packets but does not reorder them.
- `TxIqRing`: a packet is its number; the pacing is any delay.
  That an emit which passed the gate of the last link is over before the next
  link resets the ring is an assumption of `Start`: half a second lies between,
  and the comment at `protocol2.c:610-619` argues the same.
- `P2Telemetry`: the peak decays by a half instead of a sixteenth.
- `PureSignal`: levels in decibels; the calibrator is a machine that advances
  with blocks and reports a level.
- `P1Link`: register values are what they are computed from; samples are known
  by the over they were made in. A gate slot takes longer than the sender needs
  for a packet it has built.
- `P1Listener`: time in ticks of 8 ms. A packet lies in the socket less than
  what the 25 ms guard leaves of the gateware's time (`ListenerAssumption`): a
  listener that is away for longer does hand over garbage, and TLC shows it if
  the bound is raised. The counters of the TX FIFO are kept as the code keeps
  them, and nothing is claimed of them (`tx_run.c:449` leaves open what they mean).
- `Vfo`, `Receiver`, `Startup`, `TciClients`: one setting stands for each way in
  which settings are treated; the setters called by a handler are all in its
  action, in their order.
- `TciStream`: the sample clock is right. `TciServer`: commands with a memory
  only.
- `Discovery`: sockets can be opened; a radio keeps its address.
- `TxAudio`: a block is one sample.
- `RemoteClient`: what a message says is not read; a step of the connection
  works or fails.

## What the runs check

| run | instance | shows |
|---|---|---|
| `protect` | 100 W, alarm 3, words idle, 2 W (under the floor) and 50 W into a match, SWR 12 and an open port, temperature hot or not | `TrippedIsUnkeyed`, `CleanOverNeverTrips`, `DangerUnkeys`, `TuneToleratesMismatch`, `LatchHeldUntilRelease`, and the type invariant |
| `keyer` | MOX and two-tone, voice and CW, band edges | `ButtonsShowIntents`, `OutageLeavesNothing`, `CutoffBoundsTheOver` |
| `keyer_live` | MOX, voice and CW, an SWR that may trip | `QueuedTextIsSent`, `ReleaseEndsTheOver`, `OutageEndsTheOver` |
| `wire` | two keyed states (one without the amplifier), one PureSignal setting, two frequencies, start, stop and restart | `SettledWireIsConfig`, `StoppedIsParked` |
| `wire_loss` | one keyed state, two frequencies, any packet may be lost | `RadioConverges`, `UnkeyReachesTheRadio` |
| `live` | one component at a time | see below |
| `round` | one component at a time | see below |

`live`, the components whose threads must make progress:

| component | property | says |
|---|---|---|
| `TxIqRing` | `AccountedFor` | every packet made was sent, waits, is in flight or was counted as dropped |
| | `RingIsAQueue` | the ring implements `TxIqQueue`, the lossy bounded queue (refinement) |
| | `AcceptedIsSent` | what the ring accepted leaves it, or the gate closes |
| `PureSignal` | `NoMixedBlock` | no block handed to the calibrator holds samples of two overs |
| | `CalibrationResumes` | a calibrator that was switched off comes back while it has something to do |
| | `AttenuatorSettles` | in a long over the automatic attenuator stops inside its window, provided the attenuator in the setting and the one on the wire agree |
| `P2Listener` | `AudioKeepsItsPace` | once nothing changes, the demodulator is fed at its own rate, keyed or not |
| `TxPacing` | `LeadIsBounded` | the radio's FIFO is never more than five blocks ahead |
| | `ClockIsFollowed` | when the radio's clock is back, the feed follows it again |

`round`, the components of which only safety is checked:

| component | property | says |
|---|---|---|
| `P2Telemetry` | `PeakIsTaken` | a slot takes no lower a peak than was parsed since the last decay |
| `P1Link` | `RoundConverges` | a round after the last change and loss every register of the radio is right |
| | `KeyedIqIsFresh` | a keyed packet never carries samples of an over before |
| `P1Listener` | `OneLayout` | nobody gets samples laid out for another count of receivers |
| `TciServer` | `CountedUnlessCut` | the number the producers test is the number of subscribers |
| `TciStream` | `StampsAreTrue` | a block's centre stamps are the truth about its frames |
| `TciClients` | `ClientsKnow` | a greeted client knows every item, or the reporter is about to say it |
| `Vfo` | `DialIsHeard` | without CTUN what is heard is the dial |
| | `SwapIsUndoneByItself` | swapping twice leaves everything as it was |
| `Startup` | `SettingsReturn` | a radio comes back as it was left, over failed writes, crashes and sessions without a radio |
| `Discovery` | `BestOfEach` | every radio is in the table once, P2 radios by their best interface |
| `TxAudio` | `AudioIsTheOvers` | an over sends its own audio, but for the block that is documented at the property |
| `Receiver` | `HeardAsSet` | whatever the order of the handlers, the receiver sounds as the App says |
| | `AudioFollowsKey` | the receiver is shut for the over and opens after it |
| `RemoteClient` | `LeftAsFound` | the server is left as it was found, with no thread and no socket left behind |

Every state machine but the abstract queue has a type invariant. Only `protect`
checks one as a run property, and those of `TxProtect`, `P2Wire` and `TxKey` are
proved; adding `TypeOK` to the INVARIANTS of any other configuration checks the
rest, and all of them hold. The types an inductive invariant of the proofs needs
are part of it, and looser where the proof does not need the bounds.
Deadlock is checked in every run.

### Why the bounds are enough

`protect`: the words are one per case that the meter and the gate distinguish
(no power, under the floor, over it; a match, over the alarm, open), and no
counter of the model is unbounded: the state space is complete for these words.

`keyer`: the hang, the cutoff and the PTT delay are one block each. What matters
of them is that they are not zero and that every step of the other threads can
fall within them; both the text (`MaxText`) and the number of texts (`MaxSends`)
are one, so a text that is queued meets each over, release, outage and mode
change once, while presses, mode changes, QSYs and outages are not bounded.

`wire`: nothing is bounded; the sets hold one element of each kind a packet can
tell apart, and two frequencies so that a change is seen.

`live`: the ring is the smallest that is not a single slot, its indices wrap
after two rounds, and five packets (`MaxMade`) carry both round more than once
and leave some for a second link. PureSignal has an attenuator of eight steps
(`MaxAtt`) and a feedback that starts outside the window (`Gains`), a watchdog
of two ticks and blocks of two pairs, so that a block can be cut in the middle.
The listener runs at the lowest rate and at eight times that, with two packets in
the network and three changes, which is one more than key and unkey. The pacing
has a timeout of three blocks and a hold-off longer than it.

`round`: two TCI clients, because a slot that is handed on needs two; a
microphone ring of three samples that keeps one, a client's ring of two; dials
in two bands, on both sides of the CTUN margin; two Protocol 2 radios and one of
Protocol 1, one of them unsupported, over two interfaces, one of them link-local;
a round that the operator asks for besides the program's own; two radios with
calibrations of their own and an old seed; three packets of telemetry. The counters named `...Disturb` bound how many
inputs a behaviour has (two to four, by component): enough for a change, its
contrary and something of another actor between or after them, since the hazards listed
are hand-overs of two or three steps. Steps that the program takes by itself are
never bounded. Each property was seen to fail when the code it is about is
broken (the mutants in `PROJECT.json`), within these bounds.

### Fairness

- `TxKey`: weak fairness of the gate run, the feed and of the main thread's
  handlers once begun (`PublishMode`, `Pop`); strong fairness of `Content` with
  a due slot, because the loop runs many times in 50 ms and a slot cannot stay
  away for ever. The operator, the radio and the frame tick owe nothing.
- `P2Wire`: weak fairness per thread (a handler that began finishes, a wait of
  100 ms ends). For each kind of packet, strong fairness of "sent and received":
  of packets sent again and again some arrive. A link that loses everything has
  no use for a configuration.
- `TxIqRing`: both threads run on. Nobody has to start or stop a link.
- `PureSignal`: the transmit thread, a GUI handler once begun, the slots, the
  radio's attenuator and its feedback run on; strong fairness of an attempt of the
  calibrator on a usable block, because WDSP tries every full block and some are
  usable. The operator and the key owe nothing.
- `P2Listener`: the timer and listener threads and the radio's samples run on, the
  network takes every packet somewhere, and of commands sent again and again some
  arrive.
- `TxPacing`: time passes, the listener credits what came, the feed runs on. The
  weather owes nothing: `ClockIsFollowed` has its calm as a premise.
- `round` states none: its properties are invariants.

### What the code does not do as it says

Five runs end in a counterexample of a sentence of the repository; each checks
one property, and the findings in `PROJECT.json` quote the lines.

| run, property | sentence | what happens |
|---|---|---|
| `protect_floor`, `GarbageNeverTrips` | `tx_gate.c:74-79`: garbage at key-on must not count toward the trip | a reading under the floor is smoothed into the SWR; two perfect readings above the floor are then over the alarm and trip |
| `keyer_stale`, `TextSitsInItsModeOnly` | `gui.c:6202`: text must not sit in the generator and key unexpectedly later | leaving CW with text queued flushes nothing; it keys when the mode comes back |
| `wire_mox`, `MoxAfterPaAndDac` | `protocol2.c:1363-1366`: MOX never lands ahead of a consistent PA and DAC configuration | a state installed in the middle of a burst is keyed by that burst's High-Priority packet; PA and DAC follow in the next |
| `tci_dangling`, `NoDanglingKey` | `tci_server.c:920-922`: a dangling key with nobody responsible must never stay up | a client that leaves while the main loop is between the look at its slot and the entry of its key leaves the transmitter keyed |
| `startup_filters`, `FiltersReturn` | `settings.h:3-4`: remembers the operating state across runs | a session that found no radio saves filters it never loaded; the next start takes them for choices |

## What is proved

TLAPS proves the theorems below for every value of the constants, under the
assumptions named in the modules (`GateAssumption`, `KeyAssumption`,
`WireAssumption` and so on; `PartAssumptions` of `MCLive` and `MCRound` is their
conjunction): any alarm and rating, any set of coupler words, any hang and
cutoff, any size of a ring and of a block, any set of clients, radios, settings
or frequencies. Every safety property of a passing run is the statement of a
theorem.

All have one shape: an inductive invariant, a lemma per action that it is kept,
and a last lemma that it covers the property. Every such invariant was checked
by TLC on the run's instance before it was proved. Where it is more than a few
lines it stands in the component's module under "What makes it so", for a reader
of the component and not of the proof.

| module | theorem | states | by |
|---|---|---|---|
| `TxProtect_proofs` | `TypeCorrect`, `Protected`, `Unkeyed`, `Latched`, `CleanOver`, `TuneTolerant`, `BadReadingsUnkey` | every property of `protect` | `ProtectInv`, `OverInv` |
| `P2Wire_proofs` | `TypeCorrect`, `StoppedParked`, `SettledConfig` | both invariants of `wire` | `AheadInv` |
| `TxKey_proofs` | `TypeCorrect`, `ButtonsAgree`, `OutageClears`, `CutoffEndsTheOver` | every property of `keyer` | `ButtonsInv`, `OutageInv`, `CutoffInv` |
| `TxIqRing_proofs` | `RingImplementsQueue` | the refinement of `TxIqQueue` | `RingInv` |
| `TxPacing_proofs` | lemmas for the next | | `PacingInv` |
| `Live_proofs` | `RingCountsTrue`, `RingImplementsQueue`, `PacingIsBounded`, `PsBlocksAreOfOneOver` | `AccountedFor`, `RingIsAQueue`, `LeadIsBounded`, `NoMixedBlock` | the two above, `PsInv` |
| `Round_proofs` | `PeakIsNotLost`, `KeyedIqStaysFresh`, `RoundBringsAll`, `LayoutIsOne`, `SubscribersAreCounted`, `TheStampsAreTrue`, `TheBestIsKept`; of `discovery_dedup`: `DedupKeeps`, `OrderIsImmaterial` | `PeakIsTaken`, `KeyedIqIsFresh`, `RoundConverges`, `OneLayout`, `CountedUnlessCut`, `StampsAreTrue`, `BestOfEach` | `PeakInv`, `FreshInv`, `RoundInv`, `LayoutInv`, `CountInv`, `StreamInv`, `FoundInv` |
| `Desk_proofs` | `TheDialIsHeard`, `SwapUndoesItself`, `TheSettingsReturn`, `TheClientsKnow`, `TheAudioIsTheOvers`, `TheServerIsLeftAsFound`, `TheAudioFollowsTheKey`, `TheReceiverIsHeardAsSet` | `DialIsHeard`, `SwapIsUndoneByItself`, `SettingsReturn`, `ClientsKnow`, `AudioIsTheOvers`, `LeftAsFound`, `AudioFollowsKey`, `HeardAsSet` | `DialInv`, `ReturnInv`, `KnowInv`, `OversInv`, `RemoteInv`, `SwitchInv`, `HeardInv` |

Theorems about a component of `live` or `round` are theorems of `MCLive`'s or
`MCRound`'s `Spec`: the component is chosen in the initial state, so the theorem
says it of all behaviours of the component. `Live_proofs` takes the ring's and
the pacing's lemmas by INSTANCE from their own modules.

Why the invariants are what they are:

- The gate. The properties speak of the whole over ("two consecutive readings",
  "no reading of this over"), the gate remembers one bit. `OverInv` is the link:
  it says what the filter bit, the latch and the smoothed SWR know of the over
  that `h` records, e.g. that a run of one far-over reading means the filter is
  armed and the SWR still over the alarm. `ProtectInv` asks it of the kept state
  while a key is held and of the reset state otherwise, because the reset only
  happens at the next rising want. Arithmetic facts about the smoothing
  (`SmoothBounds`, `SmoothFarOver`) and the reflection table (`GammaType`,
  `RawSwrType`) are lemmas of their own.
- The P2 wire. `SettledWireIsConfig` is not inductive: in the middle of a burst
  nothing agrees. `AheadInv` says instead, for each part of each packet, that it
  agrees with the configuration or something still to come will repair it: the
  step of the sender's `todo`, a raised kick, or a kick some thread owes. The
  torn read of TX-specific adds the case that `snap` is old but a kick is ahead.
  Every action either leaves what is ahead alone (`QuietKeepsAhead`), raises a
  kick (`KickSuffices`), turns a kick into a burst (`BurstSuffices`) or sends a
  packet built from the configuration of that moment (`SendKeepsAhead`). It is
  proved for a network that loses nothing, so that it speaks of what was sent.
- The keys. An intent has its button, and a button lit in vain has a pop on its
  way: a link loss in the news, or the pops queued for it (`ButtonsInv`).
  `OutageInv` says the same of an outage in which nobody asked for anything.
  `CutoffInv` bounds the tail of an over by what is left of the hang
  (`hang + h.tail <= Hang`), and needs that the fingerprint holds the generators'
  intents as they are.
- The ring. Each thread knows the other's index as it was: `IndexInv` says that
  what it knows errs on the safe side, so that the producer sees a ring no
  emptier than it is. The refinement follows: a publish is `Accept`, an advance
  `Send`, the reset at a start `LinkUp`, and the rest stutters. Indices wrap at
  `Width`, of which the number of slots is a divisor (`RingAssumption`).
- The pacing. By the radio's clock, what the FIFO holds, what is in work and what
  the packets on their way will pay for come to five blocks together; by the
  local timer, two blocks and the time to the next deadline.
- Protocol 1. `RoundInv` counts: the step of the round robin that came `n`
  packets ago is right in the radio if nothing changed or was lost in the last
  `n` packets. `FreshInv`: the over changes only when the ring is emptied, and
  samples already taken belong to the over until they are sent. `LayoutInv`: the
  guard has as much left as the gateware needs and the socket delays.
- Dial, receiver, settings: what the App says, what the engine was told and what
  the channel does are three copies; the invariant says which of them may
  differ, and after which action (`owed`, `Told`, `Follows`, `ReturnInv`).
- TCI clients. A greeted client knows what the reporter saw last but for what was
  announced aside, and the reporter is never behind on the tuning, because every
  handler that tunes runs it (`TuningIsSeen`).
- The IQ stream. The block that goes out is right because of what was noted long
  before, so the invariant speaks of every frame still to come: it carries the
  frequency the stamps in force at it foretell, and the last stamp is the
  centre's (`Foretold`). `BlockSoFar` says what the block in the making knows: up
  to `off` its frames are on `hz0`, the newest is on `cur`, and with one change
  noted the rest are on `hz1`. A chunk is a loop over its frames; `PumpFrameIsRight`
  is one pass of it, `PumpedIsRight` the loop, `ToldShifted` the renumbering of the
  stamps after it.
- Discovery. `heard` is the best rank in the table at every moment, not only
  between rounds. `discovery_dedup` keeps that because of what it computes from
  any table: one entry of each radio, one that was there, none better lost
  (`DedupKeeps`, by `MergedKeeps` for one entry). From the same theorem follows
  what its comment claims and a test samples, that the order does not matter
  (`OrderIsImmaterial`).
- Induction over the two loops. The induction theorems of the library take an
  operator, which no prover here instantiates. `SetInduction` states induction as
  membership in a set and follows from the library's `WFMin`: a set of numbers
  that is not empty has a smallest one. With it `Unfolds` shows that a recursive
  function on `0..n`, whose steps stay in a set, satisfies its own equation.
- An over's audio. A client's over has nothing older than its key in the ring,
  whoever moved the tail last; a voice over's share of the pause is what
  `mic_flush` kept, in the ring and on the air together.

### What the attempts changed

A proof attempt that failed for a good reason was a finding about the model:

- `OutageLeavesNothing` is false between the release and its publication, where a
  TUNE button is modelled (the run has none): the pop of a TUNE that was refused
  rewrites both intents from the buttons, and MOX is still lit
  (`on_tx_key_toggled`). The pops of the link loss then take it back. The
  property now begins when the GUI has heard of the release (`~news.raised`), as
  `ButtonsShowIntents` did.
- `Vfo`: a CASE with guards that overlap left the choice open; it is a chain of
  conditions now, in the code's order.
- Assumptions that the modules used and did not state: the markers of `Startup`
  are no radios (`StartAssumption`), the table of TCI clients is finite
  (`TciAssumption`), the items with a name of their own are not among the other
  settings (`ClientsAssumption`).

- `TciStream` dropped the stamps that are due by filtering them; the loop of
  `iq_pump` takes them from the front and stops at the first that is not due. For
  stamps in order it is the same, and that they are in order is no part of
  `Foretold`: the model now does what the loop does, and the proof needs no order.
- The folds of the community modules over a chunk and over the device table are
  recursive functions now, with the same values, so that they can be unfolded.

## Only model-checked

- Liveness (`QueuedTextIsSent`, `ReleaseEndsTheOver`, `OutageEndsTheOver`,
  `UnkeyReachesTheRadio`, `AcceptedIsSent`, `CalibrationResumes`,
  `AttenuatorSettles`, `AudioKeepsItsPace`, `ClockIsFollowed`, `RadioConverges`):
  fairness and ENABLED are out of the prover's reach.
- The five sentences the code contradicts: a counterexample is all they need.

## Seen and not checked

Met while reading, at their lines. No property covers them: each is a small
question of its own, or open until somebody says what is wanted.

Keying and transmit audio:

- With a hang of 0 ms, which the preferences allow, the break-in is never on and
  text stays queued (`tx_run.c:842`).
- From TUNE to MOX without a moment unkeyed the tone stays in the voice over
  (`tx_run.c:544`, against `docs/TX-DESIGN.md:142`); nor is the microphone
  flushed when TUNE or CW is swapped for MOX (`tx_run.c:557`). A generator is fed
  whenever its break-in is keyed, also during TUNE (`tx_run.c:802`).
- The exemption of TUNE counts while MOX is held too (`tx_gate.c:93`).
- A slot takes the coupler words whether or not a packet came since the last
  (`tx_run.c:460`); `tx_run_stop` makes no last gate run (`tx_run.c:1216`).
- A CW flush after a trip leaves the mark's envelope for the next pull
  (`cw_gen.c:185`).
- The microphone's ring drops the newest when it is full, so that what
  `mic_flush` keeps as freshest may be stale (`mic_pw.c:53`, 112-127);
  `mic_start` resets the ring a pull may be reading. `tx_run_set_ext_source` moves
  the client's tail beside the feed thread (`tx_run.c:1355`).
- The GUI's unmute backstop may overtake a new key (`gui.c:2918-2937`, 750-757).
  `AudioFollowsKey` excepts this case, and says so.

Protocols:

- The parking packet is sent once (`protocol2.c:1580`); `cfg_tx_on_atomic` is
  not cleared at start or stop (`protocol2.c:1504`); frequency kicks that keep
  coming put off the cycle (`protocol2.c:1390`).
- Protocol 1: a QSY and a key within one round key on the old frequency
  (`protocol1.c:218`); the peak's average and `fifo_filled` survive a relink
  (68-69, 617); under CTUN a relink takes the dial for the centre (`gui.c:5984`); the rate a
  Protocol 1 radio caps is saved for Protocol 2 radios too (`gui.c:7786-7792`).
- Discovery of Protocol 1 keeps the first interface, although
  `discovery.h:34-38` promises the best (`discovery_p1.c:282-289`); a merged device
  keeps its old status (`gui.c:7778`); a row may be picked during a round
  (`picker.c:154`); when the sendto fails, the socket is closed under the
  receive thread.

TCI, receiver and settings:

- A short over falls between two looks of the reporter; a command or greeting that
  is taken back before the reporter looks is not announced (`tci_server.c:372`,
  `docs/TCI-SCOPE.md:151`). A job holds a slot, not a connection
  (`tci_server.c:977`). A trx broadcast precedes the key (`tci_server.c:655`).
  `iq_start` stamps the dial, not the centre (`tci_server.c:884`).
- The equalizer reaches the demodulator before it is loaded (`gui.c:7541`,
  7576-7579), and the saved CW pitch only when the transmitter starts
  (7932-7940); the volume slider lifts a TCI mute (4401-4407); the page of the
  equalizer may be switched in the middle of a drag (4650-4665).
- Closing the window of the wisdom gate while it plans leaves its tick with
  widgets that are gone.

## Not modelled

- The numeric work of WDSP and its wrappers (analyzer, equalizer curve, the
  transmit chain, the meters' averages), rendering, the band plan and the tables
  of the remote protocol: functions without a control worth checking.
- Audio output: one ring between two threads, of the kind `TxIqRing` and
  `TxAudio` have.
- The wisdom gate, the log file: one thread, plain I/O.
- Within the modelled parts: `tx_run_start` and `tx_run_stop`, the DSP knobs, the
  meters shown to the operator, the monitor; the CW and RTTY schedules; the byte
  layout of packets and settings; the DUC pacing of `txiq_thread`; the outbound
  queues of the TCI server, its spots, macros and transmit-audio pacing; boards
  of Protocol 1 other than the HL2; a radio's own watchdog, which stands behind
  the parking packet that is sent once. The `note` of each component in
  `PROJECT.json` is exact about it.

The map covers 30 % of the implementation's lines. Most of the rest of `gui.c`,
by far the longest file, builds widgets, draws and converts settings.

## What is left

1. An abstract over (asked, keyed, ended) that `TxKey` implements, and its
   composition with `P2Wire` and `P1Link`.
2. CW and RTTY schedules: envelope and segment order across flush and append.
3. The transmit monitor's ring, and the outbound queues of the TCI server at
   their limits.

## Running

    tlc -workers 2 -config TxProtect.cfg MCTxProtect.tla
    tlc -workers 2 -config Round.cfg MCRound.tla
    tlapm TxProtect_proofs.tla
    tlapm Round_proofs.tla           # about seven minutes
    tlapm Desk_proofs.tla            # the longest: about ten minutes

`PROJECT.json` pairs every run with its module and configuration, every
definition with its lines, every property with a mutant of the code that
breaks it, and lists the findings, hazards and theorems.
