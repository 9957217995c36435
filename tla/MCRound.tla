-------------------------------- MODULE MCRound -------------------------------
(***************************************************************************)
(* The components round the keying core of which only safety is checked,   *)
(* for TLC, side by side as in MCLive: a behaviour is one of one           *)
(* component, chosen at the start.                                         *)
(***************************************************************************)
EXTENDS Integers, Sequences

CONSTANTS
  Levels, MaxPackets, Dials, Drives, Atts, RingMax, P1Disturb, Clients, TciDisturb, Centres,
  Latency, Chunk, Block, NetMax, StreamDisturb, Dial, Bands, Half, Margin, Modes, Wide,
  Watts, VfoDisturb, Radios, G2E, Values, OldSeed, StartDisturb, P1Radios, P2Radios,
  Supported, Interfaces, InSubnet, LinkLocal, MaxDevices, MaxRounds, Guests, Tunings,
  HalfSpan, Emissions, Widths, Polled, Stored, Amounts, Nothing, ClientsDisturb, MicRing,
  ExtRing, Keep, MaxSamples, AudioDisturb, Filters, Offsets, Pitches, Volumes, Tops,
  Profiles, Flat, Plain, RxDisturb, ServerWidths, Columns, MaxFrames, MaxCalls, Tries,
  Apply, Settle, MaxDelay, MaxQueue

VARIABLES
  part,    \* the component this behaviour is of
  x1, x2, x3, x4, x5, x6, x7, x8, x9, x10, x11, x12, x13, x14, x15, x16, x17, x18, x19   \* its variables

\* The band table of the dial.
MCBands == <<{2, 4}, {9}>>

Telemetry == INSTANCE P2Telemetry WITH
  peak <- x1, parse <- x2, take <- x3, packets <- x4, h <- x5
P1 == INSTANCE P1Link WITH
  dial <- x1, txDial <- x2, ps <- x3, tx <- x4, nrx <- x5, ring <- x6, keying <- x7, over <-
  x8, link <- x9, at <- x10, step <- x11, payload <- x12, spaced <- x13, radio <- x14, calm
  <- x15, changes <- x16
Tci == INSTANCE TciServer WITH
  run <- x1, cli <- x2, trxClient <- x3, active <- x4, idles <- x5, hand <- x6, cut <- x7,
  last <- x8, button <- x9, source <- x10, inBand <- x11, keyed <- x12, stirs <- x13
Stream == INSTANCE TciStream WITH
  dial <- x1, centre <- x2, ctun <- x3, pipe <- x4, net <- x5, iq <- x6, stamps <- x7, noted
  <- x8, client <- x9, out <- x10, h <- x11, turns <- x12
Dialling == INSTANCE Vfo WITH
  app <- x1, engine <- x2, onAir <- x3, inputs <- x4
Remembered == INSTANCE Startup WITH
  file <- x1, app <- x2, radio <- x3, timer <- x4, chosen <- x5, unsaved <- x6, changes <-
  x7
Found == INSTANCE Discovery WITH
  table <- x1, shown <- x2, target <- x3, stage <- x4, picked <- x5, heard <- x6, rounds <-
  x7
Known == INSTANCE TciClients WITH
  run <- x1, app <- x2, echo <- x3, last <- x4, cli <- x5, told <- x6, aside <- x7, stirs <-
  x8
Fed == INSTANCE TxAudio WITH
  want <- x1, mode <- x2, ext <- x3, main <- x4, mic <- x5, client <- x6, over <- x7, pc <-
  x8, pull <- x9, byClient <- x10, pure <- x11, mark <- x12, old <- x13, fromMic <- x14,
  moves <- x15
Heard == INSTANCE Receiver WITH
  app <- x1, dem <- x2, chan <- x3, ready <- x4, hasTx <- x5, drag <- x6, side <- x7, muted
  <- x8, owed <- x9, keyed <- x10, shown <- x11, prev <- x12, armed <- x13, seen <- x14,
  settle <- x15, mute <- x16, gain <- x17, overtaken <- x18, moves <- x19
Remote == INSTANCE RemoteClient WITH
  main <- x1, tcp <- x2, udp <- x3, running <- x4, columns <- x5, native <- x6, applied <-
  x7, rx <- x8, drain <- x9, frame <- x10, latest <- x11, seen <- x12, server <- x13, found
  <- x14, air <- x15, calls <- x16
Parsed == INSTANCE P1Listener WITH
  link <- x1, tries <- x2, ps <- x3, nrx <- x4, layout <- x5, due <- x6, net <- x7, gap <-
  x8, packets <- x9, settle <- x10, have <- x11, keyed <- x12, filled <- x13, tel <- x14,
  heard <- x15

ASSUME PartAssumptions ==
  /\ Telemetry!TelemetryAssumption
  /\ P1!P1Assumption
  /\ Tci!TciAssumption
  /\ Stream!StreamAssumption
  /\ Dialling!VfoAssumption
  /\ Remembered!StartAssumption
  /\ Found!DiscoveryAssumption
  /\ Known!ClientsAssumption
  /\ Fed!AudioAssumption
  /\ Heard!ReceiverAssumption
  /\ Remote!RemoteAssumption
  /\ Parsed!ListenerAssumption

\* A component with fewer variables leaves the last of them at 0.
Rest16 == <<x17, x18, x19>>
Rest15 == <<x16, x17, x18, x19>>
Rest13 == <<x14, x15, x16, x17, x18, x19>>
Rest12 == <<x13, x14, x15, x16, x17, x18, x19>>
Rest8 == <<x9, x10, x11, x12, x13, x14, x15, x16, x17, x18, x19>>
Rest7 == <<x8, x9, x10, x11, x12, x13, x14, x15, x16, x17, x18, x19>>
Rest5 == <<x6, x7, x8, x9, x10, x11, x12, x13, x14, x15, x16, x17, x18, x19>>
Rest4 == <<x5, x6, x7, x8, x9, x10, x11, x12, x13, x14, x15, x16, x17, x18, x19>>
None16 == x17 = 0 /\ x18 = 0 /\ x19 = 0
None15 == None16 /\ x16 = 0
None13 == None15 /\ x14 = 0 /\ x15 = 0
None12 == None13 /\ x13 = 0
None8 == None12 /\ x9 = 0 /\ x10 = 0 /\ x11 = 0 /\ x12 = 0
None7 == None8 /\ x8 = 0
None5 == None7 /\ x6 = 0 /\ x7 = 0
None4 == None5 /\ x5 = 0

Init ==
  \/ part = "telemetry" /\ Telemetry!Init /\ None5
  \/ part = "p1" /\ P1!Init /\ None16
  \/ part = "tci" /\ Tci!Init /\ None13
  \/ part = "stream" /\ Stream!Init /\ None12
  \/ part = "vfo" /\ Dialling!Init /\ None4
  \/ part = "startup" /\ Remembered!Init /\ None7
  \/ part = "discovery" /\ Found!Init /\ None7
  \/ part = "clients" /\ Known!Init /\ None8
  \/ part = "audio" /\ Fed!Init /\ None15
  \/ part = "receiver" /\ Heard!Init
  \/ part = "remote" /\ Remote!Init /\ None16
  \/ part = "ep6" /\ Parsed!Init /\ None15

Next ==
  \/ part = "telemetry" /\ UNCHANGED <<part, Rest5>> /\ \E w \in Levels : Telemetry!Parse(w)
  \/ part = "telemetry" /\ UNCHANGED <<part, Rest5>> /\ Telemetry!Store
  \/ part = "telemetry" /\ UNCHANGED <<part, Rest5>> /\ Telemetry!Slot
  \/ part = "telemetry" /\ UNCHANGED <<part, Rest5>> /\ Telemetry!Decay
  \/ part = "telemetry" /\ UNCHANGED <<part, Rest5>> /\ Telemetry!Restart
  \/ part = "p1" /\ UNCHANGED <<part, Rest16>> /\ \E f \in Dials : P1!SetFrequency(f)
  \/ part = "p1" /\ UNCHANGED <<part, Rest16>> /\ \E f \in Dials : P1!SetTxFrequency(f)
  \/ part = "p1" /\ UNCHANGED <<part, Rest16>> /\ \E p \in {P1!PsOff} \cup Atts : P1!SetPs(p)
  \/ part = "p1" /\ UNCHANGED <<part, Rest16>> /\ P1!Stop
  \/ part = "p1" /\ UNCHANGED <<part, Rest16>> /\ P1!Join
  \/ part = "p1" /\ UNCHANGED <<part, Rest16>> /\ P1!Start
  \/ part = "p1" /\ UNCHANGED <<part, Rest16>> /\ P1!Prime
  \/ part = "p1" /\ UNCHANGED <<part, Rest16>> /\ \E on \in BOOLEAN, d \in Drives : P1!SetTxState(on, d)
  \/ part = "p1" /\ UNCHANGED <<part, Rest16>> /\ P1!Push
  \/ part = "p1" /\ UNCHANGED <<part, Rest16>> /\ P1!Top
  \/ part = "p1" /\ UNCHANGED <<part, Rest16>> /\ P1!Take
  \/ part = "p1" /\ UNCHANGED <<part, Rest16>> /\ P1!General
  \/ part = "p1" /\ UNCHANGED <<part, Rest16>> /\ \E lost \in BOOLEAN : P1!SendEp2(lost)
  \/ part = "tci" /\ UNCHANGED <<part, Rest13>> /\ \E s \in Clients : Tci!Established(s)
  \/ part = "tci" /\ UNCHANGED <<part, Rest13>> /\ \E s \in Clients, c \in Tci!Commands : Tci!Receive(s, c)
  \/ part = "tci" /\ UNCHANGED <<part, Rest13>> /\ \E s \in Clients : Tci!Closed(s)
  \/ part = "tci" /\ UNCHANGED <<part, Rest13>> /\ Tci!Payload
  \/ part = "tci" /\ UNCHANGED <<part, Rest13>> /\ Tci!Stream
  \/ part = "tci" /\ UNCHANGED <<part, Rest13>> /\ Tci!Trx
  \/ part = "tci" /\ UNCHANGED <<part, Rest13>> /\ Tci!TrxEnd
  \/ part = "tci" /\ UNCHANGED <<part, Rest13>> /\ Tci!OwnerLost
  \/ part = "tci" /\ UNCHANGED <<part, Rest13>> /\ Tci!Report
  \/ part = "tci" /\ UNCHANGED <<part, Rest13>> /\ Tci!Press
  \/ part = "tci" /\ UNCHANGED <<part, Rest13>> /\ Tci!Qsy
  \/ part = "tci" /\ UNCHANGED <<part, Rest13>> /\ Tci!Follow
  \/ part = "tci" /\ UNCHANGED <<part, Rest13>> /\ Tci!Stop
  \/ part = "tci" /\ UNCHANGED <<part, Rest13>> /\ Tci!Start
  \/ part = "stream" /\ UNCHANGED <<part, Rest12>> /\ \E f \in Centres : Stream!Retune(f)
  \/ part = "stream" /\ UNCHANGED <<part, Rest12>> /\ \E c \in Centres : Stream!SetCentre(c)
  \/ part = "stream" /\ UNCHANGED <<part, Rest12>> /\ Stream!Ctun
  \/ part = "stream" /\ UNCHANGED <<part, Rest12>> /\ Stream!IqStart
  \/ part = "stream" /\ UNCHANGED <<part, Rest12>> /\ Stream!IqStop
  \/ part = "stream" /\ UNCHANGED <<part, Rest12>> /\ Stream!Capture
  \/ part = "stream" /\ UNCHANGED <<part, Rest12>> /\ Stream!IqPush
  \/ part = "stream" /\ UNCHANGED <<part, Rest12>> /\ Stream!IqPump
  \/ part = "vfo" /\ UNCHANGED <<part, Rest4>> /\ \E f \in Dial : Dialling!Tune(f)
  \/ part = "vfo" /\ UNCHANGED <<part, Rest4>> /\ \E f \in Dial : Dialling!OtherSet(f)
  \/ part = "vfo" /\ UNCHANGED <<part, Rest4>> /\ \E f \in Dial : Dialling!SetCentre(f)
  \/ part = "vfo" /\ UNCHANGED <<part, Rest4>> /\ \E b \in DOMAIN Bands : Dialling!BandButton(b)
  \/ part = "vfo" /\ UNCHANGED <<part, Rest4>> /\ \E on \in BOOLEAN : Dialling!Ctun(on)
  \/ part = "vfo" /\ UNCHANGED <<part, Rest4>> /\ \E m \in Modes : Dialling!ModeButton(m)
  \/ part = "vfo" /\ UNCHANGED <<part, Rest4>> /\ \E w \in Wide : Dialling!Filter(w)
  \/ part = "vfo" /\ UNCHANGED <<part, Rest4>> /\ \E d \in Watts : Dialling!Drive(d)
  \/ part = "vfo" /\ UNCHANGED <<part, Rest4>> /\ Dialling!Swap
  \/ part = "vfo" /\ UNCHANGED <<part, Rest4>> /\ Dialling!Copy
  \/ part = "vfo" /\ UNCHANGED <<part, Rest4>> /\ Dialling!FrameTick
  \/ part = "vfo" /\ UNCHANGED <<part, Rest4>> /\ Dialling!Air
  \/ part = "vfo" /\ UNCHANGED <<part, Rest4>> /\ Dialling!Relink
  \/ part = "startup" /\ UNCHANGED <<part, Rest7>> /\ Remembered!StartNotFound
  \/ part = "startup" /\ UNCHANGED <<part, Rest7>> /\ \E r \in Radios, opens \in BOOLEAN : Remembered!StartFound(r, opens)
  \/ part = "startup" /\ UNCHANGED <<part, Rest7>> /\ \E s \in Remembered!Shared, v \in Values : Remembered!Change(s, v)
  \/ part = "startup" /\ UNCHANGED <<part, Rest7>> /\ \E v \in Values : Remembered!Calibrate(v)
  \/ part = "startup" /\ UNCHANGED <<part, Rest7>> /\ \E works \in BOOLEAN : Remembered!Save(works)
  \/ part = "startup" /\ UNCHANGED <<part, Rest7>> /\ Remembered!Quit
  \/ part = "startup" /\ UNCHANGED <<part, Rest7>> /\ Remembered!Crash
  \/ part = "discovery" /\ UNCHANGED <<part, Rest7>> /\ Found!Rescan
  \/ part = "discovery" /\ UNCHANGED <<part, Rest7>> /\ \E r \in Found!AllRadios : Found!Probe(r)
  \/ part = "discovery" /\ UNCHANGED <<part, Rest7>> /\ \E r \in Found!AllRadios : Found!Pick(r)
  \/ part = "discovery" /\ UNCHANGED <<part, Rest7>> /\ \E r \in P2Radios : Found!AnswerP2(r)
  \/ part = "discovery" /\ UNCHANGED <<part, Rest7>> /\ \E r \in P1Radios : Found!AnswerP1(r)
  \/ part = "discovery" /\ UNCHANGED <<part, Rest7>> /\ Found!NextInterface
  \/ part = "discovery" /\ UNCHANGED <<part, Rest7>> /\ Found!ThenP1
  \/ part = "discovery" /\ UNCHANGED <<part, Rest7>> /\ Found!Show
  \/ part = "discovery" /\ UNCHANGED <<part, Rest7>> /\ Found!Select
  \/ part = "discovery" /\ UNCHANGED <<part, Rest7>> /\ Found!Again
  \/ part = "clients" /\ UNCHANGED <<part, Rest8>> /\ Known!OperatorTunes
  \/ part = "clients" /\ UNCHANGED <<part, Rest8>> /\ Known!OperatorSets
  \/ part = "clients" /\ UNCHANGED <<part, Rest8>> /\ \E m \in Emissions, w \in Widths : Known!OperatorSwaps(m, w)
  \/ part = "clients" /\ UNCHANGED <<part, Rest8>> /\ Known!KeyFollows
  \/ part = "clients" /\ UNCHANGED <<part, Rest8>> /\ Known!Reporter
  \/ part = "clients" /\ UNCHANGED <<part, Rest8>> /\ Known!Stop
  \/ part = "clients" /\ UNCHANGED <<part, Rest8>> /\ \E v \in Amounts : Known!Start(v)
  \/ part = "clients" /\ UNCHANGED <<part, Rest8>> /\ \E c \in Guests : Known!Established(c)
  \/ part = "clients" /\ UNCHANGED <<part, Rest8>> /\ \E c \in Guests : Known!SendInitial(c)
  \/ part = "clients" /\ UNCHANGED <<part, Rest8>> /\ \E c \in Guests : Known!Closed(c)
  \/ part = "clients" /\ UNCHANGED <<part, Rest8>> /\ Known!VfoOrDds
  \/ part = "clients" /\ UNCHANGED <<part, Rest8>> /\ Known!Modulation
  \/ part = "clients" /\ UNCHANGED <<part, Rest8>> /\ Known!Trx
  \/ part = "clients" /\ UNCHANGED <<part, Rest8>> /\ \E f \in Tunings : Known!IfOffset(f)
  \/ part = "clients" /\ UNCHANGED <<part, Rest8>> /\ \E f \in Tunings : Known!VfoB(f)
  \/ part = "clients" /\ UNCHANGED <<part, Rest8>> /\ \E w \in Widths : Known!FilterBand(w)
  \/ part = "clients" /\ UNCHANGED <<part, Rest8>> /\ \E i \in Polled, v \in Amounts : Known!Setting(i, v)
  \/ part = "clients" /\ UNCHANGED <<part, Rest8>> /\ \E i \in Stored, v \in Amounts : Known!EchoExec(i, v)
  \/ part = "audio" /\ UNCHANGED <<part, Rest15>> /\ \E w \in SUBSET {"mox", "tune"} : Fed!OperatorKeys(w)
  \/ part = "audio" /\ UNCHANGED <<part, Rest15>> /\ \E m \in {"voice", "digi", "gen"} : Fed!ModeSet(m)
  \/ part = "audio" /\ UNCHANGED <<part, Rest15>> /\ Fed!ClientKeys
  \/ part = "audio" /\ UNCHANGED <<part, Rest15>> /\ Fed!ThenTheKey
  \/ part = "audio" /\ UNCHANGED <<part, Rest15>> /\ Fed!ClientReleases
  \/ part = "audio" /\ UNCHANGED <<part, Rest15>> /\ Fed!ThenTheSource
  \/ part = "audio" /\ UNCHANGED <<part, Rest15>> /\ Fed!ThenTheRest
  \/ part = "audio" /\ UNCHANGED <<part, Rest15>> /\ Fed!Captured
  \/ part = "audio" /\ UNCHANGED <<part, Rest15>> /\ Fed!ClientSends
  \/ part = "audio" /\ UNCHANGED <<part, Rest15>> /\ \E allowed \in BOOLEAN : Fed!Slot(allowed)
  \/ part = "audio" /\ UNCHANGED <<part, Rest15>> /\ Fed!Feed
  \/ part = "audio" /\ UNCHANGED <<part, Rest15>> /\ Fed!Take
  \/ part = "receiver" /\ UNCHANGED part /\ \E works, tx \in BOOLEAN : Heard!Start(works, tx)
  \/ part = "receiver" /\ UNCHANGED part /\ \E m \in Heard!RxModes : Heard!ToMode(m)
  \/ part = "receiver" /\ UNCHANGED part /\ \E w \in Filters, filed \in BOOLEAN : Heard!Filter(w, filed)
  \/ part = "receiver" /\ UNCHANGED part /\ \E o \in Offsets : Heard!DialTo(o)
  \/ part = "receiver" /\ UNCHANGED part /\ \E p \in Pitches : Heard!CwPush(p)
  \/ part = "receiver" /\ UNCHANGED part /\ \E p \in Pitches : Heard!RttyPush(p)
  \/ part = "receiver" /\ UNCHANGED part /\ \E on \in BOOLEAN, p \in Profiles : Heard!EqEdit(on, p)
  \/ part = "receiver" /\ UNCHANGED part /\ \E p \in Profiles : Heard!EqDrag(p)
  \/ part = "receiver" /\ UNCHANGED part /\ Heard!EqApply
  \/ part = "receiver" /\ UNCHANGED part /\ Heard!EqPage
  \/ part = "receiver" /\ UNCHANGED part /\ Heard!TxEqEdit
  \/ part = "receiver" /\ UNCHANGED part /\ \E v \in Volumes : Heard!Volume(v)
  \/ part = "receiver" /\ UNCHANGED part /\ \E v \in Volumes : Heard!TciVolume(v)
  \/ part = "receiver" /\ UNCHANGED part /\ \E on \in BOOLEAN : Heard!TciMute(on)
  \/ part = "receiver" /\ UNCHANGED part /\ \E m \in Heard!AgcModes : Heard!AgcSelect(m)
  \/ part = "receiver" /\ UNCHANGED part /\ \E t \in Tops : Heard!AgcTop(t)
  \/ part = "receiver" /\ UNCHANGED part /\ Heard!NrNext
  \/ part = "receiver" /\ UNCHANGED part /\ Heard!NnrModel
  \/ part = "receiver" /\ UNCHANGED part /\ \E s \in Plain : Heard!Toggle(s)
  \/ part = "receiver" /\ UNCHANGED part /\ Heard!Key
  \/ part = "receiver" /\ UNCHANGED part /\ Heard!Publish
  \/ part = "receiver" /\ UNCHANGED part /\ Heard!IqBlock
  \/ part = "receiver" /\ UNCHANGED part /\ Heard!Tick
  \/ part = "remote" /\ UNCHANGED <<part, Rest16>> /\ Remote!ServerStreams
  \/ part = "remote" /\ UNCHANGED <<part, Rest16>> /\ Remote!LinkBreaks
  \/ part = "remote" /\ UNCHANGED <<part, Rest16>> /\ \E works \in BOOLEAN : Remote!TcpConnect(works)
  \/ part = "remote" /\ UNCHANGED <<part, Rest16>> /\ \E works \in BOOLEAN : Remote!Handshake(works)
  \/ part = "remote" /\ UNCHANGED <<part, Rest16>> /\ \E works \in BOOLEAN : Remote!UdpConnect(works)
  \/ part = "remote" /\ UNCHANGED <<part, Rest16>> /\ \E works \in BOOLEAN : Remote!Register(works)
  \/ part = "remote" /\ UNCHANGED <<part, Rest16>> /\ \E works \in BOOLEAN : Remote!Ingest(works)
  \/ part = "remote" /\ UNCHANGED <<part, Rest16>> /\ Remote!Again
  \/ part = "remote" /\ UNCHANGED <<part, Rest16>> /\ \E n \in Columns : Remote!SetColumns(n)
  \/ part = "remote" /\ UNCHANGED <<part, Rest16>> /\ Remote!Start
  \/ part = "remote" /\ UNCHANGED <<part, Rest16>> /\ Remote!Latest
  \/ part = "remote" /\ UNCHANGED <<part, Rest16>> /\ Remote!Stop
  \/ part = "remote" /\ UNCHANGED <<part, Rest16>> /\ Remote!JoinRx
  \/ part = "remote" /\ UNCHANGED <<part, Rest16>> /\ Remote!Tell
  \/ part = "remote" /\ UNCHANGED <<part, Rest16>> /\ Remote!JoinTcp
  \/ part = "remote" /\ UNCHANGED <<part, Rest16>> /\ \E w \in Remote!AnyWidth : Remote!Receive(w)
  \/ part = "remote" /\ UNCHANGED <<part, Rest16>> /\ Remote!RxEnds
  \/ part = "remote" /\ UNCHANGED <<part, Rest16>> /\ Remote!AskWidth
  \/ part = "remote" /\ UNCHANGED <<part, Rest16>> /\ Remote!Deliver
  \/ part = "remote" /\ UNCHANGED <<part, Rest16>> /\ Remote!DrainEnds
  \/ part = "ep6" /\ UNCHANGED <<part, Rest15>> /\ Parsed!SetPs
  \/ part = "ep6" /\ UNCHANGED <<part, Rest15>> /\ Parsed!Start
  \/ part = "ep6" /\ UNCHANGED <<part, Rest15>> /\ Parsed!Proved
  \/ part = "ep6" /\ UNCHANGED <<part, Rest15>> /\ Parsed!StartFails
  \/ part = "ep6" /\ UNCHANGED <<part, Rest15>> /\ Parsed!Stop
  \/ part = "ep6" /\ UNCHANGED <<part, Rest15>> /\ Parsed!Join
  \/ part = "ep6" /\ UNCHANGED <<part, Rest15>> /\ Parsed!Poll
  \/ part = "ep6" /\ UNCHANGED <<part, Rest15>> /\ \E arrives \in BOOLEAN : Parsed!Prime(arrives)
  \/ part = "ep6" /\ UNCHANGED <<part, Rest15>> /\ \E on \in BOOLEAN : Parsed!Key(on)
  \/ part = "ep6" /\ UNCHANGED <<part, Rest15>> /\ Parsed!Applies
  \/ part = "ep6" /\ UNCHANGED <<part, Rest15>> /\ Parsed!TimePasses
  \/ part = "ep6" /\ UNCHANGED <<part, Rest15>> /\ Parsed!Handle
  \/ part = "ep6" /\ UNCHANGED <<part, Rest15>> /\ \E status \in Parsed!Status, lost \in BOOLEAN : Parsed!Sends(status, lost)

vars == <<part, x1, x2, x3, x4, x5, x6, x7, x8, x9, x10, x11, x12, x13, x14, x15, x16, x17, x18, x19>>

Spec == Init /\ [][Next]_vars

-----------------------------------------------------------------------------
(* The properties of the components.                                       *)

\* Every component keeps its types.
TypeOK ==
  CASE part = "telemetry" -> Telemetry!TypeOK
    [] part = "p1" -> P1!TypeOK
    [] part = "tci" -> Tci!TypeOK
    [] part = "stream" -> Stream!TypeOK
    [] part = "vfo" -> Dialling!TypeOK
    [] part = "startup" -> Remembered!TypeOK
    [] part = "discovery" -> Found!TypeOK
    [] part = "clients" -> Known!TypeOK
    [] part = "audio" -> Fed!TypeOK
    [] part = "receiver" -> Heard!TypeOK
    [] part = "remote" -> Remote!TypeOK
    [] part = "ep6" -> Parsed!TypeOK

\* No forward peak is lost between listener and wattmeter.
PeakIsTaken == part = "telemetry" => Telemetry!PeakIsTaken

\* Protocol 1: a round brings the radio up to date, a keyed packet carries its own over.
RoundConverges == part = "p1" => P1!RoundConverges
KeyedIqIsFresh == part = "p1" => P1!KeyedIqIsFresh

\* TCI: the counter of subscribers, the stamps of the IQ blocks.
CountedUnlessCut == part = "tci" => Tci!CountedUnlessCut
StampsAreTrue == part = "stream" => Stream!StampsAreTrue

\* Tuning: what is heard, and A/B.
DialIsHeard == part = "vfo" => Dialling!DialIsHeard
SwapIsUndoneByItself == part = "vfo" => Dialling!SwapIsUndoneByItself

\* A radio comes back as it was left.
SettingsReturn == part = "startup" => Remembered!SettingsReturn

\* Every radio is listed once, over its best interface.
BestOfEach == part = "discovery" => Found!BestOfEach

\* A client of the TCI server knows the radio as it is.
ClientsKnow == part = "clients" => Known!ClientsKnow

\* An over sends its own audio.
AudioIsTheOvers == part = "audio" => Fed!AudioIsTheOvers

\* The receiver sounds as it is set, and is shut while keyed.
HeardAsSet == part = "receiver" => Heard!HeardAsSet
AudioFollowsKey == part = "receiver" => Heard!AudioFollowsKey

\* The server of a remote client is left as it was found.
LeftAsFound == part = "remote" => Remote!LeftAsFound

\* The samples of a Protocol 1 link are read as its radio sends them.
OneLayout == part = "ep6" => Parsed!OneLayout
=============================================================================
