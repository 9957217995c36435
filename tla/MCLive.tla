-------------------------------- MODULE MCLive --------------------------------
(***************************************************************************)
(* The components round the keying core whose properties need fairness,    *)
(* for TLC, side by side: a behaviour is one of one component, chosen at   *)
(* the start. They run on threads of their own and meet the core through   *)
(* the calls their modules name, so nothing is lost by looking at one at a *)
(* time, and each is checked in its own states instead of in their         *)
(* product.                                                                *)
(***************************************************************************)
EXTENDS Integers, Sequences

CONSTANTS
  Slots, Width, MaxMade, MaxAtt, Gains, Settings, PsKeys, StuckTicks, BlockPairs, PsDisturb,
  Rates, NetMax, ListenDisturb, PerBlock, Timeout, Hold, Busy

VARIABLES
  part,    \* the component this behaviour is of
  x1, x2, x3, x4, x5, x6, x7, x8, x9, x10, x11, x12, x13, x14, x15, x16, x17   \* its variables

Ring == INSTANCE TxIqRing WITH
  made <- x1, feed <- x2, hSeen <- x3, tSeen <- x4, slot <- x5, head <- x6, tail <- x7, live
  <- x8, sender <- x9, running <- x10, phase <- x11, drops <- x12, prelink <- x13, sent <-
  x14, wire <- x15, h <- x16
PS == INSTANCE PureSignal WITH
  enable <- x1, att <- x2, auto <- x3, wire <- x4, flow <- x5, key <- x6, tuned <- x7, keyed
  <- x8, over <- x9, fill <- x10, slot <- x11, gui <- x12, tick <- x13, cal <- x14, gain <-
  x15, touched <- x16, h <- x17
Listener == INSTANCE P2Listener WITH
  device <- x1, rate <- x2, txOn <- x3, psOn <- x4, psTxmode <- x5, command <- x6, streams
  <- x7, beat <- x8, net <- x9, acc <- x10, fed <- x11, last <- x12, changes <- x13
Pacing == INSTANCE TxPacing WITH
  credit <- x1, clockOk <- x2, at <- x3, left <- x4, next <- x5, fill <- x6, streaming <-
  x7, calm <- x8, backlog <- x9

ASSUME PartAssumptions ==
  /\ Ring!RingAssumption
  /\ PS!PsAssumption
  /\ Listener!ListenerAssumption
  /\ Pacing!PacingAssumption

\* A component with fewer variables leaves the last of them at 0.
Rest16 == <<x17>>
Rest13 == <<x14, x15, x16, x17>>
Rest9 == <<x10, x11, x12, x13, x14, x15, x16, x17>>
None16 == x17 = 0
None13 == None16 /\ x14 = 0 /\ x15 = 0 /\ x16 = 0
None9 == None13 /\ x10 = 0 /\ x11 = 0 /\ x12 = 0 /\ x13 = 0

Init ==
  \/ part = "ring" /\ Ring!Init /\ None16
  \/ part = "ps" /\ PS!Init
  \/ part = "listener" /\ Listener!Init /\ None13
  \/ part = "pacing" /\ Pacing!Init /\ None9

Next ==
  \/ part = "ring" /\ UNCHANGED <<part, Rest16>> /\ Ring!Emit
  \/ part = "ring" /\ UNCHANGED <<part, Rest16>> /\ Ring!ReadIndices
  \/ part = "ring" /\ UNCHANGED <<part, Rest16>> /\ Ring!FillSlot
  \/ part = "ring" /\ UNCHANGED <<part, Rest16>> /\ Ring!Publish
  \/ part = "ring" /\ UNCHANGED <<part, Rest16>> /\ Ring!Wake
  \/ part = "ring" /\ UNCHANGED <<part, Rest16>> /\ Ring!SendPacket
  \/ part = "ring" /\ UNCHANGED <<part, Rest16>> /\ Ring!Advance
  \/ part = "ring" /\ UNCHANGED <<part, Rest16>> /\ Ring!Start
  \/ part = "ring" /\ UNCHANGED <<part, Rest16>> /\ Ring!Arm
  \/ part = "ring" /\ UNCHANGED <<part, Rest16>> /\ Ring!Open
  \/ part = "ring" /\ UNCHANGED <<part, Rest16>> /\ Ring!Close
  \/ part = "ring" /\ UNCHANGED <<part, Rest16>> /\ Ring!Stop
  \/ part = "ring" /\ UNCHANGED <<part, Rest16>> /\ Ring!Join
  \/ part = "ring" /\ UNCHANGED <<part, Rest16>> /\ Ring!TakeStats
  \/ part = "ps" /\ UNCHANGED part /\ \E e \in BOOLEAN, a \in Settings : PS!Set(e, a)
  \/ part = "ps" /\ UNCHANGED part /\ PS!SetWire
  \/ part = "ps" /\ UNCHANGED part /\ PS!Arm
  \/ part = "ps" /\ UNCHANGED part /\ PS!Disarm
  \/ part = "ps" /\ UNCHANGED part /\ PS!ClearWire
  \/ part = "ps" /\ UNCHANGED part /\ PS!SetAuto
  \/ part = "ps" /\ UNCHANGED part /\ \E k \in {"off"} \cup PsKeys : PS!Slot(k)
  \/ part = "ps" /\ UNCHANGED part /\ PS!Retune
  \/ part = "ps" /\ UNCHANGED part /\ PS!Key
  \/ part = "ps" /\ UNCHANGED part /\ PS!Decide
  \/ part = "ps" /\ UNCHANGED part /\ PS!PutAtt
  \/ part = "ps" /\ UNCHANGED part /\ PS!RadioObeys
  \/ part = "ps" /\ UNCHANGED part /\ PS!Feedback
  \/ part = "listener" /\ UNCHANGED <<part, Rest13>> /\ Listener!Configure
  \/ part = "listener" /\ UNCHANGED <<part, Rest13>> /\ Listener!SendReceiveSpecific
  \/ part = "listener" /\ UNCHANGED <<part, Rest13>> /\ Listener!Deliver
  \/ part = "listener" /\ UNCHANGED <<part, Rest13>> /\ Listener!Lose
  \/ part = "listener" /\ UNCHANGED <<part, Rest13>> /\ Listener!Beat
  \/ part = "listener" /\ UNCHANGED <<part, Rest13>> /\ Listener!HandleDdc
  \/ part = "listener" /\ UNCHANGED <<part, Rest13>> /\ Listener!HandleMic
  \/ part = "pacing" /\ UNCHANGED <<part, Rest9>> /\ Pacing!Tick
  \/ part = "pacing" /\ UNCHANGED <<part, Rest9>> /\ Pacing!CreditClock
  \/ part = "pacing" /\ UNCHANGED <<part, Rest9>> /\ Pacing!Weather
  \/ part = "pacing" /\ UNCHANGED <<part, Rest9>> /\ Pacing!Produce
  \/ part = "pacing" /\ UNCHANGED <<part, Rest9>> /\ Pacing!Pace
  \/ part = "pacing" /\ UNCHANGED <<part, Rest9>> /\ Pacing!ClockTicks
  \/ part = "pacing" /\ UNCHANGED <<part, Rest9>> /\ Pacing!ClockLost
  \/ part = "pacing" /\ UNCHANGED <<part, Rest9>> /\ Pacing!WakeUp

vars == <<part, x1, x2, x3, x4, x5, x6, x7, x8, x9, x10, x11, x12, x13, x14, x15, x16, x17>>

Spec == Init /\ [][Next]_vars

\* The fairness each component's own FairSpec states, one condition for several of
\* them: only one runs in a behaviour.
FairSpec ==
  /\ Spec
  /\ WF_vars(\/ part = "ps" /\ UNCHANGED part /\ PS!TxStep
             \/ part = "listener" /\ UNCHANGED <<part, Rest13>> /\ Listener!SendReceiveSpecific
             \/ part = "pacing" /\ UNCHANGED <<part, Rest9>> /\ Pacing!Tick
             \/ part = "ring" /\ UNCHANGED <<part, Rest16>> /\ (Ring!ReadIndices \/ Ring!FillSlot \/ Ring!Publish))
  /\ WF_vars(\/ part = "ps" /\ UNCHANGED part /\ PS!GuiStep
             \/ part = "listener" /\ UNCHANGED <<part, Rest13>> /\ (Listener!Deliver \/ Listener!Lose)
             \/ part = "pacing" /\ UNCHANGED <<part, Rest9>> /\ Pacing!CreditClock
             \/ part = "ring" /\ UNCHANGED <<part, Rest16>> /\ Ring!SenderStep)
  /\ WF_vars(\/ part = "ps" /\ UNCHANGED part /\ PS!AnySlot
             \/ part = "listener" /\ UNCHANGED <<part, Rest13>> /\ Listener!Beat
             \/ part = "pacing" /\ UNCHANGED <<part, Rest9>> /\ Pacing!FeedStep)
  /\ WF_vars(\/ part = "ps" /\ UNCHANGED part /\ PS!RadioObeys
             \/ part = "listener" /\ UNCHANGED <<part, Rest13>> /\ (Listener!HandleDdc \/ Listener!HandleMic))
  /\ WF_vars(part = "ps" /\ UNCHANGED part /\ PS!Feedback)
  /\ SF_vars(\/ part = "ps" /\ UNCHANGED part /\ PS!Attempt
             \/ part = "listener" /\ UNCHANGED <<part, Rest13>> /\ Listener!Deliver)

-----------------------------------------------------------------------------
(* The properties of the components.                                       *)

\* Every component keeps its types.
TypeOK ==
  CASE part = "ring" -> Ring!TypeOK
    [] part = "ps" -> PS!TypeOK
    [] part = "listener" -> Listener!TypeOK
    [] part = "pacing" -> Pacing!TypeOK

\* The TX-IQ ring: the statistics are true,
\* it is a queue that may lose (the refinement of TxIqQueue), and what waits is sent.
AccountedFor == part = "ring" => Ring!AccountedFor
RingIsAQueue ==
  /\ part = "ring" => Ring!Promise!Init
  /\ [][part = "ring" => [Ring!Promise!Next]_(Ring!Promise!vars)]_vars
AcceptedIsSent == (part = "ring" /\ Ring!Waits) ~> (part = "ring" => Ring!SentOrShut)

\* PureSignal: no block of two overs, the calibrator comes back, the attenuator settles.
NoMixedBlock == part = "ps" => PS!NoMixedBlock
CalibrationResumes ==
  (part = "ps" /\ PS!CanCalibrate /\ PS!SwitchedOff)
    ~> (part = "ps" => (PS!SwitchedOff => ~PS!CanCalibrate))
AttenuatorSettles ==
  <>[](part = "ps" /\ PS!Steady /\ PS!Agree) => <>[](part = "ps" => PS!Settled)

\* The listener feeds the demodulator at its pace.
AudioKeepsItsPace == <>[](part = "listener" => Listener!AtPace)

\* The feed is never far ahead of the radio, and comes back to its clock.
LeadIsBounded == part = "pacing" => Pacing!LeadIsBounded
ClockIsFollowed ==
  <>[](part = "pacing" /\ Pacing!Undisturbed) => <>[](part = "pacing" => Pacing!Followed)
=============================================================================
