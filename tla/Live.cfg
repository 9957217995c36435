SPECIFICATION FairSpec
CONSTANTS
  Slots = 2
  Width = 4
  MaxMade = 5
  MaxAtt = 7
  Gains = {5}
  Settings = {0}
  PsKeys = {"voice", "tune"}
  StuckTicks = 2
  BlockPairs = 2
  PsDisturb = 2
  Rates = {1, 8}
  NetMax = 2
  ListenDisturb = 3
  PerBlock = 2
  Timeout = 6
  Hold = 8
  Busy = 1
INVARIANTS
  AccountedFor
  
  LeadIsBounded
PROPERTIES
  RingIsAQueue
  AcceptedIsSent
  CalibrationResumes
  AttenuatorSettles
  AudioKeepsItsPace
  ClockIsFollowed
