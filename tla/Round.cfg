SPECIFICATION Spec
CONSTANTS
  Levels = {0, 2, 5}
  MaxPackets = 3
  Dials = {1, 2}
  Drives = {1}
  Atts = {"a"}
  RingMax = 1
  P1Disturb = 2
  Clients = {1, 2}
  TciDisturb = 4
  Centres = {1, 2}
  Latency = 1
  Chunk = 2
  Block = 4
  NetMax = 2
  StreamDisturb = 3
  Dial = {2, 4, 7, 9}
  Bands <- MCBands
  Half = 4
  Margin = 1
  Modes = {"usb", "cw"}
  Wide = {1, 2}
  Watts = {10, 20}
  VfoDisturb = 3
  Radios = {"g2e", "hl2"}
  G2E = "g2e"
  Values = {"a", "b"}
  OldSeed = "a"
  StartDisturb = 2
  P1Radios = {"hl2"}
  P2Radios = {"g2e", "10e"}
  Supported = {"hl2", "g2e"}
  Interfaces = 2
  InSubnet = {2}
  LinkLocal = {1}
  MaxDevices = 4
  MaxRounds = 1
  Guests = {"log", "skimmer"}
  Tunings = {2, 5}
  HalfSpan = 3
  Emissions = {"usb", "cw"}
  Widths = {1, 2}
  Polled = {"drive"}
  Stored = {"lock"}
  Amounts = {0, 1}
  Nothing = Nothing
  ClientsDisturb = 3
  MicRing = 3
  ExtRing = 2
  Keep = 1
  MaxSamples = 4
  AudioDisturb = 3
  Filters = {1, 2}
  Offsets = {0, 3}
  Pitches = {6, 7}
  Volumes = {0, 1, 2}
  Tops = {80, 90}
  Profiles = {"flat", "low", "high"}
  Flat = "flat"
  Plain = {"anf"}
  RxDisturb = 4
  ServerWidths = {8, 9}
  Columns = {0, 4, 8}
  MaxFrames = 3
  MaxCalls = 2
  Tries = 2
  Apply = 2
  Settle = 3
  MaxDelay = 1
  MaxQueue = 2
INVARIANTS
  PeakIsTaken
  RoundConverges
  KeyedIqIsFresh
  CountedUnlessCut
  StampsAreTrue
  DialIsHeard
  SwapIsUndoneByItself
  SettingsReturn
  BestOfEach
  ClientsKnow
  AudioIsTheOvers
  HeardAsSet
  AudioFollowsKey
  LeftAsFound
  OneLayout
