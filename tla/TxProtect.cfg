SPECIFICATION Spec
CONSTANTS
  AllowOob = FALSE
  SwrProtect = TRUE
  PaWatts = 1000
  SwrAlarm = 30
  Thermal = TRUE
  Fwd <- MCFwd
  Rev <- MCRev
INVARIANTS
  TypeOK
  
  CleanOverNeverTrips
  DangerUnkeys
  TuneToleratesMismatch
PROPERTIES
  LatchHeldUntilRelease
