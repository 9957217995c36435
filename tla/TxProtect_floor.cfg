SPECIFICATION Spec
CONSTANTS
  AllowOob = FALSE
  SwrProtect = TRUE
  PaWatts = 1000
  SwrAlarm = 30
  Thermal = FALSE
  Fwd <- MCFwd
  Rev <- MCRev
INVARIANTS
  GarbageNeverTrips
