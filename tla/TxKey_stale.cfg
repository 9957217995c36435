SPECIFICATION Spec
CONSTANTS
  AllowOob = FALSE
  SwrProtect = TRUE
  Buttons = {"mox"}
  Modes = {"SSB", "CW"}
  Hang = 1
  Cutoff = 1
  PttDelay = 1
  MaxText = 1
  MaxSends = 1
  Bands = {TRUE}
  Coupler = {FALSE}
INVARIANTS
  TextSitsInItsModeOnly
