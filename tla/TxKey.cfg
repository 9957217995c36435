SPECIFICATION Spec
CONSTANTS
  AllowOob = FALSE
  SwrProtect = TRUE
  Buttons = {"mox", "tt"}
  Modes = {"SSB", "CW"}
  Hang = 1
  Cutoff = 1
  PttDelay = 1
  MaxText = 1
  MaxSends = 1
  Bands = {FALSE, TRUE}
  Coupler = {FALSE}
INVARIANTS
  ButtonsShowIntents
  OutageLeavesNothing
  CutoffBoundsTheOver
