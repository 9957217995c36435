\* A filter memory does not survive a start that found no radio.
SPECIFICATION Spec
CONSTANTS
  Radios = {"g2e", "hl2"}
  G2E = "g2e"
  Values = {"a", "b"}
  OldSeed = "a"
  StartDisturb = 2
INVARIANTS
  FiltersReturn
