SPECIFICATION FairSpec
CONSTANTS
  barefoot = barefoot
  full = full
  feedback = feedback
  f1 = f1
  f2 = f2
  NoTx = NoTx
  NoPs = NoPs
  TxStates = {full}
  PaStates = {full}
  PsStates = {}
  Freqs = {f1, f2}
  Lossy = TRUE
PROPERTIES
  RadioConverges
  UnkeyReachesTheRadio
