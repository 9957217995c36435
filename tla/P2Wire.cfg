SPECIFICATION Spec
CONSTANTS
  barefoot = barefoot
  full = full
  feedback = feedback
  f1 = f1
  f2 = f2
  NoTx = NoTx
  NoPs = NoPs
  TxStates = {barefoot, full}
  PaStates = {full}
  PsStates = {feedback}
  Freqs = {f1, f2}
  Lossy = FALSE
INVARIANTS
  SettledWireIsConfig
  StoppedIsParked
