SPECIFICATION Spec
CONSTANTS
  Clients = {1, 2}
  TciDisturb = 4
INVARIANTS
  NoDanglingKey
