SPECIFICATION Spec
CONSTANTS
  Clients = {c1}
  Intents = {i1}
INVARIANT HeldFundsCaptured
