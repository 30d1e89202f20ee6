SPECIFICATION Spec
CONSTANTS
  Clients = {c1, c2}
  Intents = {i1}
SYMMETRY Symmetry
INVARIANTS
  TypeOK
  StoreAgrees
  ChargedOnce
  SucceededIsPaid
PROPERTIES
  FinalIsForEver
  AmountKept
