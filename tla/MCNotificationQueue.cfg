SPECIFICATION Spec
CONSTANTS
  Notes = {n1}
  Workers = {w1, w2}
  Nobody = nobody
  Providers = 3
  Attempts = 2
  MaxStalled = 2
INVARIANTS
  TypeOK
  SentIsTrue
  SentOnce
  FailedWasTried
  UnsettledHasOwner
PROPERTY RowsSettle
CHECK_DEADLOCK FALSE
