SPECIFICATION Spec
CONSTANTS
  Clients = {c1, c2}
  Tokens = {t1, t2}
  MaxSessions = 1
  MaxVersion = 1
  SessionsOutlive = TRUE
  BlacklistSurvives = TRUE
SYMMETRY Symmetry
INVARIANTS
  TypeOK
  RevokedStaysRevoked
  RedeemedOnce
  LimitHolds
  SessionsVisible
PROPERTIES
  AccountStaysDeleted
CONSTRAINT OneException
