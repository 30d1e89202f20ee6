SPECIFICATION Spec
CONSTANTS
  Clients = {c1, c2}
  Tokens = {t1, t2}
  MaxSessions = 0
  MaxVersion = 1
  SessionsOutlive = TRUE
  BlacklistSurvives = TRUE
PROPERTY LogoutAllHolds
