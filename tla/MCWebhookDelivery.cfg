SPECIFICATION FairSpec
CONSTANTS
  Sends = {s1, s2}
  Events = {e1}
  Urls = {u1}
  MaxRetries = 3
  BaseDelay = 1
  Timeout = 1
  BreakerEnabled = TRUE
  Threshold = 2
  Cooldown = 1
  PartialUpserts = TRUE
INVARIANTS
  TypeOK
  ResultIsEarned
  DeliveredRowIsTrue
  UnsettledRowHasSend
  TripNeedsFailedSends
PROPERTIES
  NoNewTrafficWhileOpen
  CircuitRecovers
  PromiseKept
