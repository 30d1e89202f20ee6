SPECIFICATION Spec
CONSTANTS
  Sends = {s1}
  Events = {e1}
  Urls = {u1}
  MaxRetries = 1
  BaseDelay = 1
  Timeout = 1
  BreakerEnabled = TRUE
  Threshold = 1
  Cooldown = 1
  PartialUpserts = FALSE
INVARIANT UnsettledRowHasSend
