SPECIFICATION FairQueueSpec
CONSTANTS
  Sends = {w, d}
  Worker = w
  Jobs = {j1, j2}
  Events = {e1}
  Urls = {u1}
  MaxRetries = 1
  BaseDelay = 1
  Timeout = 0
  BreakerEnabled = TRUE
  Threshold = 1
  Cooldown = 0
  PartialUpserts = TRUE
  MaxStalled = 1
INVARIANTS
  QueueTypeOK
  
  QueuedRowHasOwner
PROPERTIES
  JobFinishes
