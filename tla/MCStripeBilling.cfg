SPECIFICATION Spec
CONSTANTS
  Clients = {c1, c2}
  Refunds = {r1, r2}
  Subscriptions = {s1, s2}
  Methods = {m1}
  Customers = {cus1, cus2}
  Events = {e1}
  Workers = {w1, w2, w3}
  Uses = {{"refunds"}, {"subscriptions"}, {"events"}}
  Nobody = Nobody
INVARIANTS
  BillingTypeOK
  LockExcludes
PROPERTIES
  RecordsHold
  EventProcessed
