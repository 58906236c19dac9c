SPECIFICATION FairSpec
CHECK_DEADLOCK FALSE
CONSTANTS
  Webhooks = {h1}
  Messages = {m1}
  Dispatchers = {d1, d2}
  Workers = {w1, w2}
  Delays = 2
  MaxAttempts = 2
  MaxJobs = 1
  MaxAdminRetries = 1
  MaxDispatches = 2
INVARIANTS
  NoSubscriberForgotten
PROPERTIES
  KeepsPromise
  DeliverySettles
