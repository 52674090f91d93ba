SPECIFICATION FairSpec
CONSTANTS
  r1 = r1
  None = None
  Gone = Gone
  GenJobs = {j1}
  TriggerJobs = {t1}
  Reqs = {r1}
  Deletable = {r1}
  Erasable = {r1}
  Workers = {w1}
  MaxDelivery = 2
  EnumColumns = TRUE
  EnforceFK = FALSE
  Faults = {"exception", "crash", "lockloss", "shutdown"}
  Requested <- MCRequested
  Prefix <- MCPrefix
PROPERTIES
  HandlerEnds
  MessageSettles
