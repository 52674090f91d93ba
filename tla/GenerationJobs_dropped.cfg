SPECIFICATION Spec
CONSTANTS
  r1 = r1
  None = None
  Gone = Gone
  GenJobs = {j1}
  TriggerJobs = {}
  Reqs = {r1}
  Deletable = {}
  Erasable = {}
  Workers = {w1}
  MaxDelivery = 2
  EnumColumns = TRUE
  EnforceFK = FALSE
  Faults = {}
  Requested <- MCRequested
  Prefix <- MCPrefix
INVARIANT NoJobDropped
