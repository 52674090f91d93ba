SPECIFICATION Spec
CONSTANTS
  r1 = r1
  None = None
  Gone = Gone
  GenJobs = {j1}
  TriggerJobs = {}
  Reqs = {r1, r2}
  Deletable = {}
  Erasable = {r1}
  Workers = {w1, w2}
  MaxDelivery = 2
  EnumColumns = TRUE
  EnforceFK = FALSE
  Faults = {"exception", "crash", "lockloss", "shutdown"}
  Requested <- MCRequested
  Prefix <- MCPrefix
SYMMETRY Symmetry
INVARIANTS
  NoOrphanArtifacts
  CompletedIsIndexed
  IndexListsStored
  RowMatchesDocument
  MarkedHasRow
  AckedJobIsStarted
  OneRowPerAttempt
PROPERTY
  ImplementsJobLifecycle
