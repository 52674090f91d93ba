SPECIFICATION Spec
CONSTANTS
  None = None
  Cycles = {c1}
  Assignments = {a1}
  Files = {f1}
  Requests = {q1, q2, q3}
  Outcomes = {"NOT_STARTED", "PASSED"}
SYMMETRY Symmetry
INVARIANTS
  EvidenceIsBacked
  StatusMatchesResult
PROPERTIES
  LockSettles
  NoBlindOverwrite
