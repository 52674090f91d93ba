SPECIFICATION Spec
CONSTANTS
  Accounts = {"u1", "u2"}
  Testers = {"u1"}
  Approvers = {"u1", "u2"}
  MaxBundles = 1
  MaxCases = 2
  Editable = {3}
  LLMTests <- MCLLMTests
  Writers = {"w1"}
  Runs = {"r1"}
  None = None
INVARIANTS
  TypeOK
  EvidenceMatchesFile
  MatrixTellsVerdict
CHECK_DEADLOCK FALSE
