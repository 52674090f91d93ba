SPECIFICATION Spec
CONSTANTS
  Requirements = {"r1", "r2", "r3"}
  Input <- MCInput
  Key <- MCKey
  Formats = {"PYTEST", "PLAYWRIGHT_TS", "GHERKIN"}
  FormatLists <- MCFormatLists
  PythonFormats = {"PYTEST"}
  ScriptFormats = {"PLAYWRIGHT_TS"}
  MaxAttempts = 3
  TTL = 1
  MaxTime = 2
  None = None
INVARIANTS
  CasesMatchKey
  StoredScriptsChecked
PROPERTY
  RequirementEnds
