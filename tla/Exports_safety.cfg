SPECIFICATION ReviewAndExport
CONSTANTS
  None = None
  Scripts = {s1}
  Users = {u1}
  Requests = {q1, q2}
  MaxDelivery = 2
  ExportRequests = {e1, e2}
  ExportFormats = {"selenium_python"}
  ExportRows <- MCExportRows
  BulkLists <- MCBulkLists
  TestCases <- MCTestCases
  Pregenerated <- MCPregenerated
SYMMETRY Symmetry
CHECK_DEADLOCK FALSE
INVARIANTS
  DecisionRecorded
  DecidedWasReviewed
  ArchiveAccounts
  LinkIsFresh
PROPERTIES
  DecisionSettles
