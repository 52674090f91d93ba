SPECIFICATION SapSpec
CONSTANTS
  Urls = {"launchpad", "app"}
  Launchpad = "launchpad"
  Launchpads <- MCLaunchpads
  TileFilter = {"fi"}
  PageLimits = {1, 3}
  PageTypes = {"LIST", "FORM", "UNKNOWN"}
  RowSelectors = 2
  EditTexts = 1
  CreateTexts = 1
  Batch = 5
INVARIANTS
  EdgesHavePages
  PageBudget
CHECK_DEADLOCK FALSE
