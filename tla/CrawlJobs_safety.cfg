SPECIFICATION Spec
CONSTANTS
  Jobs = {"j1"}
  Workers = {"w1", "w2"}
  Pages = {"p1", "p2"}
  MaxDelivery = 3
  None = None
INVARIANTS
  MapBackedByRows
PROPERTY
  CrawlSettles
CHECK_DEADLOCK FALSE
