SPECIFICATION AppSpec
CONSTANTS
  Urls = {"home", "form", "logout"}
  Base = "home"
  Foreign = {"logout"}
  Links <- MCLinks
  MaxPages = 5
  Explorers = {"e1"}
  Users = {"admin", "u1"}
  Root = "admin"
  Roles = {"Administrator", "QA"}
  Admin = "Administrator"
  Explorer = {"Administrator"}
  Requests = {"q1", "q2"}
INVARIANTS
  RescanReplaces
PROPERTY
  LastAdminGuard
CHECK_DEADLOCK FALSE
