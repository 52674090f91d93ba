SPECIFICATION Spec
CONSTANTS
  r1 = r1
  r2 = r2
  admin = admin
  guest = guest
  tester = tester
  root = root
  t1 = t1
  t2 = t2
  None = None
  k1 = k1
  Requests = {r1, r2}
  Ids = {admin, tester, guest, root}
  Tenants = {t1, t2}
  Work = {"create", "invite", "assign", "revoke"}
  Asks <- MCAsks
  Kids = {k1}
  Conns = {1}
  GlobalAdmins = {root}
  Seeded <- MCSeeded
  MaxRequests = 1
  WindowSeconds = 1
  MaxFailures = 1
  ThrottleSeconds = 1
  Ttl = 0
  Timeout = 1
INVARIANTS
  OwnTenantOnly
  GrantedByRole
PROPERTIES
  FreshKeys
  RequestsEnd
