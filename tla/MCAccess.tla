------------------------------ MODULE MCAccess ------------------------------
(* Two requests of one client, one connection, two tenants.  The administrator has a *)
(* role in both, the tester in the first, the guest no row and no role at first; the *)
(* global administrator may do without a tenant.                                     *)
EXTENDS Access

CONSTANTS r1, r2, admin, tester, guest, root, t1, t2, k1

MCSeeded == {<<admin, t1>>, <<admin, t2>>, <<tester, t1>>}

Request(kind, id, tenant, whom) ==
  [kind |-> kind, id |-> id, kid |-> k1, tenant |-> tenant, whom |-> whom]

MCAsks ==
  {Request("token", guest, None, guest), Request("tenants", guest, t1, guest),
   Request("create", admin, t1, guest), Request("invite", admin, t1, guest),
   Request("assign", admin, t2, guest), Request("revoke", admin, t1, tester),
   Request("assign", tester, t1, tester), Request("assign", root, None, guest),
   Request("logout", admin, t2, guest), Request("tenants", tester, t2, tester)}
=============================================================================
