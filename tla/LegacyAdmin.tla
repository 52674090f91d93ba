----------------------------- MODULE LegacyAdmin -----------------------------
(***************************************************************************)
(* User administration of the legacy UAT application: accounts, roles and  *)
(* the rule that one administrator stays.  A request reads who is acting,  *)
(* then looks at the target and counts the active administrators, and only *)
(* then writes; requests of several administrators interleave between      *)
(* these statements.                                                       *)
(***************************************************************************)
EXTENDS Naturals, FiniteSets

CONSTANTS
  Users, Root,         \* user ids, and the one the application starts with
  Roles, Admin,
  Requests             \* those that may be open at once

ASSUME AdminAssumption == Root \in Users /\ Admin \in Roles

VARIABLES
  account,  \* table users: "none", "active" or "inactive"
  roles,    \* table user_roles
  req       \* the open requests: [pc, me, target, new, seen, fresh]

avars == <<account, roles, req>>

Free == [pc |-> "free", me |-> Root, target |-> Root, new |-> {}, seen |-> {}, fresh |-> TRUE]

\* ensure_admin; a later start finds the user and does nothing.
AdminInit ==
  /\ account = [u \in Users |-> IF u = Root THEN "active" ELSE "none"]
  /\ roles = [u \in Users |-> IF u = Root THEN {Admin} ELSE {}]
  /\ req = [q \in Requests |-> Free]

ActiveAdmins == {u \in Users : account[u] = "active" /\ Admin \in roles[u]}

-----------------------------------------------------------------------------

\* _current_user and _require_roles: a token, with or without a login since the last
\* deactivation, is checked against the rows.
CurrentUser(me, allowed) == account[me] = "active" /\ roles[me] \cap allowed # {}

BeginRequest(q, me) ==
  /\ req[q].pc = "free"
  /\ CurrentUser(me, {Admin})
  /\ req' = [req EXCEPT ![q] = [Free EXCEPT !.pc = "begun", !.me = me]]
  /\ UNCHANGED <<account, roles>>

Check(q, target, pc, new) ==
  /\ req[q].pc = "begun" /\ account[target] # "none"
  /\ req' = [req EXCEPT ![q] = [@ EXCEPT !.pc = pc, !.target = target, !.new = new,
                                         !.seen = roles[target]]]
  /\ UNCHANGED <<account, roles>>

AnotherAdminRemains == Cardinality(ActiveAdmins) > 1

CheckDeactivate(q, target) ==
  /\ target # req[q].me
  /\ Admin \in roles[target] => AnotherAdminRemains
  /\ Check(q, target, "deactivate", {})

CheckActivate(q, target) == Check(q, target, "activate", {})

\* Mutant: the check is made only for the administrator's own account.
CheckRoles_OwnOnly(q, target, new) ==
  /\ new # {}
  /\ (target = req[q].me /\ Admin \in roles[target] \ new) => AnotherAdminRemains
  /\ Check(q, target, "roles", new)

CheckRoles(q, target, new) ==
  /\ new # {}
  /\ Admin \in roles[target] \ new => AnotherAdminRemains
  /\ Check(q, target, "roles", new)

\* Whatever a request that checked before has seen is no longer current.
Commit(q) ==
  req' = [p \in Requests |-> IF p = q THEN Free
                             ELSE [req[p] EXCEPT !.fresh = (req[p].pc \in {"free", "begun"})]]

SetActive(q) ==
  /\ req[q].pc \in {"activate", "deactivate"}
  /\ account' = [account EXCEPT ![req[q].target] =
                   IF req[q].pc = "activate" THEN "active" ELSE "inactive"]
  /\ Commit(q)
  /\ UNCHANGED roles

\* The rows are deleted and the new ones inserted.  Rows that another update commits
\* while the deletion waits for it stay, and the primary key refuses to insert one of
\* them again.
UpdateRoles(q) ==
  /\ req[q].pc = "roles"
  /\ \E kept \in {{}, roles[req[q].target] \ req[q].seen} :
       /\ kept \cap req[q].new = {}
       /\ roles' = [roles EXCEPT ![req[q].target] = kept \cup req[q].new]
  /\ Commit(q)
  /\ UNCHANGED account

\* The account is committed before its roles are: it has none if a role is unknown.
CreateUser(q, target, new) ==
  /\ req[q].pc = "begun" /\ account[target] = "none" /\ new # {}
  /\ account' = [account EXCEPT ![target] = "active"]
  /\ req' = [req EXCEPT ![q] = [@ EXCEPT !.pc = "created", !.target = target, !.new = new]]
  /\ UNCHANGED roles

AssignRoles(q) ==
  /\ req[q].pc = "created"
  /\ roles[req[q].target] \cap req[q].new = {}
  /\ roles' = [roles EXCEPT ![req[q].target] = @ \cup req[q].new]
  /\ Commit(q)
  /\ UNCHANGED account

\* A refusal, a unique key, an unknown role or any other error: nothing more is stored.
EndRequest(q) ==
  /\ req[q].pc # "free"
  /\ req' = [req EXCEPT ![q] = Free]
  /\ UNCHANGED <<account, roles>>

AdminRequest(q) ==
  \/ \E u \in Users : BeginRequest(q, u) \/ CheckDeactivate(q, u) \/ CheckActivate(q, u)
  \/ \E u \in Users, new \in SUBSET Roles : CheckRoles(q, u, new) \/ CreateUser(q, u, new)
  \/ SetActive(q) \/ UpdateRoles(q) \/ AssignRoles(q) \/ EndRequest(q)

AdminNext == \E q \in Requests : AdminRequest(q)

\* The administration alone.
AdminSpec == AdminInit /\ [][AdminNext]_avars

-----------------------------------------------------------------------------

AdminTypeOK ==
  /\ account \in [Users -> {"none", "active", "inactive"}]
  /\ roles \in [Users -> SUBSET Roles]
  /\ req \in [Requests -> [pc : {"free", "begun", "activate", "deactivate", "roles", "created"},
                           me : Users, target : Users, new : SUBSET Roles,
                           seen : SUBSET Roles, fresh : BOOLEAN]]
  /\ \A u \in Users : account[u] = "none" => roles[u] = {}

\* The last active administrator goes only by a request that another one has overtaken
\* since it counted: no sequence of deactivations and role changes, one at a time, of
\* oneself or of others, of active accounts or inactive ones, ends without one
\* (admin_users_deactivate, admin_users_update_roles).
LastAdminGuard ==
  [][ActiveAdmins # {} /\ ActiveAdmins' = {} =>
       \E q \in Requests : ~req[q].fresh /\ req'[q] = Free]_avars

-----------------------------------------------------------------------------
(* The inductive invariant *)

\* A request that looked at an account finds it there.  Unless another one committed
\* since, it takes away an administrator only with a second one in the table.
GuardInv ==
  \A q \in Requests :
    /\ req[q].pc \notin {"free", "begun"} => account[req[q].target] # "none"
    /\ \/ req[q].fresh /\ req[q].pc = "deactivate" /\ Admin \in roles[req[q].target]
       \/ req[q].fresh /\ req[q].pc = "roles" /\ Admin \in roles[req[q].target] \ req[q].new
       => AnotherAdminRemains

AdminInv == AdminTypeOK /\ GuardInv
=============================================================================
