------------------------------- MODULE Access -------------------------------
(***************************************************************************)
(* A validated request of the KAATS backend and the database.  It first    *)
(* authenticates on a pooled connection of its own (get_current_user:      *)
(* provision the user, resolve the tenant, look up the roles, commit),     *)
(* then takes a connection again, puts its tenant into SESSION_CONTEXT     *)
(* for the row-level security, and works there in one transaction.         *)
(*                                                                         *)
(* The context is set read-only and belongs to the connection: whether it  *)
(* is still there when the connection is used again is the pool's and the  *)
(* driver's choice.  A transaction is read committed with row versions;    *)
(* a flush waits for the keys that another transaction has written.        *)
(*                                                                         *)
(* The work is that of user_service, called as its router means to.        *)
(***************************************************************************)
EXTENDS TokenGate

CONSTANTS
  Conns,        \* the connections of the pool (pool_size and max_overflow)
  GlobalAdmins, \* identities with is_global_admin
  Seeded        \* the roles there are at first: <<identity, tenant>>

ASSUME SeedAssumption == Seeded \subseteq Ids \X Tenants /\ GlobalAdmins \subseteq Ids

VARIABLES
  users, \* table users: [email, oid]; oid is the identity or an invitation's placeholder
  roles, \* table user_roles: <<user, tenant>>
  conn,  \* which request has which connection
  ctx,   \* SESSION_CONTEXT of each connection
  tx,    \* what the open transaction of each request has flushed
  todo,  \* what it will flush next
  held   \* history: whether the caller has held a role in the tenant since it was validated

tables == <<users, roles>>
pool == <<conn, ctx>>
vars == <<gate, pc, ask, tables, pool, tx, todo, held>>

User(id) == [email |-> id, oid |-> <<id>>]
Placeholder(r, id) == [email |-> id, oid |-> <<"pending-invite", r>>]

\* The rows a transaction inserts into users and roles, and those it deletes.
Writes(us, rs, revoked) == [users |-> us, roles |-> rs, revoked |-> revoked]
NoWrites == Writes({}, {}, {})

Init ==
  /\ GateInit
  /\ users = {User(i) : i \in GlobalAdmins \cup {s[1] : s \in Seeded}}
  /\ roles = {<<User(s[1]), s[2]>> : s \in Seeded}
  /\ conn = [c \in Conns |-> None] /\ ctx = [c \in Conns |-> None]
  /\ tx = [r \in Requests |-> NoWrites] /\ todo = [r \in Requests |-> NoWrites]
  /\ held = [r \in Requests |-> FALSE]

\* Its token was accepted and it is not answered yet.
Validated(r) == pc[r] \notin {"idle", "key", "lock", "fetch", "fetched", "done"}

HasRole(r, rs) == <<User(ask[r].id), ask[r].tenant>> \in rs

-----------------------------------------------------------------------------
(* Sessions *)

\* The first statement of a session takes a connection, or waits for one.
Acquire(r, from, to) ==
  /\ pc[r] = from
  /\ \E c \in Conns : conn[c] = None /\ conn' = [conn EXCEPT ![c] = r]
  /\ Goto(r, to)
  /\ held' = [held EXCEPT ![r] = @ \/ HasRole(r, roles)]
  /\ UNCHANGED <<gate, ask, tables, ctx, tx, todo>>

\* The context outlives the session, unless the connection is reset, recycled or one
\* of the overflow.
Release(r) ==
  /\ conn' = [c \in Conns |-> IF conn[c] = r THEN None ELSE conn[c]]
  /\ ctx' \in {ctx, [c \in Conns |-> IF conn[c] = r THEN None ELSE ctx[c]]}
  /\ tx' = [tx EXCEPT ![r] = NoWrites] /\ todo' = [todo EXCEPT ![r] = NoWrites]

\* What is not committed is rolled back.
Rollback(r) ==
  /\ Release(r)
  /\ Answer(r)
  /\ held' = [held EXCEPT ![r] = FALSE]
  /\ UNCHANGED <<gate, tables>>

Commit(r) ==
  LET rs == (roles \ tx[r].revoked) \cup tx[r].roles
  IN  /\ users' = users \cup tx[r].users
      /\ roles' = rs
      /\ held' = [o \in Requests |-> held[o] \/ (Validated(o) /\ HasRole(o, rs))]
      /\ Release(r)

\* No other open transaction has written one of the rows.
Unlocked(r) ==
  \A o \in Requests \ {r} :
    /\ {u.oid : u \in todo[r].users} \cap {u.oid : u \in tx[o].users} = {}
    /\ (todo[r].roles \cup todo[r].revoked) \cap (tx[o].roles \cup tx[o].revoked) = {}

\* A unique constraint fails, or the row to be deleted is gone.
Conflict(r) ==
  \/ {u.oid : u \in todo[r].users} \cap {u.oid : u \in users} # {}
  \/ todo[r].roles \cap roles # {}
  \/ ~(todo[r].revoked \subseteq roles)

Flush(r, from, to) ==
  /\ pc[r] = from /\ Unlocked(r)
  /\ IF Conflict(r)
       THEN Rollback(r)
       ELSE /\ tx' = [tx EXCEPT ![r] = todo[r]]
            /\ todo' = [todo EXCEPT ![r] = NoWrites]
            /\ Goto(r, to)
            /\ UNCHANGED <<gate, ask, tables, pool, held>>

\* Row-level security: what the request sees of the roles.  Nothing is hidden while
\* the context is not set.
Visible(r) ==
  {ro \in roles : \E c \in Conns : conn[c] = r /\ ctx[c] \in {None, ro[2]}}

-----------------------------------------------------------------------------
(* Authentication *)

\* upsert_user: a row with the caller's oid, be there one with the e-mail or not.
UpsertUser(r) ==
  /\ pc[r] = "select"
  /\ todo' = [todo EXCEPT ![r] = Writes({User(ask[r].id)} \ users, {}, {})]
  /\ Goto(r, "provision")
  /\ UNCHANGED <<gate, ask, tables, pool, tx, held>>

\* /auth/token commits and answers; it needs no role.
ExchangeToken(r) ==
  /\ pc[r] = "resolve" /\ ask[r].kind = "token"
  /\ users' = users \cup tx[r].users
  /\ Release(r)
  /\ Answer(r)
  /\ held' = [held EXCEPT ![r] = FALSE]
  /\ UNCHANGED <<gate, roles>>

\* Mutant: a role in any tenant will do.
Authorized_Anywhere(r) ==
  \/ ask[r].id \in GlobalAdmins
  \/ ask[r].tenant # None /\ \E ro \in Visible(r) : ro[1] = User(ask[r].id)

Authorized(r) ==
  \/ ask[r].id \in GlobalAdmins
  \/ ask[r].tenant # None /\ <<User(ask[r].id), ask[r].tenant>> \in Visible(r)

\* Mutant: the session that authenticates stays open.
GetCurrentUser_Nested(r) ==
  /\ pc[r] = "resolve" /\ ask[r].kind # "token"
  /\ Authorized(r)
  /\ users' = users \cup tx[r].users
  /\ tx' = [tx EXCEPT ![r] = NoWrites]
  /\ Goto(r, "session")
  /\ UNCHANGED <<gate, ask, roles, pool, todo, held>>

\* Without a header or a role only a global administrator goes on; the row of a
\* caller who is refused is rolled back with the rest.
GetCurrentUser(r) ==
  /\ pc[r] = "resolve" /\ ask[r].kind # "token"
  /\ IF Authorized(r)
       THEN Commit(r) /\ Goto(r, "session") /\ UNCHANGED <<gate, ask>>
       ELSE Rollback(r)

Logout(r) ==
  /\ pc[r] = "session" /\ ask[r].kind = "logout"
  /\ failures' = <<>>
  /\ Answer(r)
  /\ held' = [held EXCEPT ![r] = FALSE]
  /\ UNCHANGED <<window, jwks, answer, lock, withdrawn, tables, pool, tx, todo>>

\* A session of its own, without a tenant.
ListMyTenants(r) == pc[r] = "context" /\ ask[r].kind = "tenants" /\ Rollback(r)

-----------------------------------------------------------------------------
(* Work in the tenant *)

NeedsTenant(r) == ask[r].kind \in Work

TenantRequired(r) ==
  pc[r] = "session" /\ NeedsTenant(r) /\ ask[r].tenant = None /\ Rollback(r)

OpenSession(r) ==
  /\ NeedsTenant(r) => ask[r].tenant # None
  /\ ask[r].kind # "logout"
  /\ Acquire(r, "session", "context")

\* Mutant: a connection that has a context is taken as it is.
SetTenantContext_Once(r) ==
  /\ pc[r] = "context" /\ NeedsTenant(r)
  /\ ctx' = [c \in Conns |-> IF conn[c] = r /\ ctx[c] = None THEN ask[r].tenant ELSE ctx[c]]
  /\ Goto(r, "work")
  /\ UNCHANGED <<gate, ask, tables, conn, tx, todo, held>>

\* A read-only key cannot be set twice, be it to the same value.
SetTenantContext(r) ==
  /\ pc[r] = "context" /\ NeedsTenant(r)
  /\ IF \E c \in Conns : conn[c] = r /\ ctx[c] # None
       THEN Rollback(r)
       ELSE /\ ctx' = [c \in Conns |-> IF conn[c] = r THEN ask[r].tenant ELSE ctx[c]]
            /\ Goto(r, "work")
            /\ UNCHANGED <<gate, ask, tables, conn, tx, todo, held>>

\* A transaction that has read what it needs and will flush w, then commit.
Plan(r, w) ==
  /\ todo' = [todo EXCEPT ![r] = w]
  /\ Goto(r, "flush")
  /\ UNCHANGED <<gate, ask, tables, pool, tx, held>>

Working(r, kind) == pc[r] = "work" /\ ask[r].kind = kind
Known(r) == {u \in users : u.email = ask[r].whom}

\* _assign_role_internal: nothing if the role is there.
AssignRole(r, u) == Plan(r, Writes({}, {<<u, ask[r].tenant>>} \ Visible(r), {}))

\* create_user and invite_user: whoever is known by the e-mail, the first row of
\* those found, is only given the role.
AddUser(r, new) ==
  IF Known(r) = {} THEN Plan(r, Writes({new}, {<<new, ask[r].tenant>>}, {}))
                   ELSE \E u \in Known(r) : AssignRole(r, u)

CreateUser(r) == Working(r, "create") /\ AddUser(r, User(ask[r].whom))
InviteUser(r) == Working(r, "invite") /\ AddUser(r, Placeholder(r, ask[r].whom))

Assign(r) ==
  /\ Working(r, "assign")
  /\ IF Known(r) = {} THEN Rollback(r) ELSE \E u \in Known(r) : AssignRole(r, u)

Revoke(r) ==
  /\ Working(r, "revoke")
  /\ LET theirs == {ro \in Visible(r) : ro[1] \in Known(r) /\ ro[2] = ask[r].tenant}
     IN  IF theirs = {} THEN Rollback(r) ELSE \E ro \in theirs : Plan(r, Writes({}, {}, {ro}))

CommitWork(r) ==
  /\ pc[r] = "commit"
  /\ users' = users \cup tx[r].users
  /\ roles' = (roles \ tx[r].revoked) \cup tx[r].roles
  /\ held' = [o \in Requests |-> o # r /\ (held[o] \/ (Validated(o) /\ HasRole(o, roles')))]
  /\ Release(r)
  /\ Answer(r)
  /\ UNCHANGED gate

\* A statement raises, or no connection came free within pool_timeout.
DatabaseError(r) ==
  /\ Validated(r)
  /\ Rollback(r)

-----------------------------------------------------------------------------

database == <<tables, pool, tx, todo, held>>

Proceed(r) ==
  \/ Validate(r) /\ UNCHANGED database
  \/ Acquire(r, "valid", "select") \/ UpsertUser(r) \/ Flush(r, "provision", "resolve")
  \/ ExchangeToken(r) \/ GetCurrentUser(r)
  \/ Logout(r) \/ TenantRequired(r) \/ OpenSession(r) \/ ListMyTenants(r)
  \/ SetTenantContext(r)
  \/ CreateUser(r) \/ InviteUser(r) \/ Assign(r) \/ Revoke(r)
  \/ Flush(r, "flush", "commit") \/ CommitWork(r)

Next ==
  \/ \E r \in Requests : Arrive(r) /\ UNCHANGED database
  \/ \E r \in Requests : Proceed(r) \/ DatabaseError(r)
  \/ ((\E k \in Kids : Rotate(k)) \/ Tick) /\ UNCHANGED database

\* The waiters for the cache's lock, for a connection and for a row are served in the
\* order they came; no timeout is relied upon.
Spec == Init /\ [][Next]_vars /\ \A r \in Requests : SF_vars(Proceed(r))

-----------------------------------------------------------------------------

Users ==
  [email : Ids, oid : {<<i>> : i \in Ids} \cup {<<"pending-invite", r>> : r \in Requests}]

WriteSets == [users : SUBSET Users, roles : SUBSET (Users \X Tenants),
              revoked : SUBSET (Users \X Tenants)]

TypeOK ==
  /\ GateTypeOK
  /\ users \subseteq Users /\ roles \subseteq users \X Tenants
  /\ \A u, v \in users : u.oid = v.oid => u = v
  /\ conn \in [Conns -> Requests \cup {None}]
  /\ ctx \in [Conns -> Tenants \cup {None}]
  /\ tx \in [Requests -> WriteSets] /\ todo \in [Requests -> WriteSets]
  /\ held \in [Requests -> BOOLEAN]

\* Work in a tenant is done on a connection that shows that tenant's rows and that no
\* other request has, whatever context the connection came with (get_tenant_db,
\* set_tenant_context).
OwnTenantOnly ==
  \A r \in Requests : pc[r] \in {"work", "flush", "commit"} =>
    \E c \in Conns : /\ conn[c] = r /\ ctx[c] = ask[r].tenant
                     /\ \A d \in Conns : conn[d] = r => d = c

\* Whoever works in a tenant is a global administrator or held a role there at some
\* moment since its token was validated, whatever context the roles were looked up
\* under and whoever assigns and revokes meanwhile (get_current_user).
GrantedByRole ==
  \A r \in Requests : pc[r] \in {"session", "context", "work", "flush", "commit"} =>
    ask[r].id \in GlobalAdmins \/ held[r]

\* Every request is answered, however few connections there are: none waits for one
\* while it has one, and nobody keeps the lock of the key cache.
RequestsEnd == \A r \in Requests : pc[r] # "idle" ~> pc[r] = "done"

-----------------------------------------------------------------------------
(* The inductive invariant *)

InSession == {"select", "provision", "resolve", "context", "work", "flush", "commit"}

\* A request has a connection exactly while its session is open, and only one.
ConnInv ==
  \A r \in Requests :
    /\ pc[r] \in InSession <=> \E c \in Conns : conn[c] = r
    /\ \A c, d \in Conns : conn[c] = r /\ conn[d] = r => c = d

\* What is to be written hangs together: one user at a time; a role is of a user who
\* is there or comes with it; who authenticates revokes nothing, and who works has a
\* tenant.
WriteInv ==
  \A r \in Requests :
    /\ \A w \in {tx[r], todo[r]} : /\ \A u, v \in w.users : u = v
                                  /\ \A ro \in w.roles : ro[1] \in users \cup w.users
    /\ pc[r] = "provision" => todo[r].revoked = {}
    /\ pc[r] = "resolve" => tx[r].revoked = {}
    /\ pc[r] \in {"context", "work"} /\ NeedsTenant(r) => ask[r].tenant # None
    /\ pc[r] = "work" => NeedsTenant(r)

\* The row locks at work: no flushed user has the oid of a row, or of another's.
OidInv ==
  \A r \in Requests : \A u \in tx[r].users :
    /\ \A v \in users : u.oid # v.oid
    /\ \A o \in Requests \ {r} : \A v \in tx[o].users : u.oid # v.oid

IInv ==
  /\ TypeOK /\ LockInv /\ KeyInv /\ ConnInv /\ WriteInv /\ OidInv
  /\ OwnTenantOnly /\ GrantedByRole
=============================================================================
