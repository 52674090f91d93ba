--------------------------- MODULE Legacy_proofs ---------------------------
(***************************************************************************)
(* Theorems about the legacy UAT application: its administration (LegacyApp *)
(* and LegacyAdmin) and its bundles and runs (LegacyBundles).  The two       *)
(* share no variable.  What its explorations preserve is proved in           *)
(* Crawlers_proofs, and here that nothing else interferes with them.         *)
(***************************************************************************)
EXTENDS LegacyApp, LegacyBundles, Integers, FiniteSetTheorems, NaturalsInduction,
        SequenceTheorems, WellFoundedInduction, TLAPS

(***************************************************************************)
(* Administration                                                          *)
(***************************************************************************)

(* A set that counts more than one member is not empty without one of them. *)
LEMMA OneRemains ==
  ASSUME NEW S, Cardinality(S) > 1, NEW x
  PROVE  S \ {x} # {}
<1> SUFFICES ASSUME S \ {x} = {} PROVE FALSE
  OBVIOUS
<1>1. S = {} \/ S = {x}
  OBVIOUS
<1>2. Cardinality(S) \in {0, 1}
  BY <1>1, FS_EmptySet, FS_Singleton
<1> QED BY <1>2

LEMMA AdminInitially ==
  ASSUME AdminInit
  PROVE  AdminInv
<1>1. Free \in [pc : {"free", "begun", "activate", "deactivate", "roles", "created"},
                me : Users, target : Users, new : SUBSET Roles, seen : SUBSET Roles,
                fresh : BOOLEAN] /\ Free.pc = "free"
  BY AdminAssumption DEF Free
<1>2. AdminTypeOK
  BY <1>1, AdminAssumption DEF AdminInit, AdminTypeOK
<1>3. GuardInv
  BY <1>1 DEF AdminInit, GuardInv
<1> QED BY <1>2, <1>3 DEF AdminInv

(* The request that commits is free again, and no other counts on what it saw. *)
LEMMA CommitFacts ==
  ASSUME AdminTypeOK, NEW q \in Requests, Commit(q)
  PROVE  /\ req'[q] = Free /\ req'[q].pc = "free"
         /\ req' \in [Requests ->
              [pc : {"free", "begun", "activate", "deactivate", "roles", "created"},
               me : Users, target : Users, new : SUBSET Roles, seen : SUBSET Roles,
               fresh : BOOLEAN]]
         /\ \A p \in Requests \ {q} :
              /\ req'[p].pc = req[p].pc /\ req'[p].target = req[p].target
              /\ req'[p].fresh = (req[p].pc \in {"free", "begun"})
<1> DEFINE R == [pc : {"free", "begun", "activate", "deactivate", "roles", "created"},
                 me : Users, target : Users, new : SUBSET Roles, seen : SUBSET Roles,
                 fresh : BOOLEAN]
           New(p) == [req[p] EXCEPT !.fresh = (req[p].pc \in {"free", "begun"})]
<1>1. Free \in R /\ Free.pc = "free"
  BY AdminAssumption DEF Free
<1>2. \A p \in Requests : req[p] \in R
  BY DEF AdminTypeOK
<1>3. ASSUME NEW p \in Requests
      PROVE  /\ New(p) \in R /\ New(p).pc = req[p].pc /\ New(p).target = req[p].target
             /\ New(p).fresh = (req[p].pc \in {"free", "begun"})
  <2> DEFINE f == req[p].pc \in {"free", "begun"}
  <2>1. f \in BOOLEAN
    OBVIOUS
  <2> HIDE DEF f
  <2>2. [req[p] EXCEPT !.fresh = f] \in R /\ [req[p] EXCEPT !.fresh = f].fresh = f
    BY <1>2, <2>1
  <2>3. /\ [req[p] EXCEPT !.fresh = f].pc = req[p].pc
        /\ [req[p] EXCEPT !.fresh = f].target = req[p].target
    BY <1>2, <2>1
  <2> QED BY <2>2, <2>3 DEF f
<1> HIDE DEF R, New
<1>4. req' = [p \in Requests |-> IF p = q THEN Free ELSE New(p)]
  BY DEF Commit, New
<1>5. req' \in [Requests -> R]
  BY <1>1, <1>3, <1>4
<1>6. req'[q] = Free /\ \A p \in Requests \ {q} : req'[p] = New(p)
  BY <1>4
<1> QED BY <1>1, <1>3, <1>5, <1>6 DEF R

(* After a commit the other requests are at an account that is still there. *)
LEMMA CommitStep ==
  ASSUME AdminInv, NEW q \in Requests, Commit(q),
         account' \in [Users -> {"none", "active", "inactive"}], roles' \in [Users -> SUBSET Roles],
         \A u \in Users : account'[u] = "none" => roles'[u] = {} /\ account[u] = "none"
  PROVE  AdminInv'
<1>1. AdminTypeOK /\ GuardInv
  BY DEF AdminInv
<1>2. AdminTypeOK'
  BY <1>1, CommitFacts DEF AdminTypeOK
<1>3. GuardInv'
  <2> SUFFICES ASSUME NEW p \in Requests
               PROVE  /\ req'[p].pc \notin {"free", "begun"} => account'[req'[p].target] # "none"
                      /\ req'[p].fresh => req'[p].pc \in {"free", "begun"}
    BY DEF GuardInv
  <2>1. CASE p = q
    BY <1>1, <2>1, CommitFacts
  <2>2. CASE p # q
    <3>1. /\ req'[p].pc = req[p].pc /\ req'[p].target = req[p].target
          /\ req'[p].fresh = (req[p].pc \in {"free", "begun"}) /\ req[p].target \in Users
      BY <1>1, <2>2, CommitFacts DEF AdminTypeOK
    <3> QED BY <1>1, <3>1 DEF GuardInv
  <2> QED BY <2>1, <2>2
<1> QED BY <1>2, <1>3 DEF AdminInv

(* A step of one request that leaves the tables preserves the invariant if what the *)
(* request goes on with is right.                                                   *)
LEMMA RequestStep ==
  ASSUME AdminInv, NEW q \in Requests,
         NEW t \in [pc : {"free", "begun", "activate", "deactivate", "roles", "created"},
                    me : Users, target : Users, new : SUBSET Roles, seen : SUBSET Roles,
                    fresh : BOOLEAN],
         req' = [req EXCEPT ![q] = t], ActiveAdmins' = ActiveAdmins, UNCHANGED roles,
         account' \in [Users -> {"none", "active", "inactive"}],
         \A u \in Users : account'[u] = "none" => roles[u] = {} /\ account[u] = "none",
         t.pc \notin {"free", "begun"} => account'[t.target] # "none",
         \/ t.pc = "deactivate" /\ Admin \in roles[t.target]
         \/ t.pc = "roles" /\ Admin \in roles[t.target] \ t.new
         => AnotherAdminRemains
  PROVE  AdminInv'
<1>1. AdminTypeOK /\ GuardInv
  BY DEF AdminInv
<1>2. AdminTypeOK' /\ req'[q] = t /\ \A p \in Requests \ {q} : req'[p] = req[p] /\ req[p].target \in Users
  BY <1>1 DEF AdminTypeOK
<1>3. AnotherAdminRemains' <=> AnotherAdminRemains
  BY DEF AnotherAdminRemains
<1>4. GuardInv'
  BY <1>1, <1>2, <1>3 DEF GuardInv
<1> QED BY <1>2, <1>4 DEF AdminInv

LEMMA CheckStep ==
  ASSUME AdminInv, NEW q \in Requests, NEW me \in Users, NEW new \in SUBSET Roles,
         \/ BeginRequest(q, me) \/ CheckDeactivate(q, me) \/ CheckActivate(q, me)
         \/ CheckRoles(q, me, new) \/ EndRequest(q)
  PROVE  AdminInv'
<1> DEFINE R == [pc : {"free", "begun", "activate", "deactivate", "roles", "created"},
                 me : Users, target : Users, new : SUBSET Roles, seen : SUBSET Roles,
                 fresh : BOOLEAN]
<1>0. AdminTypeOK /\ GuardInv /\ req[q] \in R /\ roles[me] \in SUBSET Roles
  BY DEF AdminInv, AdminTypeOK
<1>1. Free \in R /\ Free.pc = "free"
  BY AdminAssumption DEF Free
<1>2. UNCHANGED <<account, roles>>
  BY DEF BeginRequest, CheckDeactivate, CheckActivate, CheckRoles, EndRequest, Check
<1>3. /\ ActiveAdmins' = ActiveAdmins
      /\ account' \in [Users -> {"none", "active", "inactive"}]
      /\ \A u \in Users : account'[u] = "none" => roles[u] = {} /\ account[u] = "none"
  BY <1>0, <1>2 DEF ActiveAdmins, AdminTypeOK
<1>4. CASE EndRequest(q)
  <2>1. req' = [req EXCEPT ![q] = Free]
    BY <1>4 DEF EndRequest
  <2> QED BY <1>1, <1>2, <1>3, <2>1, RequestStep
<1>5. CASE BeginRequest(q, me)
  <2> DEFINE t == [Free EXCEPT !.pc = "begun", !.me = me]
  <2>1. t \in R /\ t.pc = "begun"
    <3>1. [Free EXCEPT !.pc = "begun"] \in R /\ [Free EXCEPT !.pc = "begun"].pc = "begun"
      BY <1>1
    <3> DEFINE f == [Free EXCEPT !.pc = "begun"]
    <3> HIDE DEF f
    <3>2. f \in R /\ f.pc = "begun"
      BY <3>1 DEF f
    <3>3. [f EXCEPT !.me = me] \in R /\ [f EXCEPT !.me = me].pc = "begun"
      BY <3>2
    <3> QED BY <3>3 DEF f
  <2>2. req' = [req EXCEPT ![q] = t]
    BY <1>5 DEF BeginRequest
  <2> HIDE DEF t, R
  <2> QED BY <1>2, <1>3, <2>1, <2>2, RequestStep DEF R
<1>6. ASSUME NEW pc \in {"activate", "deactivate", "roles"}, NEW ns \in SUBSET Roles,
             Check(q, me, pc, ns),
             (pc = "deactivate" /\ Admin \in roles[me]) \/ (pc = "roles" /\ Admin \in roles[me] \ ns)
               => AnotherAdminRemains
      PROVE  AdminInv'
  <2> DEFINE t == [req[q] EXCEPT !.pc = pc, !.target = me, !.new = ns, !.seen = roles[me]]
  <2>1. t \in R /\ t.pc = pc /\ t.target = me /\ t.new = ns
    BY <1>0
  <2>2. req' = [req EXCEPT ![q] = t] /\ account[me] # "none"
    BY <1>6 DEF Check
  <2> HIDE DEF t, R
  <2> QED BY <1>2, <1>3, <1>6, <2>1, <2>2, RequestStep DEF R
<1>7. CASE CheckDeactivate(q, me)
  BY <1>6, <1>7 DEF CheckDeactivate
<1>8. CASE CheckActivate(q, me)
  BY <1>6, <1>8 DEF CheckActivate
<1>9. CASE CheckRoles(q, me, new)
  BY <1>6, <1>9 DEF CheckRoles
<1> QED BY <1>4, <1>5, <1>7, <1>8, <1>9

LEMMA CreateUserStep ==
  ASSUME AdminInv, NEW q \in Requests, NEW target \in Users, NEW new \in SUBSET Roles,
         CreateUser(q, target, new)
  PROVE  AdminInv' /\ ActiveAdmins' = ActiveAdmins
<1> DEFINE R == [pc : {"free", "begun", "activate", "deactivate", "roles", "created"},
                 me : Users, target : Users, new : SUBSET Roles, seen : SUBSET Roles,
                 fresh : BOOLEAN]
           t == [req[q] EXCEPT !.pc = "created", !.target = target, !.new = new]
<1>0. AdminTypeOK /\ req[q] \in R
  BY DEF AdminInv, AdminTypeOK
<1>1. t \in R /\ t.pc = "created" /\ t.target = target
  BY <1>0
<1>2. /\ req' = [req EXCEPT ![q] = t] /\ account[target] = "none"
      /\ account' = [account EXCEPT ![target] = "active"] /\ UNCHANGED roles
  BY DEF CreateUser
<1>3. /\ account' \in [Users -> {"none", "active", "inactive"}] /\ account'[target] = "active"
      /\ \A u \in Users \ {target} : account'[u] = account[u]
      /\ \A u \in Users : account[u] = "none" => roles[u] = {}
  BY <1>0, <1>2 DEF AdminTypeOK
<1>4. ActiveAdmins' = ActiveAdmins
  BY <1>2, <1>3 DEF ActiveAdmins
<1> HIDE DEF t, R
<1> QED BY <1>1, <1>2, <1>3, <1>4, RequestStep DEF R

LEMMA SetActiveStep ==
  ASSUME AdminInv, NEW q \in Requests, SetActive(q)
  PROVE  /\ AdminInv'
         /\ \/ ActiveAdmins \subseteq ActiveAdmins'
            \/ /\ req[q].pc = "deactivate" /\ Admin \in roles[req[q].target]
               /\ ActiveAdmins \ {req[q].target} \subseteq ActiveAdmins'
<1>0. AdminTypeOK /\ GuardInv /\ req[q].target \in Users
  BY DEF AdminInv, AdminTypeOK
<1> DEFINE target == req[q].target
           state == IF req[q].pc = "activate" THEN "active" ELSE "inactive"
<1>1. /\ Commit(q) /\ UNCHANGED roles /\ account' = [account EXCEPT ![target] = state]
      /\ req[q].pc \in {"activate", "deactivate"}
  BY DEF SetActive
<1>2. /\ account' \in [Users -> {"none", "active", "inactive"}] /\ account'[target] = state
      /\ \A u \in Users \ {target} : account'[u] = account[u]
  BY <1>0, <1>1 DEF AdminTypeOK
<1>3. \A u \in Users : account'[u] = "none" => roles'[u] = {} /\ account[u] = "none"
  BY <1>0, <1>1, <1>2 DEF AdminTypeOK
<1>4. AdminInv'
  BY <1>0, <1>1, <1>2, <1>3, CommitStep DEF AdminTypeOK
<1>5. ActiveAdmins \ {target} \subseteq ActiveAdmins'
  BY <1>1, <1>2 DEF ActiveAdmins
<1>6. req[q].pc = "activate" \/ Admin \notin roles[target] => ActiveAdmins \subseteq ActiveAdmins'
  BY <1>1, <1>2 DEF ActiveAdmins
<1> QED BY <1>1, <1>4, <1>5, <1>6

LEMMA RolesStep ==
  ASSUME AdminInv, NEW q \in Requests, UpdateRoles(q) \/ AssignRoles(q)
  PROVE  /\ AdminInv'
         /\ \/ ActiveAdmins \subseteq ActiveAdmins'
            \/ /\ req[q].pc = "roles" /\ Admin \in roles[req[q].target] \ req[q].new
               /\ ActiveAdmins \ {req[q].target} \subseteq ActiveAdmins'
<1> DEFINE target == req[q].target
<1>0. /\ AdminTypeOK /\ GuardInv /\ target \in Users /\ req[q].new \in SUBSET Roles
      /\ roles[target] \in SUBSET Roles
  BY DEF AdminInv, AdminTypeOK
<1>1. /\ Commit(q) /\ UNCHANGED account /\ req[q].pc \in {"roles", "created"}
      /\ \E kept \in SUBSET roles[target] :
           /\ roles' = [roles EXCEPT ![target] = kept \cup req[q].new]
           /\ req[q].pc = "created" => kept = roles[target]
  BY DEF UpdateRoles, AssignRoles
<1>2. PICK kept \in SUBSET roles[target] :
        /\ roles' = [roles EXCEPT ![target] = kept \cup req[q].new]
        /\ req[q].pc = "created" => kept = roles[target]
  BY <1>1
<1>3. /\ roles' \in [Users -> SUBSET Roles] /\ roles'[target] = kept \cup req[q].new
      /\ \A u \in Users \ {target} : roles'[u] = roles[u]
  BY <1>0, <1>2 DEF AdminTypeOK
<1>4. account[target] # "none"
  BY <1>0, <1>1 DEF GuardInv
<1>5. \A u \in Users : account'[u] = "none" => roles'[u] = {} /\ account[u] = "none"
  BY <1>0, <1>1, <1>3, <1>4 DEF AdminTypeOK
<1>6. AdminInv'
  BY <1>0, <1>1, <1>3, <1>5, CommitStep DEF AdminTypeOK
<1>7. ActiveAdmins \ {target} \subseteq ActiveAdmins'
  BY <1>1, <1>3 DEF ActiveAdmins
<1>8. \/ req[q].pc = "created"
      \/ Admin \notin roles[target] \ req[q].new
      => ActiveAdmins \subseteq ActiveAdmins'
  BY <1>1, <1>2, <1>3 DEF ActiveAdmins
<1> QED BY <1>1, <1>6, <1>7, <1>8

LEMMA AdminStep ==
  ASSUME AdminInv, [AdminNext]_avars
  PROVE  AdminInv'
<1>1. CASE AdminNext
  <2>1. PICK q \in Requests : AdminRequest(q)
    BY <1>1 DEF AdminNext
  <2>2. ASSUME NEW u \in Users, NEW new \in SUBSET Roles,
               \/ BeginRequest(q, u) \/ CheckDeactivate(q, u) \/ CheckActivate(q, u)
               \/ CheckRoles(q, u, new) \/ EndRequest(q)
        PROVE  AdminInv'
    BY <2>2, CheckStep
  <2>3. ASSUME NEW u \in Users, NEW new \in SUBSET Roles, CreateUser(q, u, new)
        PROVE  AdminInv'
    BY <2>3, CreateUserStep
  <2>4. CASE SetActive(q)
    BY <2>4, SetActiveStep
  <2>5. CASE UpdateRoles(q) \/ AssignRoles(q)
    BY <2>5, RolesStep
  <2>6. {} \in SUBSET Roles /\ Root \in Users
    BY AdminAssumption
  <2> QED BY <2>1, <2>2, <2>3, <2>4, <2>5, <2>6 DEF AdminRequest
<1>2. CASE UNCHANGED avars
  BY <1>2 DEF avars, AdminInv, AdminTypeOK, GuardInv, AnotherAdminRemains, ActiveAdmins
<1> QED BY <1>1, <1>2

(* The last active administrator goes only by a request that was overtaken. *)
LEMMA GuardStep ==
  ASSUME AdminInv, AdminNext, ActiveAdmins # {}, ActiveAdmins' = {}
  PROVE  \E q \in Requests : ~req[q].fresh /\ req'[q] = Free
<1>1. PICK q \in Requests : AdminRequest(q)
  BY DEF AdminNext
<1>2. ASSUME UNCHANGED <<account, roles>> PROVE FALSE
  BY <1>2 DEF ActiveAdmins
<1>3. SetActive(q) \/ UpdateRoles(q) \/ AssignRoles(q)
  <2>1. ASSUME NEW u \in Users, NEW new \in SUBSET Roles, CreateUser(q, u, new) PROVE FALSE
    BY <2>1, CreateUserStep
  <2>2. ASSUME NEW u \in Users, NEW new \in SUBSET Roles,
               \/ BeginRequest(q, u) \/ CheckDeactivate(q, u) \/ CheckActivate(q, u)
               \/ CheckRoles(q, u, new) \/ EndRequest(q)
        PROVE  FALSE
    BY <1>2, <2>2 DEF BeginRequest, CheckDeactivate, CheckActivate, CheckRoles, EndRequest, Check
  <2>3. {} \in SUBSET Roles /\ Root \in Users
    BY AdminAssumption
  <2> QED BY <1>1, <2>1, <2>2, <2>3 DEF AdminRequest
<1>4. Commit(q) /\ req'[q] = Free
  BY <1>3, CommitFacts DEF SetActive, UpdateRoles, AssignRoles, AdminInv
<1>5. /\ \/ req[q].pc = "deactivate" /\ Admin \in roles[req[q].target]
         \/ req[q].pc = "roles" /\ Admin \in roles[req[q].target] \ req[q].new
      /\ ActiveAdmins \ {req[q].target} = {}
  BY <1>3, SetActiveStep, RolesStep
<1>6. ASSUME req[q].fresh PROVE FALSE
  <2>1. Cardinality(ActiveAdmins) > 1
    BY <1>5, <1>6 DEF AdminInv, GuardInv, AnotherAdminRemains
  <2> QED BY <1>5, <2>1, OneRemains
<1> QED BY <1>4, <1>6

(***************************************************************************)
(* Theorems about the legacy application with several users                *)
(***************************************************************************)

(* What happens elsewhere in the application leaves the walks and the tables of the *)
(* administration as they are: both keep what is proved of each alone.              *)
THEOREM Separation == AppSpec => ExploreSpec /\ AdminSpec
<1>1. AppInit => ExploreInit /\ AdminInit
  BY DEF AppInit
<1>2. [AppNext]_appvars => [ExploreNext]_xvars /\ [AdminNext]_avars
  <2>1. ASSUME AppNext PROVE [ExploreNext]_xvars /\ [AdminNext]_avars
    BY <2>1 DEF AppNext, UiStartExplore, ExploreNext
  <2>2. ASSUME UNCHANGED appvars PROVE UNCHANGED xvars /\ UNCHANGED avars
    BY <2>2 DEF appvars
  <2> QED BY <2>1, <2>2
<1> QED BY <1>1, <1>2, PTL DEF AppSpec, ExploreSpec, AdminSpec

(* The invariant of the administration, for any number of users and open requests. *)
THEOREM AdminInvariance == AppSpec => []AdminInv
<1>1. AdminInit => AdminInv
  BY AdminInitially
<1>2. AdminInv /\ [AdminNext]_avars => AdminInv'
  BY AdminStep
<1>3. AdminSpec => []AdminInv
  BY <1>1, <1>2, PTL DEF AdminSpec
<1> QED BY <1>3, Separation, PTL

(* However many administrators change each other's accounts at once: the last active *)
(* one goes only by a request that another has overtaken since it counted.           *)
THEOREM LastAdminStays == AppSpec => LastAdminGuard
<1> DEFINE Guarded == ActiveAdmins # {} /\ ActiveAdmins' = {} =>
                        \E q \in Requests : ~req[q].fresh /\ req'[q] = Free
<1>1. AdminInv /\ [AdminNext]_avars => [Guarded]_avars
  BY GuardStep
<1>2. AdminSpec /\ []AdminInv => [][Guarded]_avars
  <2> HIDE DEF Guarded
  <2> QED BY <1>1, PTL DEF AdminSpec
<1> QED BY <1>2, AdminInvariance, Separation, PTL DEF LastAdminGuard

(***************************************************************************)
(* FlattenSeq                                                              *)
(***************************************************************************)

(* What holds of 0 and of each successor holds of every number. *)
LEMMA Inductive ==
  ASSUME NEW T, 0 \in T, \A n \in Nat : n \in T => n + 1 \in T
  PROVE  Nat \subseteq T
<1> SUFFICES ASSUME Nat \ T # {} PROVE FALSE
  OBVIOUS
<1>1. PICK x \in Nat \ T : \A y \in Nat \ T : ~(<<y, x>> \in OpToRel(<, Nat))
  BY NatLessThanWellFounded, WFMin
<1>2. x # 0 /\ x - 1 \in Nat
  OBVIOUS
<1>3. x - 1 \in T
  <2>1. <<x - 1, x>> \in OpToRel(<, Nat)
    BY <1>2 DEF OpToRel
  <2> QED BY <1>1, <1>2, <2>1
<1> QED BY <1>2, <1>3

(* FlattenSeq is what its recursion says: for each prefix there is a function that *)
(* satisfies it.                                                                   *)
LEMMA FlattenRecursion ==
  ASSUME NEW U, NEW seqs \in Seq(Seq(U)), Len(seqs) # 0
  PROVE  \E f : /\ FlattenSeq(seqs) = f[Len(seqs)]
                /\ f[1] = seqs[1]
                /\ \A n \in 2 .. Len(seqs) : f[n] = f[n - 1] \o seqs[n]
<1> DEFINE Body(g, n) == IF n = 1 THEN seqs[n] ELSE g[n - 1] \o seqs[n]
           Fun(g, m) == [n \in 1 .. m |-> Body(g, n)]
           T == {m \in Nat : \E g : g = Fun(g, m)}
           f == CHOOSE g : g = Fun(g, Len(seqs))
<1>1. 0 \in T
  <2> DEFINE g == [n \in 1 .. 0 |-> <<>>]
  <2>1. g = Fun(g, 0)
    OBVIOUS
  <2> QED BY <2>1
<1>2. ASSUME NEW m \in Nat, m \in T PROVE m + 1 \in T
  <2>1. PICK g : g = Fun(g, m)
    BY <1>2
  <2> DEFINE h == [n \in 1 .. m + 1 |-> IF n = m + 1 THEN Body(g, m + 1) ELSE g[n]]
  <2>2. \A n \in 1 .. m + 1 : h[n] = Body(h, n)
    <3> SUFFICES ASSUME NEW n \in 1 .. m + 1 PROVE h[n] = Body(h, n)
      OBVIOUS
    <3>1. CASE n = m + 1
      <4>1. n # 1 => h[n - 1] = g[n - 1]
        BY <3>1
      <4> QED BY <3>1, <4>1
    <3>2. CASE n \in 1 .. m
      <4>0. \A k \in 1 .. m : g[k] = Body(g, k)
        BY <2>1
      <4>1. g[n] = Body(g, n) /\ h[n] = g[n]
        BY <3>2, <4>0
      <4>2. n # 1 => h[n - 1] = g[n - 1]
        BY <3>2
      <4> QED BY <3>2, <4>1, <4>2
    <3> QED BY <3>1, <3>2
  <2>3. h = Fun(h, m + 1)
    BY <2>2
  <2> HIDE DEF h, Fun
  <2> QED BY <2>3
<1>3. Len(seqs) \in T
  <2> HIDE DEF T
  <2> QED BY <1>1, <1>2, Inductive
<1>4. f = Fun(f, Len(seqs))
  BY <1>3
<1>5. FlattenSeq(seqs) = f[Len(seqs)]
  BY DEF FlattenSeq
<1>6. \A n \in 1 .. Len(seqs) : f[n] = Body(f, n)
  <2> HIDE DEF f
  <2> QED BY <1>4
<1> HIDE DEF f
<1>7. f[1] = seqs[1] /\ \A n \in 2 .. Len(seqs) : f[n] = f[n - 1] \o seqs[n]
  <2>1. Len(seqs) \in Nat /\ 1 \in 1 .. Len(seqs)
    OBVIOUS
  <2>2. \A n \in 2 .. Len(seqs) : n \in 1 .. Len(seqs) /\ n # 1
    BY <2>1
  <2> QED BY <1>6, <2>1, <2>2
<1> QED BY <1>5, <1>7

(* The elements of two sequences, one after the other. *)
LEMMA ConcatElements ==
  ASSUME NEW U, NEW s \in Seq(U), NEW t \in Seq(U)
  PROVE  /\ s \o t \in Seq(U)
         /\ Range(s \o t) = Range(s) \cup Range(t)
         /\ IsInjective(s) /\ IsInjective(t) /\ Range(s) \cap Range(t) = {} => IsInjective(s \o t)
<1> DEFINE c == s \o t
           m == Len(s)
           n == Len(t)
<1>1. m \in Nat /\ n \in Nat /\ DOMAIN s = 1 .. m /\ DOMAIN t = 1 .. n
  OBVIOUS
<1>2. /\ c \in Seq(U) /\ DOMAIN c = 1 .. m + n
      /\ \A k \in 1 .. m + n : c[k] = IF k <= m THEN s[k] ELSE t[k - m]
  BY ConcatProperties
<1> HIDE DEF c, m, n
<1>3. \A k \in DOMAIN c : IF k <= m THEN k \in DOMAIN s /\ c[k] = s[k]
                          ELSE k - m \in DOMAIN t /\ c[k] = t[k - m]
  BY <1>1, <1>2
<1>4. \A i \in DOMAIN s : i \in DOMAIN c /\ c[i] = s[i]
  BY <1>1, <1>2
<1>5. \A i \in DOMAIN t : m + i \in DOMAIN c /\ c[m + i] = t[i]
  BY <1>1, <1>2
<1>6. ASSUME IsInjective(s), IsInjective(t), Range(s) \cap Range(t) = {}
      PROVE  IsInjective(c)
  <2> SUFFICES ASSUME NEW a \in DOMAIN c, NEW b \in DOMAIN c, c[a] = c[b] PROVE a = b
    BY DEF IsInjective
  <2>1. a \in Nat /\ b \in Nat
    BY <1>1, <1>2
  <2>2. \A i \in DOMAIN s, j \in DOMAIN t : s[i] # t[j]
    BY <1>6 DEF Range
  <2>3. CASE a <= m /\ b <= m
    BY <1>3, <1>6, <2>3 DEF IsInjective
  <2>4. CASE ~(a <= m) /\ ~(b <= m)
    <3>1. a - m = b - m
      BY <1>3, <1>6, <2>4 DEF IsInjective
    <3> QED BY <1>1, <2>1, <3>1
  <2>5. CASE a <= m /\ ~(b <= m)
    BY <1>3, <2>2, <2>5
  <2>6. CASE ~(a <= m) /\ b <= m
    BY <1>3, <2>2, <2>6
  <2> QED BY <2>3, <2>4, <2>5, <2>6
<1>7. Range(c) \subseteq Range(s) \cup Range(t)
  BY <1>3 DEF Range
<1>8. Range(s) \subseteq Range(c)
  BY <1>4 DEF Range
<1>9. Range(t) \subseteq Range(c)
  BY <1>5 DEF Range
<1> QED BY <1>2, <1>6, <1>7, <1>8, <1>9 DEF c

(* FlattenSeq has the elements of its parts and no others, and repeats none that the *)
(* parts do not repeat.                                                              *)
LEMMA FlattenElements ==
  ASSUME NEW U, NEW seqs \in Seq(Seq(U))
  PROVE  LET s == FlattenSeq(seqs)
         IN  /\ s \in Seq(U)
             /\ Range(s) = UNION {Range(seqs[i]) : i \in DOMAIN seqs}
             /\ /\ \A i \in DOMAIN seqs : IsInjective(seqs[i])
                /\ \A h, i \in DOMAIN seqs : h # i => Range(seqs[h]) \cap Range(seqs[i]) = {}
                => IsInjective(s)
<1>1. CASE Len(seqs) = 0
  <2>1. seqs = <<>> /\ FlattenSeq(seqs) = <<>>
    BY <1>1 DEF FlattenSeq
  <2>2. DOMAIN <<>> = {} /\ <<>> \in Seq(U)
    OBVIOUS
  <2> QED BY <2>1, <2>2 DEF IsInjective, Range
<1>2. CASE Len(seqs) # 0
  <2>1. PICK f : /\ FlattenSeq(seqs) = f[Len(seqs)]
                 /\ f[1] = seqs[1]
                 /\ \A n \in 2 .. Len(seqs) : f[n] = f[n - 1] \o seqs[n]
    BY <1>2, FlattenRecursion
  <2> DEFINE N == Len(seqs)
             Parts(n) == UNION {Range(seqs[i]) : i \in 1 .. n}
             Apart == /\ \A i \in DOMAIN seqs : IsInjective(seqs[i])
                      /\ \A h, i \in DOMAIN seqs : h # i => Range(seqs[h]) \cap Range(seqs[i]) = {}
             Good(n) == /\ f[n] \in Seq(U)
                        /\ Range(f[n]) = Parts(n)
                        /\ Apart => IsInjective(f[n])
             T == {n \in Nat : n \in 1 .. N => Good(n)}
  <2>2. N \in Nat /\ N # 0 /\ DOMAIN seqs = 1 .. N /\ \A i \in 1 .. N : seqs[i] \in Seq(U)
    BY <1>2
  <2>3. Good(1)
    <3>1. 1 \in 1 .. N /\ 1 .. 1 = {1}
      BY <2>2
    <3>2. f[1] \in Seq(U) /\ (Apart => IsInjective(f[1]))
      BY <2>1, <2>2, <3>1
    <3> HIDE DEF Apart, N
    <3> QED BY <2>1, <3>1, <3>2
  <2>4. ASSUME NEW n \in Nat, n \in 1 .. N, n + 1 \in 1 .. N, Good(n) PROVE Good(n + 1)
    <3>1. f[n + 1] = f[n] \o seqs[n + 1]
      <4>1. n + 1 \in 2 .. N /\ (n + 1) - 1 = n
        BY <2>2, <2>4
      <4> QED BY <2>1, <4>1
    <3>2. f[n] \in Seq(U) /\ seqs[n + 1] \in Seq(U)
      BY <2>2, <2>4
    <3>3. Parts(n + 1) = Parts(n) \cup Range(seqs[n + 1])
      <4>1. 1 .. n + 1 = 1 .. n \cup {n + 1}
        OBVIOUS
      <4> QED BY <4>1
    <3>4. ASSUME Apart
          PROVE  IsInjective(seqs[n + 1]) /\ Parts(n) \cap Range(seqs[n + 1]) = {}
      <4>1. 1 .. n \subseteq DOMAIN seqs /\ n + 1 \in DOMAIN seqs /\ n + 1 \notin 1 .. n
        BY <2>2, <2>4
      <4> QED BY <3>4, <4>1
    <3> HIDE DEF Parts, Apart
    <3>5. /\ f[n + 1] \in Seq(U)
          /\ Range(f[n + 1]) = Parts(n) \cup Range(seqs[n + 1])
          /\ Apart => IsInjective(f[n + 1])
      <4>1. Range(f[n]) = Parts(n) /\ (Apart => IsInjective(f[n]))
        BY <2>4
      <4>2. /\ f[n + 1] \in Seq(U)
            /\ Range(f[n + 1]) = Range(f[n]) \cup Range(seqs[n + 1])
            /\ /\ IsInjective(f[n]) /\ IsInjective(seqs[n + 1])
               /\ Range(f[n]) \cap Range(seqs[n + 1]) = {}
               => IsInjective(f[n + 1])
        <5> DEFINE s == f[n]
                   t == seqs[n + 1]
                   c == f[n + 1]
        <5>1. s \in Seq(U) /\ t \in Seq(U) /\ c = s \o t
          BY <3>1, <3>2
        <5> HIDE DEF s, t, c
        <5>2. /\ c \in Seq(U)
              /\ Range(c) = Range(s) \cup Range(t)
              /\ IsInjective(s) /\ IsInjective(t) /\ Range(s) \cap Range(t) = {} => IsInjective(c)
          BY <5>1, ConcatElements
        <5> QED BY <5>2 DEF s, t, c
      <4> QED BY <3>4, <4>1, <4>2
    <3> QED BY <3>3, <3>5
  <2>5. \A n \in Nat : n \in T
    <3> HIDE DEF Good, N
    <3>1. 0 \in T
      OBVIOUS
    <3>2. ASSUME NEW n \in Nat, n \in T PROVE n + 1 \in T
      <4>1. CASE n = 0
        BY <2>3, <4>1
      <4>2. CASE n # 0 /\ n + 1 \in 1 .. N
        <5>1. n \in 1 .. N
          BY <2>2, <4>2
        <5> QED BY <2>4, <3>2, <4>2, <5>1
      <4> QED BY <4>1, <4>2
    <3> HIDE DEF T
    <3> QED BY <3>1, <3>2, Inductive
  <2>6. Good(N)
    <3> HIDE DEF Good
    <3>1. N \in T
      BY <2>2, <2>5
    <3> QED BY <2>2, <3>1
  <2>7. FlattenSeq(seqs) = f[N] /\ Parts(N) = UNION {Range(seqs[i]) : i \in DOMAIN seqs}
    BY <2>1, <2>2
  <2> HIDE DEF N, Parts
  <2> QED BY <2>6, <2>7
<1> QED BY <1>1, <1>2

(***************************************************************************)
(* The plan of a run                                                       *)
(***************************************************************************)

LEMMA CaseTypes ==
  ASSUME TablesOK
  PROVE  /\ Len(cases) \in Nat /\ DOMAIN cases = 1 .. Len(cases)
         /\ \A c \in DOMAIN cases :
              /\ cases[c] \in [bundle : DOMAIN bundles, steps : Seq(TestSteps)]
              /\ cases[c].bundle \in DOMAIN bundles /\ cases[c].steps \in Seq(TestSteps)
<1> DEFINE C == [bundle : DOMAIN bundles, steps : Seq(TestSteps)]
<1>1. cases \in Seq(C)
  BY DEF TablesOK
<1>2. \A c \in C : c.bundle \in DOMAIN bundles /\ c.steps \in Seq(TestSteps)
  OBVIOUS
<1> HIDE DEF C
<1>3. Len(cases) \in Nat /\ DOMAIN cases = 1 .. Len(cases) /\ \A c \in DOMAIN cases : cases[c] \in C
  BY <1>1
<1> QED BY <1>2, <1>3 DEF C

(* The cases of a bundle, once each. *)
LEMMA CasesOfFacts ==
  ASSUME TablesOK, NEW b
  PROVE  /\ CasesOf(b) \in Seq(Nat) /\ IsInjective(CasesOf(b))
         /\ Range(CasesOf(b)) = {c \in DOMAIN cases : cases[c].bundle = b}
<1> DEFINE part(c) == IF cases[c].bundle = b THEN <<c>> ELSE <<>>
           parts == [c \in DOMAIN cases |-> part(c)]
<1>1. DOMAIN cases = 1 .. Len(cases) /\ Len(cases) \in Nat
  BY CaseTypes
<1>2. ASSUME NEW c \in DOMAIN cases
      PROVE  /\ part(c) \in Seq(Nat) /\ IsInjective(part(c))
             /\ Range(part(c)) = IF cases[c].bundle = b THEN {c} ELSE {}
  <2>1. c \in Nat
    BY <1>1
  <2>2. CASE cases[c].bundle = b
    <3>1. <<c>> \in Seq(Nat) /\ DOMAIN <<c>> = {1} /\ <<c>>[1] = c
      BY <2>1
    <3> QED BY <2>2, <3>1 DEF IsInjective, Range
  <2>3. CASE cases[c].bundle # b
    <3>1. <<>> \in Seq(Nat) /\ DOMAIN <<>> = {}
      OBVIOUS
    <3> QED BY <2>3, <3>1 DEF IsInjective, Range
  <2> QED BY <2>2, <2>3
<1>3. CasesOf(b) = FlattenSeq(parts)
  BY DEF CasesOf
<1> HIDE DEF part
<1>4. parts \in Seq(Seq(Nat)) /\ DOMAIN parts = DOMAIN cases /\ \A c \in DOMAIN cases : parts[c] = part(c)
  BY <1>1, <1>2
<1> HIDE DEF parts
<1>5. \A c \in DOMAIN parts :
        /\ IsInjective(parts[c])
        /\ Range(parts[c]) = IF cases[c].bundle = b THEN {c} ELSE {}
  BY <1>2, <1>4, Zenon
<1>6. \A c, d \in DOMAIN parts : c # d => Range(parts[c]) \cap Range(parts[d]) = {}
  BY <1>5
<1>7. UNION {Range(parts[c]) : c \in DOMAIN parts} = {c \in DOMAIN cases : cases[c].bundle = b}
  BY <1>4, <1>5
<1>8. /\ FlattenSeq(parts) \in Seq(Nat) /\ IsInjective(FlattenSeq(parts))
      /\ Range(FlattenSeq(parts)) = UNION {Range(parts[c]) : c \in DOMAIN parts}
  BY <1>4, <1>5, <1>6, FlattenElements
<1> QED BY <1>3, <1>7, <1>8

(* The steps of a sequence of cases, once each if the cases are. *)
LEMMA StepsOfFacts ==
  ASSUME TablesOK, NEW tests \in Seq(Nat), Range(tests) \subseteq DOMAIN cases, IsInjective(tests)
  PROVE  /\ StepsOf(tests) \in Seq(Pairs) /\ IsInjective(StepsOf(tests))
         /\ Range(StepsOf(tests)) =
              {at \in Pairs : at[1] \in Range(tests) /\ at[2] \in DOMAIN cases[at[1]].steps}
<1> DEFINE part(k) == [i \in DOMAIN cases[tests[k]].steps |-> <<tests[k], i>>]
           parts == [k \in DOMAIN tests |-> part(k)]
<1>1. /\ DOMAIN tests = 1 .. Len(tests) /\ Len(tests) \in Nat
      /\ \A k \in DOMAIN tests : tests[k] \in Nat /\ tests[k] \in DOMAIN cases
  BY DEF Range
<1>2. ASSUME NEW k \in DOMAIN tests
      PROVE  /\ part(k) \in Seq(Pairs) /\ IsInjective(part(k))
             /\ Range(part(k)) = {<<tests[k], i>> : i \in DOMAIN cases[tests[k]].steps}
  <2>1. cases[tests[k]].steps \in Seq(TestSteps)
    BY <1>1, CaseTypes
  <2>2. DOMAIN cases[tests[k]].steps = 1 .. Len(cases[tests[k]].steps)
        /\ Len(cases[tests[k]].steps) \in Nat
    BY <2>1
  <2>3. part(k) \in Seq(Pairs)
    BY <1>1, <2>2 DEF Pairs
  <2> QED BY <2>3 DEF IsInjective, Range
<1>3. StepsOf(tests) = FlattenSeq(parts)
  BY DEF StepsOf
<1> HIDE DEF part
<1>4. parts \in Seq(Seq(Pairs)) /\ DOMAIN parts = DOMAIN tests /\ \A k \in DOMAIN tests : parts[k] = part(k)
  BY <1>1, <1>2
<1> HIDE DEF parts
<1>5. \A k \in DOMAIN parts : IsInjective(parts[k])
  BY <1>2, <1>4
<1>6. \A k, l \in DOMAIN parts : k # l => Range(parts[k]) \cap Range(parts[l]) = {}
  <2> SUFFICES ASSUME NEW k \in DOMAIN parts, NEW l \in DOMAIN parts, k # l
               PROVE  Range(parts[k]) \cap Range(parts[l]) = {}
    OBVIOUS
  <2>1. tests[k] # tests[l]
    BY <1>4 DEF IsInjective
  <2> QED BY <1>2, <1>4, <2>1
<1>7. UNION {Range(parts[k]) : k \in DOMAIN parts}
        = {at \in Pairs : at[1] \in Range(tests) /\ at[2] \in DOMAIN cases[at[1]].steps}
  <2>1. ASSUME NEW k \in DOMAIN parts, NEW at \in Range(parts[k])
        PROVE  at \in Pairs /\ at[1] \in Range(tests) /\ at[2] \in DOMAIN cases[at[1]].steps
    <3>1. PICK i \in DOMAIN cases[tests[k]].steps : at = <<tests[k], i>>
      BY <1>2, <1>4, <2>1
    <3>2. i \in Nat
      <4>1. cases[tests[k]].steps \in Seq(TestSteps)
        BY <1>1, <1>4, CaseTypes
      <4> QED BY <4>1
    <3> QED BY <1>1, <1>4, <3>1, <3>2 DEF Pairs, Range
  <2>2. ASSUME NEW at \in Pairs, at[1] \in Range(tests), at[2] \in DOMAIN cases[at[1]].steps
        PROVE  \E k \in DOMAIN parts : at \in Range(parts[k])
    <3>1. PICK k \in DOMAIN tests : tests[k] = at[1]
      BY <2>2 DEF Range
    <3>2. at = <<tests[k], at[2]>>
      BY <3>1 DEF Pairs
    <3> QED BY <1>2, <1>4, <2>2, <3>1, <3>2
  <2> QED BY <2>1, <2>2
<1>8. /\ FlattenSeq(parts) \in Seq(Pairs) /\ IsInjective(FlattenSeq(parts))
      /\ Range(FlattenSeq(parts)) = UNION {Range(parts[k]) : k \in DOMAIN parts}
  BY <1>4, <1>5, <1>6, FlattenElements
<1> QED BY <1>3, <1>7, <1>8

(***************************************************************************)
(* Bundles and runs                                                        *)
(***************************************************************************)

LEMMA BundlesInitially ==
  ASSUME Init
  PROVE  IInv
<1> DEFINE B == [status : {"Draft", "Approved"}, created_by : Accounts]
           C == [bundle : DOMAIN bundles, steps : Seq(TestSteps)]
<1>0. \A S : <<>> \in Seq(S)
  OBVIOUS
<1>00. DOMAIN <<>> = {} /\ Len(<<>>) = 0
  OBVIOUS
<1>1. TablesOK
  <2>1. bundles \in Seq(B) /\ cases \in Seq(C)
    <3> HIDE DEF B, C
    <3> QED BY <1>0 DEF Init
  <2>2. signing \cup approvals \subseteq Accounts \X DOMAIN bundles
    BY DEF Init
  <2> QED BY <2>1, <2>2 DEF TablesOK
<1>2. WriterInv
  <2>1. NoWriter \in WriterRows /\ NoWriter.pc = "idle"
    BY <1>0 DEF NoWriter, WriterRows
  <2> QED BY <2>1 DEF Init, WriterInv
<1>3. \A r \in Runs : results[r] = <<>> /\ evidence[r] = {}
  BY DEF Init
<1>4. ASSUME NEW r \in Runs
      PROVE  /\ run[r] \in RunRows /\ run[r].shot = {}
             /\ RunOK(run[r], results[r]) /\ AsPlanned(run[r], results[r])
  <2> DEFINE t == [pc |-> "idle", status |-> "none", bundle |-> 0, tests |-> <<>>,
                   plan |-> <<>>, shot |-> {}, bound |-> FALSE, any_fail |-> FALSE]
  <2>1. run[r] = t
    BY DEF Init
  <2>2. /\ t.pc = "idle" /\ t.status = "none" /\ t.tests = <<>> /\ t.plan = <<>>
        /\ t.shot = {} /\ ~t.any_fail
    OBVIOUS
  <2>3. t \in RunRows
    <3>1. {} \in SUBSET Shots /\ 0 \in Nat
      OBVIOUS
    <3> QED BY <1>0, <3>1 DEF RunRows
  <2> HIDE DEF t
  <2>4. RunOK(t, <<>>)
    BY <1>00, <2>2 DEF RunOK
  <2>5. AsPlanned(t, <<>>)
    BY <1>00, <2>2 DEF AsPlanned, IsInjective
  <2> QED BY <1>3, <2>1, <2>2, <2>3, <2>4, <2>5
<1>5. run \in [Runs -> RunRows] /\ results \in [Runs -> Seq(ResultRows)]
  <2>1. /\ run = [r \in Runs |-> run[r]] /\ results = [r \in Runs |-> results[r]]
    BY DEF Init
  <2> QED BY <1>0, <1>3, <1>4, <2>1
<1>6. FileInv
  BY <1>00, <1>3, <1>4 DEF FileInv, Init
<1> QED BY <1>1, <1>2, <1>4, <1>5, <1>6 DEF IInv, TypeOK, RunInv

(* The steps of a case stay steps and keep their index. *)
StepsKept(c) ==
  \A i \in DOMAIN cases[c].steps :
    i \in DOMAIN cases'[c].steps /\ cases'[c].steps[i].index = cases[c].steps[i].index

(* The name of a file tells what it shows as before. *)
LEMMA ShowsKept ==
  ASSUME \A c \in DOMAIN cases : c \in DOMAIN cases' /\ StepsKept(c), NEW path, NEW image,
         Shows(path, image)
  PROVE  Shows(path, image)'
<1> DEFINE at == image.at
<1>1. at[1] \in DOMAIN cases /\ at[2] \in DOMAIN cases[at[1]].steps /\ image \in Images
      /\ path = Path(path[1], at, image.failed)
  BY DEF Shows
<1>2. at[1] \in DOMAIN cases' /\ at[2] \in DOMAIN cases'[at[1]].steps
      /\ cases'[at[1]].steps[at[2]].index = cases[at[1]].steps[at[2]].index
  BY <1>1 DEF StepsKept
<1>3. IndexOf(at)' = IndexOf(at)
  BY <1>2 DEF IndexOf
<1>4. Path(path[1], at, image.failed)' = Path(path[1], at, image.failed)
  BY <1>3 DEF Path
<1>5. Images' = Images
  BY DEF Images, Pairs
<1> QED BY <1>1, <1>2, <1>4, <1>5 DEF Shows

(* Whatever bundles, cases and steps are added, edited or approved, the runs go on as *)
(* they are.                                                                          *)
LEMMA ExecutionKept ==
  ASSUME IInv, UNCHANGED execution, DOMAIN bundles \subseteq DOMAIN bundles',
         \A b \in DOMAIN bundles : bundles[b].status = "Approved" => bundles'[b].status = "Approved",
         \A c \in DOMAIN cases : /\ c \in DOMAIN cases' /\ cases'[c].bundle = cases[c].bundle
                                 /\ StepsKept(c),
         TablesOK', WriterInv'
  PROVE  IInv'
<1>1. UNCHANGED <<run, results, evidence, files>>
  BY DEF execution
<1>2. TypeOK /\ RunInv /\ FileInv
  BY DEF IInv
<1>3. FileInv'
  BY <1>1, <1>2, ShowsKept DEF FileInv
<1>4. ASSUME NEW r \in Runs
      PROVE  RunOK(run[r], results[r])' /\ AsPlanned(run[r], results[r])'
  <2> DEFINE t == run[r]
             res == results[r]
  <2>1. RunOK(t, res) /\ AsPlanned(t, res) /\ run'[r] = t /\ results'[r] = res
    BY <1>1, <1>2 DEF TypeOK, RunInv
  <2> HIDE DEF t, res
  <2>2. t.pc # "idle" => bundles'[t.bundle].status = "Approved" /\ t.bundle \in DOMAIN bundles'
    BY <2>1 DEF RunOK, AsPlanned
  <2>3. \A k \in DOMAIN t.tests : t.tests[k] \in DOMAIN cases' /\ cases'[t.tests[k]].bundle = t.bundle
    BY <2>1 DEF AsPlanned
  <2>4. \A k \in DOMAIN t.plan :
          /\ t.plan[k][1] \in DOMAIN cases' /\ cases'[t.plan[k][1]].bundle = t.bundle
          /\ t.plan[k][2] \in DOMAIN cases'[t.plan[k][1]].steps
          /\ t.plan[k][1] \notin Range(t.tests)
    BY <2>1 DEF AsPlanned, IsStep, StepsKept
  <2>5. RunOK(run[r], results[r])'
    BY <2>1, <2>2 DEF RunOK
  <2>6. AsPlanned(run[r], results[r])'
    BY <2>1, <2>2, <2>3, <2>4 DEF AsPlanned, IsStep
  <2> QED BY <2>5, <2>6
<1>5. TypeOK' /\ RunInv'
  BY <1>1, <1>2, <1>4 DEF TypeOK, RunInv
<1> QED BY <1>3, <1>5 DEF IInv

(* A writer takes a step. *)
LEMMA WriterStep ==
  ASSUME IInv, NEW w \in Writers, NEW t \in WriterRows, wr' = [wr EXCEPT ![w] = t],
         DOMAIN bundles \subseteq DOMAIN bundles',
         t.pc = "bundle" => t.by \in Accounts,
         t.pc \in {"case", "steps"} => t.bundle \in DOMAIN bundles',
         t.pc = "steps" =>
           /\ t.todo # <<>> /\ t.case \in DOMAIN cases' /\ cases'[t.case].steps = <<>>
           /\ \A v \in Writers \ {w} : wr[v].pc = "steps" => wr[v].case # t.case,
         \A v \in Writers \ {w} : wr[v].pc = "steps" =>
           wr[v].case \in DOMAIN cases' /\ cases'[wr[v].case].steps = <<>>
  PROVE  WriterInv'
<1>1. WriterInv
  BY DEF IInv
<1>2. wr' \in [Writers -> WriterRows] /\ wr'[w] = t /\ \A v \in Writers \ {w} : wr'[v] = wr[v]
  BY <1>1 DEF WriterInv
<1>3. ASSUME NEW v \in Writers
      PROVE  /\ wr'[v].pc = "bundle" => wr'[v].by \in Accounts
             /\ wr'[v].pc \in {"case", "steps"} => wr'[v].bundle \in DOMAIN bundles'
             /\ wr'[v].pc = "steps" =>
                  /\ wr'[v].todo # <<>> /\ wr'[v].case \in DOMAIN cases'
                  /\ cases'[wr'[v].case].steps = <<>>
  <2>1. CASE v = w
    BY <1>2, <2>1
  <2>2. CASE v # w
    BY <1>1, <1>2, <2>2 DEF WriterInv
  <2> QED BY <2>1, <2>2
<1>4. ASSUME NEW u \in Writers, NEW v \in Writers,
             wr'[u].pc = "steps", wr'[v].pc = "steps", wr'[u].case = wr'[v].case
      PROVE  u = v
  BY <1>1, <1>2, <1>4 DEF WriterInv
<1> QED BY <1>2, <1>3, <1>4 DEF WriterInv

(* A run takes a step. *)
LEMMA RunStep ==
  ASSUME IInv, NEW r \in Runs, NEW t \in RunRows, NEW res \in Seq(ResultRows),
         run' = [run EXCEPT ![r] = t], results' = [results EXCEPT ![r] = res],
         UNCHANGED <<bundles, review, cases, wr>>,
         RunOK(t, res), AsPlanned(t, res), FileInv'
  PROVE  IInv'
<1>1. TypeOK /\ WriterInv /\ RunInv
  BY DEF IInv
<1>2. TablesOK' /\ WriterInv'
  BY <1>1 DEF TypeOK, TablesOK, WriterInv, review
<1>3. /\ run' \in [Runs -> RunRows] /\ results' \in [Runs -> Seq(ResultRows)]
      /\ run'[r] = t /\ results'[r] = res
      /\ \A q \in Runs \ {r} : run'[q] = run[q] /\ results'[q] = results[q]
  BY <1>1 DEF RunInv
<1>4. ASSUME NEW q \in Runs
      PROVE  RunOK(run[q], results[q])' /\ AsPlanned(run[q], results[q])'
  <2>1. RunOK(run'[q], results'[q]) /\ AsPlanned(run'[q], results'[q])
    BY <1>1, <1>3 DEF TypeOK, RunInv
  <2>2. RunOK(run[q], results[q])'
    BY <2>1 DEF RunOK
  <2>3. AsPlanned(run[q], results[q])'
    BY <2>1 DEF AsPlanned, IsStep
  <2> QED BY <2>2, <2>3
<1>5. TypeOK' /\ RunInv'
  BY <1>2, <1>3, <1>4 DEF TypeOK, RunInv
<1> QED BY <1>2, <1>5 DEF IInv

(* What a model or the stub answers are sequences of steps. *)
LEMMA GeneratedTests == GenerateTests \subseteq Seq(Seq(TestSteps))
<1>1. ASSUME NEW extra \in 0 .. 2 PROVE GenerateTestsStub(extra) \in Seq(Seq(TestSteps))
  <2> DEFINE n == extra + 2
             smoke(i) == [critical |-> TRUE, index |-> i]
             interaction(i) == [critical |-> i < n, index |-> i]
             a == [i \in 1 .. 2 |-> smoke(i)]
             b == [i \in 1 .. n |-> interaction(i)]
  <2>1. n \in Nat
    OBVIOUS
  <2>2. (\A i \in 1 .. 2 : smoke(i) \in TestSteps) /\ \A i \in 1 .. n : interaction(i) \in TestSteps
    BY <2>1 DEF TestSteps
  <2>3. GenerateTestsStub(extra) = <<a, b>>
    BY DEF GenerateTestsStub
  <2> HIDE DEF n, smoke, interaction
  <2>4. a \in Seq(TestSteps) /\ b \in Seq(TestSteps)
    BY <2>1, <2>2
  <2> HIDE DEF a, b
  <2>5. <<a, b>> \in Seq(Seq(TestSteps))
    BY <2>4
  <2> QED BY <2>3, <2>5
<1> QED BY <1>1, TestsAssumption DEF GenerateTests

(* The tables and who writes them, as the steps of the writers need them. *)
LEMMA TableTypes ==
  ASSUME IInv
  PROVE  /\ TablesOK /\ WriterInv
         /\ bundles \in Seq([status : {"Draft", "Approved"}, created_by : Accounts])
         /\ Len(bundles) \in Nat /\ DOMAIN bundles = 1 .. Len(bundles)
         /\ signing \cup approvals \subseteq Accounts \X DOMAIN bundles
         /\ \A w \in Writers : wr[w] \in WriterRows
<1> QED BY DEF IInv, TypeOK, TablesOK, WriterInv

LEMMA GenerateBundleStep ==
  ASSUME IInv, NEW w \in Writers, NEW u, GenerateBundle(w, u)
  PROVE  IInv'
<1>1. PICK tests \in GenerateTests :
        wr' = [wr EXCEPT ![w] = [@ EXCEPT !.pc = "bundle", !.todo = tests, !.by = u]]
  BY DEF GenerateBundle
<1> DEFINE t == [wr[w] EXCEPT !.pc = "bundle", !.todo = tests, !.by = u]
<1>2. u \in Accounts /\ tests \in Seq(Seq(TestSteps)) /\ wr[w] \in WriterRows
  BY RolesAssumption, GeneratedTests, TableTypes DEF GenerateBundle
<1>3. t \in WriterRows /\ t.pc = "bundle" /\ t.by \in Accounts
  BY <1>2 DEF WriterRows
<1>4. wr' = [wr EXCEPT ![w] = t]
  BY <1>1
<1> HIDE DEF t
<1>5. UNCHANGED <<bundles, review, cases, execution>>
  BY DEF GenerateBundle
<1>6. WriterInv'
  BY <1>3, <1>4, <1>5, WriterStep, TableTypes DEF WriterInv
<1>7. TablesOK'
  BY <1>5, TableTypes DEF TablesOK, review
<1>8. \A c \in DOMAIN cases : StepsKept(c)
  BY DEF GenerateBundle, StepsKept
<1> QED BY <1>5, <1>6, <1>7, <1>8, ExecutionKept

LEMMA DevelopTestScriptStep ==
  ASSUME IInv, NEW w \in Writers, NEW u, NEW b \in DOMAIN bundles, DevelopTestScript(w, u, b)
  PROVE  IInv'
<1>1. PICK tests \in GenerateTests :
        wr' = [wr EXCEPT ![w] = [@ EXCEPT !.pc = "case", !.todo = tests, !.bundle = b]]
  BY DEF DevelopTestScript
<1> DEFINE t == [wr[w] EXCEPT !.pc = "case", !.todo = tests, !.bundle = b]
<1>2. b \in Nat /\ tests \in Seq(Seq(TestSteps)) /\ wr[w] \in WriterRows
  BY GeneratedTests, TableTypes
<1>3. t \in WriterRows /\ t.pc = "case" /\ t.bundle = b
  BY <1>2 DEF WriterRows
<1>4. wr' = [wr EXCEPT ![w] = t]
  BY <1>1
<1> HIDE DEF t
<1>5. UNCHANGED <<bundles, review, cases, execution>>
  BY DEF DevelopTestScript
<1>6. WriterInv'
  BY <1>3, <1>4, <1>5, WriterStep, TableTypes DEF WriterInv
<1>7. TablesOK'
  BY <1>5, TableTypes DEF TablesOK, review
<1>8. \A c \in DOMAIN cases : StepsKept(c)
  BY DEF DevelopTestScript, StepsKept
<1> QED BY <1>5, <1>6, <1>7, <1>8, ExecutionKept

LEMMA WriterEndsStep ==
  ASSUME IInv, NEW w \in Writers, WriterEnds(w)
  PROVE  IInv'
<1>1. NoWriter \in WriterRows /\ NoWriter.pc = "idle"
  <2>1. <<>> \in Seq(Seq(TestSteps))
    OBVIOUS
  <2> QED BY <2>1 DEF NoWriter, WriterRows
<1>2. wr' = [wr EXCEPT ![w] = NoWriter] /\ UNCHANGED <<bundles, review, cases, execution>>
  BY DEF WriterEnds
<1>3. WriterInv'
  BY <1>1, <1>2, WriterStep, TableTypes DEF WriterInv
<1>4. TablesOK'
  BY <1>2, TableTypes DEF TablesOK, review
<1>5. \A c \in DOMAIN cases : StepsKept(c)
  BY DEF WriterEnds, StepsKept
<1> QED BY <1>2, <1>3, <1>4, <1>5, ExecutionKept

LEMMA StoreBundleStep ==
  ASSUME IInv, NEW w \in Writers, StoreBundle(w)
  PROVE  IInv'
<1> DEFINE B == [status : {"Draft", "Approved"}, created_by : Accounts]
           row == [status |-> "Draft", created_by |-> wr[w].by]
           n == Len(bundles) + 1
           t == [wr[w] EXCEPT !.pc = "case", !.bundle = n, !.by = None]
<1>0. /\ bundles' = Append(bundles, row) /\ wr' = [wr EXCEPT ![w] = t]
      /\ wr[w].pc = "bundle" /\ UNCHANGED <<review, cases, execution>>
  BY DEF StoreBundle
<1>1. bundles \in Seq(B) /\ row \in B /\ wr[w] \in WriterRows /\ Len(bundles) \in Nat
  <2>1. wr[w].by \in Accounts
    BY <1>0, TableTypes DEF WriterInv
  <2> QED BY <2>1, TableTypes
<1>2. t \in WriterRows /\ t.pc = "case" /\ t.bundle = n
  <2>1. n \in Nat
    BY <1>1
  <2> HIDE DEF n
  <2> QED BY <1>1, <2>1 DEF WriterRows
<1> HIDE DEF B, row, t
<1>3. /\ bundles' \in Seq(B) /\ Len(bundles') = n /\ DOMAIN bundles' = 1 .. n
      /\ \A b \in 1 .. Len(bundles) : bundles'[b] = bundles[b]
  BY <1>0, <1>1, AppendProperties
<1>4. DOMAIN bundles \subseteq DOMAIN bundles' /\ n \in DOMAIN bundles'
      /\ \A b \in DOMAIN bundles : bundles'[b] = bundles[b]
  BY <1>1, <1>3
<1>5. WriterInv'
  BY <1>0, <1>2, <1>4, WriterStep, TableTypes DEF WriterInv
<1>6. TablesOK'
  <2> DEFINE C == [bundle : DOMAIN bundles, steps : Seq(TestSteps)]
             D == [bundle : DOMAIN bundles', steps : Seq(TestSteps)]
  <2>1. cases \in Seq(C) /\ C \subseteq D
    BY <1>4, TableTypes DEF TablesOK
  <2>2. cases' \in Seq(D)
    <3> HIDE DEF C, D
    <3> QED BY <1>0, <2>1, SeqMonotonic
  <2>3. signing' \cup approvals' \subseteq Accounts \X DOMAIN bundles'
    BY <1>0, <1>4, TableTypes DEF review
  <2> QED BY <1>3, <2>2, <2>3 DEF TablesOK, B
<1>7. \A c \in DOMAIN cases : StepsKept(c)
  BY DEF StoreBundle, StepsKept
<1> QED BY <1>0, <1>4, <1>5, <1>6, <1>7, ExecutionKept

(* The cases change: one is added, or the steps of one are. *)
LEMMA CasesStep ==
  ASSUME IInv, NEW C, C = [bundle : DOMAIN bundles, steps : Seq(TestSteps)], cases' \in Seq(C),
         UNCHANGED <<bundles, review, execution>>, WriterInv',
         \A c \in DOMAIN cases : /\ c \in DOMAIN cases' /\ cases'[c].bundle = cases[c].bundle
                                 /\ StepsKept(c)
  PROVE  IInv'
<1>1. TablesOK'
  BY TableTypes DEF TablesOK, review
<1> QED BY <1>1, ExecutionKept

LEMMA StoreCaseStep ==
  ASSUME IInv, NEW w \in Writers, StoreCase(w)
  PROVE  IInv'
<1> DEFINE C == [bundle : DOMAIN bundles, steps : Seq(TestSteps)]
           row == [bundle |-> wr[w].bundle, steps |-> <<>>]
           n == Len(cases) + 1
           t == [wr[w] EXCEPT !.pc = "steps", !.case = n]
<1>0. /\ cases' = Append(cases, row) /\ wr' = [wr EXCEPT ![w] = t] /\ wr[w].todo # <<>>
      /\ wr[w].pc = "case" /\ UNCHANGED <<bundles, review, execution>>
  BY DEF StoreCase
<1>1. cases \in Seq(C) /\ row \in C /\ wr[w] \in WriterRows /\ Len(cases) \in Nat
  <2>1. wr[w].bundle \in DOMAIN bundles /\ <<>> \in Seq(TestSteps)
    BY <1>0, TableTypes DEF WriterInv
  <2> QED BY <2>1, TableTypes DEF TablesOK
<1>2. t \in WriterRows /\ t.pc = "steps" /\ t.case = n /\ t.todo # <<>> /\ t.bundle = wr[w].bundle
  <2>1. n \in Nat
    BY <1>1
  <2> HIDE DEF n
  <2> QED BY <1>0, <1>1, <2>1 DEF WriterRows
<1>3. row.steps = <<>>
  OBVIOUS
<1> HIDE DEF C, row, t
<1>4. /\ cases' \in Seq(C) /\ DOMAIN cases' = 1 .. n /\ DOMAIN cases = 1 .. Len(cases)
      /\ cases'[n] = row /\ \A c \in 1 .. Len(cases) : cases'[c] = cases[c]
  BY <1>0, <1>1, AppendProperties
<1>5. n \in DOMAIN cases' /\ n \notin DOMAIN cases
      /\ \A c \in DOMAIN cases : c \in DOMAIN cases' /\ cases'[c] = cases[c]
  BY <1>1, <1>4
<1>6. WriterInv'
  BY <1>0, <1>2, <1>3, <1>4, <1>5, WriterStep, TableTypes DEF WriterInv
<1>7. \A c \in DOMAIN cases : StepsKept(c)
  BY <1>5 DEF StepsKept
<1> QED BY <1>0, <1>4, <1>5, <1>6, <1>7, CasesStep DEF C

LEMMA StoreStepsStep ==
  ASSUME IInv, NEW w \in Writers, StoreSteps(w)
  PROVE  IInv'
<1> DEFINE C == [bundle : DOMAIN bundles, steps : Seq(TestSteps)]
           c == wr[w].case
           row == [cases[c] EXCEPT !.steps = Head(wr[w].todo)]
           t == [wr[w] EXCEPT !.pc = "case", !.case = 0, !.todo = Tail(wr[w].todo)]
<1>0. /\ cases' = [cases EXCEPT ![c] = row] /\ wr' = [wr EXCEPT ![w] = t]
      /\ wr[w].pc = "steps" /\ UNCHANGED <<bundles, review, execution>>
  BY DEF StoreSteps
<1>1. /\ wr[w] \in WriterRows /\ wr[w].todo \in Seq(Seq(TestSteps)) /\ wr[w].todo # <<>>
      /\ c \in DOMAIN cases /\ cases[c].steps = <<>> /\ wr[w].bundle \in DOMAIN bundles
      /\ \A v \in Writers \ {w} : wr[v].pc = "steps" =>
           wr[v].case # c /\ wr[v].case \in DOMAIN cases /\ cases[wr[v].case].steps = <<>>
  BY <1>0, TableTypes DEF WriterInv, WriterRows
<1>2. Head(wr[w].todo) \in Seq(TestSteps) /\ Tail(wr[w].todo) \in Seq(Seq(TestSteps))
  BY <1>1, HeadTailProperties
<1>3. t \in WriterRows /\ t.pc = "case" /\ t.bundle = wr[w].bundle
  BY <1>1, <1>2 DEF WriterRows
<1>4. cases \in Seq(C) /\ row \in C /\ row.bundle = cases[c].bundle
  BY <1>1, <1>2, TableTypes, CaseTypes DEF TablesOK
<1> HIDE DEF C, row, t, c
<1>5. /\ cases' \in Seq(C) /\ DOMAIN cases' = DOMAIN cases /\ cases'[c] = row
      /\ \A d \in DOMAIN cases : d # c => cases'[d] = cases[d]
  BY <1>0, <1>1, <1>4, ExceptSeq
<1>6. WriterInv'
  BY <1>0, <1>1, <1>3, <1>5, WriterStep
<1>7. \A d \in DOMAIN cases : /\ d \in DOMAIN cases' /\ cases'[d].bundle = cases[d].bundle
                              /\ StepsKept(d)
  <2>1. DOMAIN <<>> = {}
    OBVIOUS
  <2> QED BY <1>1, <1>4, <1>5, <2>1 DEF StepsKept
<1> QED BY <1>0, <1>5, <1>6, <1>7, CasesStep DEF C

LEMMA EditStepStep ==
  ASSUME IInv, NEW u, NEW c \in DOMAIN cases, NEW i \in DOMAIN cases[c].steps, EditStep(u, c, i)
  PROVE  IInv'
<1> DEFINE C == [bundle : DOMAIN bundles, steps : Seq(TestSteps)]
           x == [cases[c].steps[i] EXCEPT !.critical = ~cases[c].steps[i].critical]
           steps == [cases[c].steps EXCEPT ![i] = x]
           row == [cases[c] EXCEPT !.steps = steps]
<1>0. cases' = [cases EXCEPT ![c] = row] /\ UNCHANGED <<bundles, review, wr, execution>>
  BY DEF EditStep
<1>1. cases \in Seq(C) /\ cases[c] \in C /\ cases[c].steps \in Seq(TestSteps)
  BY TableTypes, CaseTypes DEF TablesOK
<1>2. x \in TestSteps /\ x.index = cases[c].steps[i].index
  <2>1. cases[c].steps[i] \in TestSteps
    BY <1>1
  <2> QED BY <2>1 DEF TestSteps
<1> HIDE DEF x
<1>3. /\ steps \in Seq(TestSteps) /\ DOMAIN steps = DOMAIN cases[c].steps
      /\ \A j \in DOMAIN steps : steps[j].index = cases[c].steps[j].index
  BY <1>1, <1>2, ExceptSeq
<1> HIDE DEF steps
<1>4. row \in C /\ row.bundle = cases[c].bundle /\ row.steps = steps
  BY <1>1, <1>3
<1> HIDE DEF C, row
<1>5. /\ cases' \in Seq(C) /\ DOMAIN cases' = DOMAIN cases /\ cases'[c] = row
      /\ \A d \in DOMAIN cases : d # c => cases'[d] = cases[d]
  BY <1>0, <1>1, <1>4, ExceptSeq
<1>6. cases[c].steps # <<>>
  OBVIOUS
<1>7. WriterInv'
  BY <1>0, <1>5, <1>6, TableTypes DEF WriterInv
<1>8. \A d \in DOMAIN cases : /\ d \in DOMAIN cases' /\ cases'[d].bundle = cases[d].bundle
                              /\ StepsKept(d)
  BY <1>3, <1>4, <1>5 DEF StepsKept
<1> QED BY <1>0, <1>5, <1>7, <1>8, CasesStep DEF C

LEMMA ApproveBundleStep ==
  ASSUME IInv, NEW u, NEW b \in DOMAIN bundles, ApproveBundle(u, b)
  PROVE  IInv'
<1> DEFINE B == [status : {"Draft", "Approved"}, created_by : Accounts]
           row == [bundles[b] EXCEPT !.status = "Approved"]
<1>0. /\ u \in Accounts /\ bundles' = [bundles EXCEPT ![b] = row]
      /\ signing' \in {signing, signing \cup {<<u, b>>}}
      /\ UNCHANGED <<approvals, cases, wr, execution>>
  BY RolesAssumption DEF ApproveBundle
<1>1. bundles \in Seq(B) /\ Len(bundles) \in Nat /\ DOMAIN bundles = 1 .. Len(bundles)
  BY TableTypes
<1>2. row \in B /\ row.status = "Approved"
  <2>1. bundles[b] \in B
    <3> HIDE DEF B
    <3> QED BY <1>1
  <2> QED BY <2>1
<1> HIDE DEF B, row
<1>3. /\ bundles' \in Seq(B) /\ DOMAIN bundles' = DOMAIN bundles /\ bundles'[b] = row
      /\ \A d \in DOMAIN bundles : d # b => bundles'[d] = bundles[d]
  BY <1>0, <1>1, <1>2, ExceptSeq
<1>4. TablesOK'
  BY <1>0, <1>3, TableTypes DEF TablesOK, B
<1>5. WriterInv'
  BY <1>0, <1>3, TableTypes DEF WriterInv
<1>6. \A c \in DOMAIN cases : StepsKept(c)
  BY <1>0 DEF StepsKept
<1> QED BY <1>0, <1>2, <1>3, <1>4, <1>5, <1>6, ExecutionKept

LEMMA SignApprovalStep ==
  ASSUME IInv, NEW s \in signing, SignApproval(s)
  PROVE  IInv'
<1>1. TablesOK'
  BY TableTypes DEF TablesOK, SignApproval
<1>2. WriterInv'
  BY TableTypes DEF WriterInv, SignApproval
<1>3. \A c \in DOMAIN cases : StepsKept(c)
  BY DEF SignApproval, StepsKept
<1> QED BY <1>1, <1>2, <1>3, ExecutionKept DEF SignApproval

(* The runs, as their steps need them. *)
LEMMA RunTypes ==
  ASSUME IInv, NEW r \in Runs
  PROVE  /\ run[r] \in RunRows /\ results[r] \in Seq(ResultRows)
         /\ RunOK(run[r], results[r]) /\ AsPlanned(run[r], results[r])
         /\ TablesOK /\ FileInv
<1> QED BY DEF IInv, TypeOK, RunInv

(* Runs do not change the steps of the bundles. *)
LEMMA ShowsStay ==
  ASSUME UNCHANGED cases, NEW path, NEW image, Shows(path, image)
  PROVE  Shows(path, image)'
<1>1. \A c \in DOMAIN cases : c \in DOMAIN cases' /\ StepsKept(c)
  BY DEF StepsKept
<1> QED BY <1>1, ShowsKept

(* A step of a run that writes no result and takes no screenshot. *)
LEMMA QuietStep ==
  ASSUME IInv, NEW r \in Runs, NEW t \in RunRows, run' = [run EXCEPT ![r] = t],
         UNCHANGED <<bundles, review, cases, wr, results, evidence, files>>,
         t.shot = run[r].shot, RunOK(t, results[r]), AsPlanned(t, results[r])
  PROVE  IInv'
<1> DEFINE res == results[r]
<1>1. /\ results \in [Runs -> Seq(ResultRows)] /\ res \in Seq(ResultRows) /\ FileInv
      /\ run \in [Runs -> RunRows]
  BY DEF IInv, RunInv
<1>2. results' = [results EXCEPT ![r] = res]
  BY <1>1
<1>3. \A q \in Runs : run'[q].shot = run[q].shot
  BY <1>1
<1>4. FileInv'
  BY <1>1, <1>3, ShowsStay DEF FileInv
<1> HIDE DEF res
<1>5. RunOK(t, res) /\ AsPlanned(t, res)
  BY DEF res
<1> QED BY <1>1, <1>2, <1>4, <1>5, RunStep

LEMMA ExecuteBundleStep ==
  ASSUME IInv, NEW r \in Runs, NEW u, NEW b \in DOMAIN bundles, ExecuteBundle(r, u, b)
  PROVE  IInv'
<1> DEFINE t == [run[r] EXCEPT !.pc = "tests", !.status = "Running", !.bundle = b]
           res == results[r]
<1>0. /\ run[r].pc = "idle" /\ bundles[b].status = "Approved" /\ run' = [run EXCEPT ![r] = t]
      /\ UNCHANGED <<bundles, review, cases, wr, results, evidence, files>>
  BY DEF ExecuteBundle
<1>1. /\ t \in RunRows /\ t.pc = "tests" /\ t.status = "Running" /\ t.bundle = b
      /\ t.tests = run[r].tests /\ t.plan = run[r].plan /\ t.shot = run[r].shot
      /\ t.any_fail = run[r].any_fail
  <2>1. run[r] \in RunRows
    BY RunTypes
  <2>2. b \in Nat
    BY TableTypes
  <2> QED BY <2>1, <2>2 DEF RunRows
<1>2. DOMAIN <<>> = {} /\ Len(<<>>) = 0
  OBVIOUS
<1>3. RunOK(run[r], res) /\ AsPlanned(run[r], res)
  BY RunTypes
<1> HIDE DEF t, res
<1>4. RunOK(t, res)
  BY <1>0, <1>1, <1>3 DEF RunOK
<1>5. AsPlanned(t, res)
  BY <1>0, <1>1, <1>2, <1>3 DEF AsPlanned
<1> QED BY <1>0, <1>1, <1>4, <1>5, QuietStep DEF res

LEMMA LoadTestsStep ==
  ASSUME IInv, NEW r \in Runs, LoadTests(r)
  PROVE  IInv'
<1> DEFINE tests == CasesOf(run[r].bundle)
           t == [run[r] EXCEPT !.pc = "steps", !.tests = tests]
           res == results[r]
<1>0. /\ run[r].pc = "tests" /\ run' = [run EXCEPT ![r] = t]
      /\ UNCHANGED <<bundles, review, cases, wr, results, evidence, files>>
  BY DEF LoadTests
<1>1. /\ tests \in Seq(Nat) /\ IsInjective(tests)
      /\ Range(tests) = {c \in DOMAIN cases : cases[c].bundle = run[r].bundle}
  BY RunTypes, CasesOfFacts
<1>2. \A k \in DOMAIN tests : tests[k] \in DOMAIN cases /\ cases[tests[k]].bundle = run[r].bundle
  BY <1>1 DEF Range
<1> HIDE DEF tests
<1>3. /\ t \in RunRows /\ t.pc = "steps" /\ t.status = run[r].status /\ t.bundle = run[r].bundle
      /\ t.tests = tests /\ t.plan = run[r].plan /\ t.shot = run[r].shot
      /\ t.any_fail = run[r].any_fail
  BY <1>1, RunTypes DEF RunRows
<1>4. RunOK(run[r], res) /\ AsPlanned(run[r], res)
  BY RunTypes
<1> HIDE DEF t, res
<1>5. RunOK(t, res)
  BY <1>0, <1>3, <1>4 DEF RunOK
<1>6. AsPlanned(t, res)
  BY <1>0, <1>1, <1>2, <1>3, <1>4 DEF AsPlanned
<1> QED BY <1>0, <1>3, <1>5, <1>6, QuietStep DEF res

(* The first of the tests whose steps are not loaded, and the others. *)
LEMMA RestOfTests ==
  ASSUME NEW tests \in Seq(Nat), tests # <<>>, IsInjective(tests)
  PROVE  /\ Tail(tests) \in Seq(Nat) /\ IsInjective(Tail(tests))
         /\ Head(tests) \in Range(tests) /\ Range(Tail(tests)) = Range(tests) \ {Head(tests)}
<1> DEFINE rest == Tail(tests)
           n == Len(tests)
<1>1. /\ n \in Nat /\ n >= 1 /\ DOMAIN tests = 1 .. n /\ Head(tests) = tests[1]
  BY EmptySeq
<1>2. /\ rest \in Seq(Nat) /\ DOMAIN rest = 1 .. n - 1
      /\ \A i \in 1 .. n - 1 : rest[i] = tests[i + 1]
  BY HeadTailProperties
<1> HIDE DEF rest, n
<1>3. \A i \in DOMAIN rest : i + 1 \in DOMAIN tests /\ i + 1 # 1 /\ rest[i] = tests[i + 1]
  BY <1>1, <1>2
<1>4. \A i \in DOMAIN tests : i # 1 => i - 1 \in DOMAIN rest /\ rest[i - 1] = tests[i]
  <2> SUFFICES ASSUME NEW i \in 1 .. n, i # 1 PROVE i - 1 \in 1 .. n - 1 /\ rest[i - 1] = tests[i]
    BY <1>1, <1>2
  <2>1. i - 1 \in 1 .. n - 1 /\ (i - 1) + 1 = i
    BY <1>1
  <2> QED BY <1>2, <2>1
<1>5. 1 \in DOMAIN tests
  BY <1>1
<1>6. IsInjective(rest)
  <2> SUFFICES ASSUME NEW i \in DOMAIN rest, NEW j \in DOMAIN rest, rest[i] = rest[j] PROVE i = j
    BY DEF IsInjective
  <2>1. i + 1 = j + 1
    BY <1>3 DEF IsInjective
  <2> QED BY <1>1, <1>2, <2>1
<1>7. Range(rest) \subseteq Range(tests) \ {tests[1]}
  <2> SUFFICES ASSUME NEW i \in DOMAIN rest PROVE rest[i] \in Range(tests) /\ rest[i] # tests[1]
    BY DEF Range
  <2> QED BY <1>3, <1>5 DEF IsInjective, Range
<1>8. Range(tests) \ {tests[1]} \subseteq Range(rest)
  BY <1>4 DEF Range
<1> QED BY <1>1, <1>2, <1>5, <1>6, <1>7, <1>8 DEF rest, Range

LEMMA LoadStepsStep ==
  ASSUME IInv, NEW r \in Runs, LoadSteps(r)
  PROVE  IInv'
<1> DEFINE tests == run[r].tests
           test == Head(tests)
           rest == Tail(tests)
           old == run[r].plan
           new == StepsOf(<<test>>)
           plan == old \o new
           b == run[r].bundle
           t == [run[r] EXCEPT !.tests = rest, !.plan = plan]
           res == results[r]
<1>0. /\ run[r].pc = "steps" /\ tests # <<>> /\ run' = [run EXCEPT ![r] = t]
      /\ UNCHANGED <<bundles, review, cases, wr, results, evidence, files>>
  BY DEF LoadSteps
<1>1. /\ tests \in Seq(Nat) /\ IsInjective(tests) /\ old \in Seq(Pairs) /\ IsInjective(old)
      /\ \A k \in DOMAIN tests : tests[k] \in DOMAIN cases /\ cases[tests[k]].bundle = b
      /\ \A k \in DOMAIN old : IsStep(old[k], b) /\ old[k][1] \notin Range(tests)
  BY RunTypes DEF AsPlanned, RunRows
<1>2. TablesOK /\ RunOK(run[r], res) /\ AsPlanned(run[r], res)
  BY RunTypes
<1>3. /\ rest \in Seq(Nat) /\ IsInjective(rest) /\ test \in Range(tests)
      /\ Range(rest) = Range(tests) \ {test}
  <2> HIDE DEF tests
  <2> QED BY <1>0, <1>1, RestOfTests
<1>4. test \in Nat /\ test \in DOMAIN cases /\ cases[test].bundle = b
  BY <1>1, <1>3 DEF Range
<1> HIDE DEF tests, test, rest, old, b
<1>5. /\ new \in Seq(Pairs) /\ IsInjective(new)
      /\ Range(new) = {at \in Pairs : at[1] = test /\ at[2] \in DOMAIN cases[test].steps}
  <2>1. <<test>> \in Seq(Nat) /\ IsInjective(<<test>>) /\ Range(<<test>>) = {test}
    <3>1. DOMAIN <<test>> = {1} /\ <<test>>[1] = test
      OBVIOUS
    <3> QED BY <1>4, <3>1 DEF IsInjective, Range
  <2> DEFINE one == <<test>>
  <2> HIDE DEF one
  <2>2. /\ StepsOf(one) \in Seq(Pairs) /\ IsInjective(StepsOf(one))
        /\ Range(StepsOf(one)) =
             {at \in Pairs : at[1] \in Range(one) /\ at[2] \in DOMAIN cases[at[1]].steps}
    BY <1>2, <1>4, <2>1, StepsOfFacts DEF one
  <2>3. Range(one) = {test}
    BY <2>1 DEF one
  <2> QED BY <2>2, <2>3 DEF one
<1> HIDE DEF new
<1>6. Range(old) \cap Range(new) = {}
  <2>1. \A k \in DOMAIN old : old[k] \notin Range(new)
    BY <1>1, <1>3, <1>5
  <2> QED BY <2>1 DEF Range
<1>7. plan \in Seq(Pairs) /\ IsInjective(plan) /\ Range(plan) = Range(old) \cup Range(new)
  BY <1>1, <1>5, <1>6, ConcatElements
<1> HIDE DEF plan
<1>8. \A k \in DOMAIN plan : IsStep(plan[k], b) /\ plan[k][1] \notin Range(rest)
  <2>1. \A at \in Range(old) : IsStep(at, b) /\ at[1] \notin Range(rest)
    BY <1>1, <1>3 DEF Range
  <2>2. \A at \in Range(new) : IsStep(at, b) /\ at[1] \notin Range(rest)
    BY <1>3, <1>4, <1>5 DEF IsStep
  <2>3. \A k \in DOMAIN plan : plan[k] \in Range(old) \cup Range(new)
    BY <1>7 DEF Range
  <2> QED BY <2>1, <2>2, <2>3
<1>9. \A k \in DOMAIN rest : rest[k] \in DOMAIN cases /\ cases[rest[k]].bundle = b
  <2>1. \A c \in Range(tests) : c \in DOMAIN cases /\ cases[c].bundle = b
    BY <1>1 DEF Range
  <2> QED BY <1>3, <2>1 DEF Range
<1>10. /\ t \in RunRows /\ t.pc = "steps" /\ t.status = run[r].status /\ t.bundle = b
       /\ t.tests = rest /\ t.plan = plan /\ t.shot = run[r].shot /\ t.any_fail = run[r].any_fail
  BY <1>0, <1>3, <1>7, RunTypes DEF RunRows, b
<1>11. res = <<>> /\ DOMAIN <<>> = {} /\ Len(<<>>) = 0 /\ Len(plan) \in Nat
  BY <1>0, <1>2, <1>7 DEF AsPlanned
<1> HIDE DEF t, res
<1>12. RunOK(t, res)
  BY <1>0, <1>2, <1>10, <1>11 DEF RunOK, b
<1>13. AsPlanned(t, res)
  BY <1>0, <1>2, <1>3, <1>7, <1>8, <1>9, <1>10, <1>11 DEF AsPlanned, b
<1> QED BY <1>0, <1>10, <1>12, <1>13, QuietStep DEF res

LEMMA LaunchBrowserStep ==
  ASSUME IInv, NEW r \in Runs, LaunchBrowser(r)
  PROVE  IInv'
<1> DEFINE t == [run[r] EXCEPT !.pc = "exec"]
           res == results[r]
<1>0. /\ run[r].pc = "steps" /\ run' = [run EXCEPT ![r] = t]
      /\ UNCHANGED <<bundles, review, cases, wr, results, evidence, files>>
  BY DEF LaunchBrowser
<1>1. /\ t \in RunRows /\ t.pc = "exec" /\ t.status = run[r].status /\ t.bundle = run[r].bundle
      /\ t.tests = run[r].tests /\ t.plan = run[r].plan /\ t.shot = run[r].shot
      /\ t.any_fail = run[r].any_fail
  BY RunTypes DEF RunRows
<1>2. RunOK(run[r], res) /\ AsPlanned(run[r], res)
  BY RunTypes
<1> HIDE DEF t, res
<1>3. RunOK(t, res)
  BY <1>0, <1>1, <1>2 DEF RunOK
<1>4. AsPlanned(t, res)
  BY <1>0, <1>1, <1>2 DEF AsPlanned
<1> QED BY <1>0, <1>1, <1>3, <1>4, QuietStep DEF res

LEMMA FinishRunStep ==
  ASSUME IInv, NEW r \in Runs, FinishRun(r)
  PROVE  IInv'
<1> DEFINE status == IF run[r].any_fail THEN "Failed" ELSE "Passed"
           t == [run[r] EXCEPT !.pc = "done", !.status = status]
           res == results[r]
<1>0. /\ run[r].pc = "exec" /\ ~(Len(res) < Len(run[r].plan)) /\ run' = [run EXCEPT ![r] = t]
      /\ UNCHANGED <<bundles, review, cases, wr, results, evidence, files>>
  BY DEF FinishRun, Executing
<1>1. status \in {"Passed", "Failed"} /\ (status = "Failed" <=> run[r].any_fail)
  OBVIOUS
<1> HIDE DEF status
<1>2. /\ t \in RunRows /\ t.pc = "done" /\ t.status = status /\ t.bundle = run[r].bundle
      /\ t.tests = run[r].tests /\ t.plan = run[r].plan /\ t.shot = run[r].shot
      /\ t.any_fail = run[r].any_fail
  BY <1>1, RunTypes DEF RunRows
<1>3. RunOK(run[r], res) /\ AsPlanned(run[r], res)
  BY RunTypes
<1>4. Len(res) \in Nat /\ Len(run[r].plan) \in Nat
  <2>1. run[r].plan \in Seq(Pairs) /\ res \in Seq(ResultRows)
    BY RunTypes DEF RunRows
  <2> QED BY <2>1
<1> HIDE DEF t, res
<1>5. RunOK(t, res) /\ Len(res) = Len(t.plan)
  BY <1>0, <1>1, <1>2, <1>3, <1>4 DEF RunOK
<1>6. AsPlanned(t, res)
  BY <1>0, <1>1, <1>2, <1>3, <1>5 DEF AsPlanned
<1> QED BY <1>0, <1>2, <1>5, <1>6, QuietStep DEF res

LEMMA RunDiesStep ==
  ASSUME IInv, NEW r \in Runs, RunDies(r)
  PROVE  IInv'
<1> DEFINE t == [run[r] EXCEPT !.pc = "dead"]
           res == results[r]
<1>0. /\ run[r].pc \in {"tests", "steps", "exec", "attach"} /\ run' = [run EXCEPT ![r] = t]
      /\ UNCHANGED <<bundles, review, cases, wr, results, evidence, files>>
  BY DEF RunDies
<1>1. /\ t \in RunRows /\ t.pc = "dead" /\ t.status = run[r].status /\ t.bundle = run[r].bundle
      /\ t.tests = run[r].tests /\ t.plan = run[r].plan /\ t.shot = run[r].shot
      /\ t.any_fail = run[r].any_fail
  BY RunTypes DEF RunRows
<1>2. RunOK(run[r], res) /\ AsPlanned(run[r], res)
  BY RunTypes
<1> HIDE DEF t, res
<1>3. RunOK(t, res)
  BY <1>0, <1>1, <1>2 DEF RunOK
<1>4. AsPlanned(t, res)
  BY <1>0, <1>1, <1>2 DEF AsPlanned
<1> QED BY <1>0, <1>1, <1>3, <1>4, QuietStep DEF res

LEMMA AttachEvidenceStep ==
  ASSUME IInv, NEW r \in Runs, AttachEvidence(r)
  PROVE  IInv'
<1> DEFINE t == [run[r] EXCEPT !.pc = "exec"]
           res == results[r]
           added == {[result |-> Len(results[r]), path |-> s.path, sha256 |-> s.sha256] :
                       s \in run[r].shot}
<1>0. /\ run[r].pc = "attach" /\ run' = [run EXCEPT ![r] = t]
      /\ evidence' = [evidence EXCEPT ![r] = evidence[r] \cup added]
      /\ UNCHANGED <<bundles, review, cases, wr, results, files>>
  BY DEF AttachEvidence
<1>1. /\ t \in RunRows /\ t.pc = "exec" /\ t.status = run[r].status /\ t.bundle = run[r].bundle
      /\ t.tests = run[r].tests /\ t.plan = run[r].plan /\ t.shot = run[r].shot
      /\ t.any_fail = run[r].any_fail
  BY RunTypes DEF RunRows
<1>2. /\ RunOK(run[r], res) /\ AsPlanned(run[r], res) /\ FileInv /\ res \in Seq(ResultRows)
      /\ results \in [Runs -> Seq(ResultRows)] /\ run \in [Runs -> RunRows]
  BY RunTypes DEF IInv, RunInv
<1>3. \A s \in added : s.path \in DOMAIN files /\ Shows(s.path, s.sha256)
  BY <1>2 DEF FileInv
<1>4. results' = [results EXCEPT ![r] = res]
  BY <1>0, <1>2
<1> HIDE DEF t, res, added
<1>5. /\ \A q \in Runs : run'[q].shot = run[q].shot
      /\ evidence'[r] = evidence[r] \cup added
      /\ DOMAIN evidence' = Runs /\ \A q \in Runs \ {r} : evidence'[q] = evidence[q]
  BY <1>0, <1>1, <1>2 DEF FileInv
<1>6. FileInv'
  <2>1. ASSUME NEW q \in Runs, NEW s \in run'[q].shot \cup evidence'[q]
        PROVE  s.path \in DOMAIN files' /\ Shows(s.path, s.sha256)'
    <3>1. s \in run[q].shot \cup evidence[q] \/ s \in added
      BY <1>5, <2>1
    <3> QED BY <1>0, <1>2, <1>3, <3>1, ShowsStay DEF FileInv
  <2>2. (\A path \in DOMAIN files : Shows(path, files[path]))'
    BY <1>0, <1>2, ShowsStay DEF FileInv
  <2> QED BY <1>5, <2>1, <2>2 DEF FileInv
<1>7. RunOK(t, res)
  BY <1>0, <1>1, <1>2 DEF RunOK
<1>8. AsPlanned(t, res)
  BY <1>0, <1>1, <1>2 DEF AsPlanned
<1> QED BY <1>0, <1>1, <1>2, <1>4, <1>6, <1>7, <1>8, RunStep

(* The step a run is at. *)
LEMMA CurrentStep ==
  ASSUME IInv, NEW r \in Runs, Executing(r)
  PROVE  /\ Current(r) \in Pairs /\ Len(results[r]) \in Nat
         /\ DOMAIN results[r] = 1 .. Len(results[r])
         /\ run[r].plan \in Seq(Pairs) /\ Len(results[r]) + 1 =< Len(run[r].plan)
<1> DEFINE plan == run[r].plan
           res == results[r]
<1>1. plan \in Seq(Pairs) /\ res \in Seq(ResultRows) /\ Len(res) < Len(plan)
  BY RunTypes DEF RunRows, Executing
<1>2. Current(r) = plan[Len(res) + 1]
  BY DEF Current
<1> HIDE DEF plan, res
<1>3. Len(res) \in Nat /\ Len(plan) \in Nat /\ DOMAIN res = 1 .. Len(res)
  BY <1>1
<1>4. Len(res) + 1 \in 1 .. Len(plan)
  BY <1>1, <1>3
<1>5. Current(r) \in Pairs
  BY <1>1, <1>2, <1>4, ElementOfSeq
<1> QED BY <1>1, <1>3, <1>4, <1>5 DEF plan, res

(* Its row: a step of a test of the bundle. *)
LEMMA CurrentRow ==
  ASSUME IInv, NEW r \in Runs, Executing(r)
  PROVE  LET at == Current(r)
         IN  /\ at[1] \in DOMAIN cases /\ at[2] \in DOMAIN cases[at[1]].steps
             /\ at[1] \in Nat /\ IndexOf(at) \in Int
<1> DEFINE at == Current(r)
           n == Len(results[r]) + 1
<1>1. n \in DOMAIN run[r].plan
  BY CurrentStep
<1>2. IsStep(run[r].plan[n], run[r].bundle)
  BY <1>1, RunTypes DEF AsPlanned
<1>3. at[1] \in DOMAIN cases /\ at[2] \in DOMAIN cases[at[1]].steps
  BY <1>2 DEF IsStep, Current
<1> HIDE DEF at
<1>4. cases[at[1]].steps \in Seq(TestSteps) /\ at[1] \in Nat
  BY <1>3, CaseTypes, RunTypes
<1>5. cases[at[1]].steps[at[2]] \in TestSteps
  BY <1>3, <1>4
<1>6. IndexOf(at) \in Int
  BY <1>5 DEF IndexOf, TestSteps
<1> QED BY <1>3, <1>4, <1>6 DEF at

(* The result of the next step of the plan. *)
LEMMA ResultStep ==
  ASSUME IInv, NEW r \in Runs, Executing(r), NEW status \in {"PASS", "FAIL"},
         AddResult(r, status), NEW t \in RunRows, run' = [run EXCEPT ![r] = t],
         t.pc = "attach", t.status = run[r].status, t.bundle = run[r].bundle,
         t.tests = run[r].tests, t.plan = run[r].plan,
         t.any_fail <=> run[r].any_fail \/ status = "FAIL", FileInv'
  PROVE  IInv'
<1> DEFINE plan == run[r].plan
           old == results[r]
           row == [at |-> Current(r), status |-> status]
           res == Append(old, row)
           n == Len(old)
<1>1. /\ row \in ResultRows /\ old \in Seq(ResultRows) /\ row.at = plan[n + 1] /\ row.status = status
      /\ n \in Nat /\ DOMAIN old = 1 .. n /\ n + 1 =< Len(plan)
  BY CurrentStep, RunTypes DEF ResultRows, Current
<1>2. /\ results' = [results EXCEPT ![r] = res] /\ UNCHANGED <<bundles, review, cases, wr>>
      /\ run[r].pc = "exec"
  BY DEF AddResult, Executing
<1>3. RunOK(run[r], old) /\ AsPlanned(run[r], old)
  BY RunTypes
<1> HIDE DEF row, old
<1>4. /\ res \in Seq(ResultRows) /\ Len(res) = n + 1 /\ DOMAIN res = 1 .. n + 1
      /\ res[n + 1] = row /\ \A k \in 1 .. n : res[k] = old[k]
  BY <1>1, AppendProperties
<1> HIDE DEF res, n
<1>5. \A k \in DOMAIN res : res[k].at = plan[k]
  <2>1. \A k \in DOMAIN res : k = n + 1 \/ k \in DOMAIN old
    BY <1>1, <1>4
  <2>2. \A k \in DOMAIN old : res[k].at = plan[k]
    BY <1>1, <1>3, <1>4 DEF AsPlanned
  <2> QED BY <1>1, <1>4, <2>1, <2>2
<1>6. t.any_fail <=> \E k \in DOMAIN res : res[k].status = "FAIL"
  <2>1. run[r].any_fail <=> \E k \in DOMAIN old : old[k].status = "FAIL"
    BY <1>3 DEF AsPlanned
  <2>2. \A k \in DOMAIN res : k = n + 1 \/ k \in DOMAIN old
    BY <1>1, <1>4
  <2>3. \A k \in DOMAIN old : k \in DOMAIN res /\ res[k] = old[k]
    BY <1>1, <1>4
  <2>4. n + 1 \in DOMAIN res
    BY <1>1, <1>4
  <2> QED BY <1>1, <1>4, <2>1, <2>2, <2>3, <2>4
<1> HIDE DEF plan
<1>7. RunOK(t, res)
  BY <1>1, <1>2, <1>3, <1>4 DEF RunOK, plan
<1>8. AsPlanned(t, res)
  <2>1. \A k \in DOMAIN res : res[k].at = t.plan[k]
    BY <1>5 DEF plan
  <2> QED BY <1>2, <1>3, <1>6, <2>1 DEF AsPlanned
<1> QED BY <1>2, <1>4, <1>7, <1>8, RunStep

(* A screenshot shows what the name of its file says. *)
LEMMA ScreenshotStep ==
  ASSUME IInv, NEW r \in Runs, Executing(r), NEW fail \in BOOLEAN, NEW status \in {"PASS", "FAIL"},
         fail <=> status = "FAIL", AddResult(r, status), Screenshot(r, fail)
  PROVE  IInv'
<1> DEFINE at == Current(r)
           path == Path(r, at, fail)
           shown == [at |-> at, failed |-> fail]
           any_fail == run[r].any_fail \/ fail
           shot == {[path |-> path, sha256 |-> shown]}
           t == [run[r] EXCEPT !.pc = "attach", !.bound = TRUE, !.any_fail = any_fail, !.shot = shot]
<1>0. /\ files' = [p \in DOMAIN files \cup {path} |-> IF p = path THEN shown ELSE files[p]]
      /\ run' = [run EXCEPT ![r] = t] /\ UNCHANGED evidence
  BY DEF Screenshot, AddResult
<1>1. at \in Pairs /\ run[r] \in RunRows /\ FileInv /\ run \in [Runs -> RunRows]
  BY CurrentStep, RunTypes DEF IInv, RunInv
<1>2. shot \in SUBSET Shots /\ Shows(path, shown)
  <2>1. /\ at[1] \in DOMAIN cases /\ at[2] \in DOMAIN cases[at[1]].steps
        /\ at[1] \in Nat /\ IndexOf(at) \in Int
    BY CurrentRow
  <2>2. /\ path \in Runs \X Nat \X Int \X BOOLEAN /\ path[1] = r
    <3> HIDE DEF at
    <3> QED BY <2>1 DEF Path
  <2>3. shown \in Images /\ shown.at = at /\ shown.failed = fail
    BY <1>1 DEF Images
  <2>4. path = Path(r, at, fail)
    OBVIOUS
  <2> HIDE DEF at, path, shown
  <2>5. Shows(path, shown)
    BY <2>1, <2>2, <2>3, <2>4 DEF Shows
  <2>6. [path |-> path, sha256 |-> shown] \in Shots
    BY <2>2, <2>3 DEF Shots
  <2> QED BY <2>5, <2>6
<1>3. any_fail \in BOOLEAN /\ (any_fail <=> run[r].any_fail \/ status = "FAIL")
  OBVIOUS
<1>4. \A s \in shot : s.path = path /\ s.sha256 = shown
  OBVIOUS
<1> HIDE DEF any_fail, shot, path, shown
<1>5. /\ t \in RunRows /\ t.pc = "attach" /\ t.status = run[r].status /\ t.bundle = run[r].bundle
      /\ t.tests = run[r].tests /\ t.plan = run[r].plan /\ t.shot = shot /\ t.any_fail = any_fail
  BY <1>1, <1>2, <1>3 DEF RunRows
<1> HIDE DEF t
<1>6. FileInv'
  <2>0. UNCHANGED cases
    BY DEF AddResult
  <2>1. (\A p \in DOMAIN files : Shows(p, files[p]))'
    <3>1. \A p \in DOMAIN files' : Shows(p, files'[p])
      BY <1>0, <1>1, <1>2 DEF FileInv
    <3> QED BY <2>0, <3>1, ShowsStay
  <2>2. DOMAIN files' = DOMAIN files \cup {path}
    BY <1>0
  <2>3. run'[r].shot = shot /\ \A q \in Runs \ {r} : run'[q] = run[q]
    BY <1>0, <1>1, <1>5
  <2>4. ASSUME NEW q \in Runs, NEW s \in run'[q].shot \cup evidence'[q]
        PROVE  s.path \in DOMAIN files' /\ Shows(s.path, s.sha256)'
    <3>1. CASE q = r /\ s \in shot
      BY <1>2, <1>4, <2>0, <2>2, <3>1, ShowsStay
    <3>2. CASE s \in run[q].shot \cup evidence[q]
      BY <1>1, <2>0, <2>2, <3>2, ShowsStay DEF FileInv
    <3> QED BY <1>0, <2>3, <2>4, <3>1, <3>2
  <2> QED BY <1>0, <1>1, <2>1, <2>4 DEF FileInv
<1> QED BY <1>0, <1>3, <1>5, <1>6, ResultStep

LEMMA NoScreenshotStep ==
  ASSUME IInv, NEW r \in Runs, Executing(r), NEW status \in {"PASS", "FAIL"}, AddResult(r, status),
         UNCHANGED files, NEW t \in RunRows, run' = [run EXCEPT ![r] = t],
         t.pc = "attach", t.status = run[r].status, t.bundle = run[r].bundle,
         t.tests = run[r].tests, t.plan = run[r].plan, t.shot \subseteq run[r].shot,
         t.any_fail <=> run[r].any_fail \/ status = "FAIL"
  PROVE  IInv'
<1>1. FileInv /\ run \in [Runs -> RunRows] /\ UNCHANGED evidence
  BY RunTypes DEF IInv, RunInv, AddResult
<1>2. \A q \in Runs : run'[q].shot \subseteq run[q].shot
  BY <1>1
<1>3. FileInv'
  <2>1. UNCHANGED cases
    BY DEF AddResult
  <2> QED BY <1>1, <1>2, <2>1, ShowsStay DEF FileInv
<1> QED BY <1>3, ResultStep

LEMMA PassStepStep ==
  ASSUME IInv, NEW r \in Runs, PassStep(r)
  PROVE  IInv'
<1>1. Executing(r) /\ AddResult(r, "PASS")
  BY DEF PassStep
<1>2. CASE Screenshot(r, FALSE)
  BY <1>1, <1>2, ScreenshotStep
<1>3. CASE run' = [run EXCEPT ![r] = [@ EXCEPT !.pc = "attach"]] /\ UNCHANGED files
  <2> DEFINE t == [run[r] EXCEPT !.pc = "attach"]
  <2>1. /\ t \in RunRows /\ t.pc = "attach" /\ t.status = run[r].status /\ t.bundle = run[r].bundle
        /\ t.tests = run[r].tests /\ t.plan = run[r].plan /\ t.shot = run[r].shot
        /\ t.any_fail = run[r].any_fail
    BY RunTypes DEF RunRows
  <2>2. run' = [run EXCEPT ![r] = t]
    BY <1>3
  <2> HIDE DEF t
  <2> QED BY <1>1, <1>3, <2>1, <2>2, NoScreenshotStep
<1> QED BY <1>2, <1>3 DEF PassStep

LEMMA FailStepStep ==
  ASSUME IInv, NEW r \in Runs, FailStep(r)
  PROVE  IInv'
<1> DEFINE t == [run[r] EXCEPT !.pc = "attach", !.any_fail = TRUE, !.bound = TRUE, !.shot = {}]
<1>1. Executing(r) /\ AddResult(r, "FAIL")
  BY DEF FailStep
<1>2. CASE Screenshot(r, TRUE)
  BY <1>1, <1>2, ScreenshotStep
<1>3. CASE run' = [run EXCEPT ![r] = t] /\ UNCHANGED files
  <2>1. /\ t \in RunRows /\ t.pc = "attach" /\ t.status = run[r].status /\ t.bundle = run[r].bundle
        /\ t.tests = run[r].tests /\ t.plan = run[r].plan /\ t.shot = {} /\ t.any_fail
    BY RunTypes DEF RunRows
  <2> HIDE DEF t
  <2> QED BY <1>1, <1>3, <2>1, NoScreenshotStep
<1> QED BY <1>2, <1>3 DEF FailStep

(***************************************************************************)
(* Theorems about bundles and runs                                         *)
(***************************************************************************)

(* The invariant of the bundles, the writers and the runs, whatever is edited, added *)
(* or approved while a run goes on.                                                  *)
THEOREM BundlesInvariance == Spec => []IInv
<1>1. Init => IInv
  BY BundlesInitially
<1>2. IInv /\ [Next]_vars => IInv'
  <2>1. ASSUME IInv, Next PROVE IInv'
    <3>1. CASE \E u \in Accounts : Request(u)
      <4>1. PICK u \in Accounts : Request(u)
        BY <3>1
      <4>2. CASE \E w \in Writers : GenerateBundle(w, u) \/ \E b \in DOMAIN bundles : DevelopTestScript(w, u, b)
        BY <2>1, <4>2, GenerateBundleStep, DevelopTestScriptStep
      <4>3. CASE \E c \in DOMAIN cases : \E i \in DOMAIN cases[c].steps : EditStep(u, c, i)
        BY <2>1, <4>3, EditStepStep
      <4>4. CASE \E b \in DOMAIN bundles : ApproveBundle(u, b) \/ \E r \in Runs : ExecuteBundle(r, u, b)
        BY <2>1, <4>4, ApproveBundleStep, ExecuteBundleStep
      <4> QED BY <4>1, <4>2, <4>3, <4>4 DEF Request
    <3>2. CASE \E w \in Writers : Write(w)
      BY <2>1, <3>2, StoreBundleStep, StoreCaseStep, StoreStepsStep, WriterEndsStep DEF Write
    <3>3. CASE \E s \in signing : SignApproval(s)
      BY <2>1, <3>3, SignApprovalStep
    <3>4. CASE \E r \in Runs : Execute(r)
      BY <2>1, <3>4, LoadTestsStep, LoadStepsStep, LaunchBrowserStep, PassStepStep, FailStepStep,
         AttachEvidenceStep, FinishRunStep, RunDiesStep DEF Execute
    <3> QED BY <2>1, <3>1, <3>2, <3>3, <3>4 DEF Next
  <2>2. ASSUME IInv, UNCHANGED vars PROVE IInv'
    <3>1. UNCHANGED <<bundles, review, cases, wr, execution>>
      BY <2>2 DEF vars
    <3>2. TablesOK' /\ WriterInv'
      BY <2>2, <3>1, TableTypes DEF TablesOK, WriterInv, review
    <3>3. \A c \in DOMAIN cases : StepsKept(c)
      BY <3>1 DEF StepsKept
    <3> QED BY <2>2, <3>1, <3>2, <3>3, ExecutionKept
  <2> QED BY <2>1, <2>2
<1> QED BY <1>1, <1>2, PTL DEF Spec

(* The tables keep their types, a run has a status of its state, belongs to an approved *)
(* bundle and has no more results than steps.                                           *)
THEOREM BundlesTypeCorrect == Spec => []TypeOK
<1>1. IInv => TypeOK
  BY DEF IInv
<1> QED BY <1>1, BundlesInvariance, PTL

(* The evidence of any run matches its files, however many runs, failures and          *)
(* screenshots there are and whatever is edited or added meanwhile, but where two steps *)
(* of one test share a step_index.                                                      *)
THEOREM EvidenceMatches == Spec => []EvidenceMatchesFile
<1>1. ASSUME IInv PROVE EvidenceMatchesFile
  <2> SUFFICES ASSUME NEW r \in Runs, NEW ev \in evidence[r]
               PROVE  ev.path \in DOMAIN files /\ (files[ev.path] = ev.sha256 \/ Replaced(ev))
    BY DEF EvidenceMatchesFile
  <2> DEFINE path == ev.path
             old == ev.sha256
             new == files[path]
  <2>1. path \in DOMAIN files /\ Shows(path, old) /\ Shows(path, new)
    BY <1>1 DEF IInv, FileInv
  <2>2. path = Path(path[1], old.at, old.failed) /\ path = Path(path[1], new.at, new.failed)
        /\ old \in Images /\ new \in Images
    BY <2>1 DEF Shows
  <2>3. Replaced(ev) <=> /\ old.at # new.at /\ old.failed = new.failed
                         /\ old.at[1] = new.at[1] /\ IndexOf(old.at) = IndexOf(new.at)
    BY DEF Replaced
  <2> HIDE DEF path, old, new
  <2>4. /\ old.at[1] = new.at[1] /\ IndexOf(old.at) = IndexOf(new.at) /\ old.failed = new.failed
    BY <2>2 DEF Path
  <2>5. old.at = new.at => old = new
    BY <2>2, <2>4 DEF Images
  <2> QED BY <2>1, <2>3, <2>4, <2>5 DEF path, old, new
<1> QED BY <1>1, BundlesInvariance, PTL

(* The result the matrix shows for a step of the plan of a run that ended. *)
LEMMA ResultOfStep ==
  ASSUME IInv, NEW r \in Runs, run[r].pc = "done"
  PROVE  /\ DOMAIN results[r] = DOMAIN run[r].plan
         /\ \A k \in DOMAIN run[r].plan : RtmResult(r, run[r].plan[k]) = results[r][k].status
         /\ \A at : at \notin Range(run[r].plan) => RtmResult(r, at) = "N/A"
         /\ \A k \in DOMAIN results[r] : results[r][k].status \in {"PASS", "FAIL"}
<1> DEFINE plan == run[r].plan
           res == results[r]
<1>1. /\ plan \in Seq(Pairs) /\ res \in Seq(ResultRows) /\ AsPlanned(run[r], res)
  BY RunTypes DEF RunRows
<1>2. /\ Len(res) = Len(plan) /\ IsInjective(plan) /\ \A k \in DOMAIN res : res[k].at = plan[k]
  BY <1>1 DEF AsPlanned
<1> HIDE DEF plan, res
<1>3. DOMAIN res = DOMAIN plan /\ DOMAIN plan \subseteq Nat
  BY <1>1, <1>2
<1>4. \A k \in DOMAIN res : res[k].status \in {"PASS", "FAIL"}
  <2>1. \A k \in DOMAIN res : res[k] \in ResultRows
    BY <1>1
  <2> QED BY <2>1 DEF ResultRows
<1>5. ASSUME NEW k \in DOMAIN plan PROVE RtmResult(r, plan[k]) = res[k].status
  <2>1. {l \in DOMAIN res : res[l].at = plan[k]} = {k}
    BY <1>2, <1>3 DEF IsInjective
  <2>2. (CHOOSE l \in {k} : \A m \in {k} : l =< m) = k
    BY <1>3
  <2> QED BY <2>1, <2>2 DEF RtmResult, res
<1>6. ASSUME NEW at, at \notin Range(plan) PROVE RtmResult(r, at) = "N/A"
  <2>1. {l \in DOMAIN res : res[l].at = at} = {}
    BY <1>2, <1>3, <1>6 DEF Range
  <2> QED BY <2>1 DEF RtmResult, res
<1> QED BY <1>3, <1>4, <1>5, <1>6 DEF plan, res

(* The traceability matrix of every run that ended tells its verdict, whatever was done *)
(* to the bundle meanwhile and since.                                                   *)
THEOREM MatrixIsRight == Spec => []MatrixTellsVerdict
<1>1. ASSUME IInv PROVE MatrixTellsVerdict
  <2> SUFFICES ASSUME NEW r \in Runs, run[r].pc = "done"
               PROVE  LET all == StepsOf(CasesOf(run[r].bundle))
                          steps == {all[k] : k \in DOMAIN all}
                          plan == {run[r].plan[k] : k \in DOMAIN run[r].plan}
                      IN  /\ (run[r].status = "Failed")
                               <=> (\E at \in steps : RtmResult(r, at) = "FAIL")
                          /\ \A at \in steps : RtmResult(r, at) = "N/A" <=> at \notin plan
    BY DEF MatrixTellsVerdict
  <2> DEFINE b == run[r].bundle
             steps == Range(StepsOf(CasesOf(b)))
             plan == Range(run[r].plan)
  <2>1. steps = {at \in Pairs : IsStep(at, b)}
    <3>1. /\ CasesOf(b) \in Seq(Nat) /\ IsInjective(CasesOf(b))
          /\ Range(CasesOf(b)) = {c \in DOMAIN cases : cases[c].bundle = b}
      BY <1>1, RunTypes, CasesOfFacts
    <3> DEFINE tests == CasesOf(b)
    <3> HIDE DEF tests, b
    <3>2. steps = {at \in Pairs : at[1] \in Range(tests) /\ at[2] \in DOMAIN cases[at[1]].steps}
      BY <1>1, <3>1, RunTypes, StepsOfFacts DEF tests
    <3> QED BY <3>1, <3>2 DEF tests, IsStep
  <2>2. plan \subseteq steps
    BY <1>1, <2>1, RunTypes DEF AsPlanned, RunRows, Range
  <2>3. (run[r].status = "Failed") <=> \E k \in DOMAIN results[r] : results[r][k].status = "FAIL"
    BY <1>1, RunTypes DEF AsPlanned
  <2>4. \A at \in plan : RtmResult(r, at) \in {"PASS", "FAIL"}
    BY <1>1, ResultOfStep DEF Range
  <2>5. \A at : at \notin plan => RtmResult(r, at) = "N/A"
    BY <1>1, ResultOfStep
  <2>6. (\E k \in DOMAIN results[r] : results[r][k].status = "FAIL")
          <=> \E at \in plan : RtmResult(r, at) = "FAIL"
    BY <1>1, ResultOfStep DEF Range
  <2>7. /\ steps = {StepsOf(CasesOf(b))[k] : k \in DOMAIN StepsOf(CasesOf(b))}
        /\ plan = {run[r].plan[k] : k \in DOMAIN run[r].plan}
    BY DEF Range
  <2> HIDE DEF steps, plan
  <2>8. (run[r].status = "Failed") <=> (\E at \in steps : RtmResult(r, at) = "FAIL")
    BY <2>2, <2>3, <2>5, <2>6
  <2>9. \A at \in steps : RtmResult(r, at) = "N/A" <=> at \notin plan
    BY <2>4, <2>5
  <2> QED BY <2>7, <2>8, <2>9
<1> QED BY <1>1, BundlesInvariance, PTL
=============================================================================
