------------------------------ MODULE LegacyApp ------------------------------
(***************************************************************************)
(* The legacy UAT application with several users: administration and the   *)
(* explorations its users start.  Who may start one is read from the same  *)
(* rows the administrators change; a task that was started goes on         *)
(* whatever becomes of the account.                                        *)
(***************************************************************************)
EXTENDS AppExplore, LegacyAdmin

CONSTANT Explorer  \* the roles that may explore

ASSUME ExplorerAssumption == Explorer \subseteq Roles

appvars == <<xvars, avars>>

AppInit == ExploreInit /\ AdminInit

UiStartExplore(u, e) ==
  /\ CurrentUser(u, Explorer)
  /\ StartExplore(e)
  /\ UNCHANGED avars

AppNext ==
  \/ \E u \in Users, e \in Explorers : UiStartExplore(u, e)
  \/ \E e \in Explorers : (ExploreApp(e) \/ ExploreFails(e)) /\ UNCHANGED avars
  \/ AdminNext /\ UNCHANGED xvars

AppSpec == AppInit /\ [][AppNext]_appvars

AppTypeOK == ExploreTypeOK /\ AdminTypeOK
=============================================================================
