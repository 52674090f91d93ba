---------------------------- MODULE MCAIPipeline ----------------------------
(* Three requirements for AIPipeline: r1 and r2 begin alike and differ      *)
(* later, as two tenants' versions of a requirement do; r3 begins like them *)
(* but is for another system.                                               *)
EXTENDS AIPipeline, TLC

MCInput == [r1 |-> "login, then SSO", r2 |-> "login, then OTP", r3 |-> "login to SAP"]
MCKey ==
  [quality |-> [i \in {"login, then SSO", "login, then OTP", "login to SAP"} |-> "login"],
   cases |-> ("login, then SSO" :> "login") @@ ("login, then OTP" :> "login") @@ ("login to SAP" :> "login, SAP")]
MCFormatLists == {<<"PYTEST", "PLAYWRIGHT_TS">>, <<"GHERKIN">>}
=============================================================================
