---------------------------- MODULE MCLegacyApp -----------------------------
(* Small instances of LegacyApp for TLC: two pages that link to each other  *)
(* and to a third that is refused.                                          *)
EXTENDS LegacyApp

MCLinks == [u \in Urls |-> <<"home", "form", "logout">>]
=============================================================================
