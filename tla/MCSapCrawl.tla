----------------------------- MODULE MCSapCrawl -----------------------------
(* A launchpad with two groups of tiles for SapCrawl.                       *)
EXTENDS SapCrawl

MCLaunchpads ==
  {<<>>, <<[group |-> "hr", title |-> "a"], [group |-> "fi", title |-> "b"], [group |-> "fi", title |-> "c"]>>}
=============================================================================
