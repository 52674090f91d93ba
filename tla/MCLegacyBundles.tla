-------------------------- MODULE MCLegacyBundles ---------------------------
(* Small instances of LegacyBundles for TLC: beside the stub's, two answers *)
(* of a language model, a single test that is not critical and one whose    *)
(* two steps have the same index.                                           *)
EXTENDS LegacyBundles

MCLLMTests ==
  {<< <<[critical |-> FALSE, index |-> 1]>> >>,
   << [i \in 1 .. 2 |-> [critical |-> TRUE, index |-> 7]] >>}
=============================================================================
