-------------------------- MODULE MCGenerationJobs --------------------------
(* Small instances of GenerationJobs for TLC.                               *)
EXTENDS GenerationJobs, TLC

CONSTANT r1

\* A triggered job names one requirement, the others all of them.
MCRequested ==
  [j \in GenJobs \cup TriggerJobs |-> IF j \in TriggerJobs THEN {r1} ELSE Reqs]

\* Injective prefixes, as for ids whose first eight digits differ.
MCPrefix == [r \in Reqs |-> r]

Symmetry == Permutations(Workers)
=============================================================================
