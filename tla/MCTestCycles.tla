---------------------------- MODULE MCTestCycles ----------------------------
(* Small instances of TestCycles for TLC.                                   *)
EXTENDS TestCycles, TLC

Symmetry == Permutations(Requests)
=============================================================================
