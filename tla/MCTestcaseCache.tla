--------------------------- MODULE MCTestcaseCache ---------------------------
(* Instances of TestcaseCache for TLC. *)
EXTENDS TestcaseCache, TLC

TestcaseSymmetry == Permutations(Testcases)
=============================================================================
