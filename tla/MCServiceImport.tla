---------------------------- MODULE MCServiceImport ----------------------------
(* Instances of ServiceImportController for model checking.                *)
EXTENDS ServiceImportController, TLC

CONSTANTS s1, s2

MCSI == {s1, s2}

Symmetry == Permutations(MCSI)
=============================================================================
