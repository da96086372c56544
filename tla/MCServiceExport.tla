---------------------------- MODULE MCServiceExport ----------------------------
(* Instances of ServiceExportController for model checking.                *)
EXTENDS ServiceExportController, TLC

CONSTANTS x1, x2

MCSlice == {x1, x2}

Symmetry == Permutations(MCSlice)
=============================================================================
