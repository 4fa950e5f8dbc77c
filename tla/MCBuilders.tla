------------------------------ MODULE MCBuilders ------------------------------
(***************************************************************************)
(* Small instances of BuildCoordinator for TLC.                            *)
(***************************************************************************)
EXTENDS BuildCoordinator, TLC

CONSTANTS j1, j2

OneJob == {j1}
TwoJobs == {j1, j2}

Symmetry == Permutations(TwoJobs)

=============================================================================
