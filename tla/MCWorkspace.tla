---------------------------- MODULE MCWorkspace ----------------------------
EXTENDS Workspace, TLC

\* Any two processes are alike.
Symmetry == Permutations(Procs)
=============================================================================
