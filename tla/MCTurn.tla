------------------------------- MODULE MCTurn -------------------------------
(***************************************************************************)
(* Small instances of Turn for TLC: one side-effecting call, one read-only *)
(* call, one call of a tool that was not granted, and callers that are     *)
(* interchangeable.                                                        *)
(***************************************************************************)
EXTENDS Turn, TLC

CallerSymmetry == Permutations(Callers)

=============================================================================
