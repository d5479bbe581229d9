----------------------------- MODULE MCMcpTools -----------------------------
EXTENDS McpTools, TLC

\* Any two drivers are alike.
Symmetry == Permutations(Drivers)
=============================================================================
