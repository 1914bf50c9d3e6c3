---------------------------- MODULE MCPatchCommit ----------------------------
EXTENDS PatchCommit, TLC

Symmetry == Permutations(Paths)
=============================================================================
