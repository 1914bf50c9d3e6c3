----------------------------- MODULE MCPatchText ------------------------------
EXTENDS PatchText, TLC
=============================================================================
