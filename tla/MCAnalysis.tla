----------------------------- MODULE MCAnalysis -----------------------------
(* Instances of Analysis for TLC.                                          *)
EXTENDS Analysis, TLC

ASymmetry == Permutations(Workers) \cup Permutations(Clients)

=============================================================================
