---------------------------- MODULE MCUnifiedExec ----------------------------
(* UnifiedExec on a small instance; calls, writes and ids are model values    *)
(* that no definition tells apart, so any permutation of them is a symmetry.  *)
EXTENDS UnifiedExec, TLC

Symmetry == Permutations(Calls) \cup Permutations(Ids)
=============================================================================
