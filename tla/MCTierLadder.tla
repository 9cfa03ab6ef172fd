---------------------------- MODULE MCTierLadder ----------------------------
(* Small instances of TierLadder for TLC. *)
EXTENDS TierLadder, TLC

CONSTANTS c1, c2, m1, m2, k1, k2

OneChunk == {c1}
TwoChunks == {c1, c2}
NoChunk == {}
SecondChunk == {c2}
OneThread == {m1}
TwoThreads == {m1, m2}
TwoTasks == {k1, k2}

RunOnly == {"run"}
RunAndCompile == {"run", "compile"}
CompileAndInvalidate == {"compile", "invalidate"}
AllOps == {"run", "compile", "invalidate"}

Symmetry == Permutations(TwoThreads) \cup Permutations(TwoTasks)
=============================================================================
