---------------------------- MODULE MCSafepoint -----------------------------
(* Small instances of Safepoint for TLC. *)
EXTENDS Safepoint

CONSTANTS m1, m2, r1, r2

OneMutator == {m1}
TwoMutators == {m1, m2}
OneRequester == {r1}
TwoRequesters == {r1, r2}

\* With a poll at every second bytecode: a chunk that ends before its poll, one
\* that polls once and ends, and a loop.
SomeLengths == {0, 1, 3}
EndlessLoop == {0}

=============================================================================
