------------------------------- MODULE Loops --------------------------------
(***************************************************************************)
(* What a counted loop of the C++ code computes.                           *)
(***************************************************************************)
EXTENDS Integers

\* What a loop over positions 1 .. n leaves of s.
Sweep(Visit(_, _), s, n) ==
  LET after[k \in 0 .. n] == IF k = 0 THEN s ELSE Visit(after[k - 1], k)
  IN after[n]

=============================================================================
