------------------------------- MODULE Scopes -------------------------------
(***************************************************************************)
(* What the variables of the interpreter promise a program, without hash   *)
(* tables: a chain of scopes, one for each frame, each a finite map from   *)
(* names to values.  A name is looked up, and stored, in the innermost     *)
(* scope that has it; a new one is defined in the current scope            *)
(* (src/src/interp/interpreter.h:214-248).                                 *)
(***************************************************************************)
EXTENDS Integers, Sequences

CONSTANTS Names, Values, Undef

VARIABLES
  scopes,   \* the maps, globals first
  found     \* what the last lookup yielded

Empty == [n \in {} |-> Undef]

\* The innermost scope that has n, 0 if none has.
Owner(n) ==
  LET having == {i \in DOMAIN scopes : n \in DOMAIN scopes[i]}
  IN IF having = {} THEN 0 ELSE CHOOSE i \in having : \A j \in having : j <= i

Bound(scope, n, v) == [m \in DOMAIN scope \cup {n} |-> IF m = n THEN v ELSE scope[m]]

Init == scopes = <<Empty>> /\ found = Undef

Set(n, v) ==
  /\ LET i == IF Owner(n) = 0 THEN Len(scopes) ELSE Owner(n)
     IN scopes' = [scopes EXCEPT ![i] = Bound(scopes[i], n, v)]
  /\ UNCHANGED found

Lookup(n) ==
  /\ found' = IF Owner(n) = 0 THEN Undef ELSE scopes[Owner(n)][n]
  /\ UNCHANGED scopes

\* A call binds some parameters in a scope of its own.
Call(args) == scopes' = Append(scopes, args) /\ UNCHANGED found

Return ==
  /\ Len(scopes) > 1
  /\ scopes' = SubSeq(scopes, 1, Len(scopes) - 1)
  /\ UNCHANGED found

Next ==
  \/ \E n \in Names, v \in Values : Set(n, v)
  \/ \E n \in Names : Lookup(n)
  \/ \E D \in SUBSET Names : \E args \in [D -> Values] : Call(args)
  \/ Return

Spec == Init /\ [][Next]_<<scopes, found>>

=============================================================================
