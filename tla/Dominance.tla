----------------------------- MODULE Dominance -----------------------------
(***************************************************************************)
(* compute_dominance and compute_loops (src/src/core/dominance.cpp) over   *)
(* the control nodes of a graph, and what a dominator is.                  *)
(***************************************************************************)
EXTENDS SonGraph, FiniteSetsExt, SequencesExt

ControlKinds == {"Start", "Region", "If", "IfTrue", "IfFalse", "Loop", "LoopExit",
                 "Stop", "Jump", "Return", "Unreachable"}

\* The successors over the use list, newest first.
ControlUsers(g, n) ==
  SelectSeq(UsesOfKind(g, n, "Control"),
            LAMBDA s : ~Dead(g, s) /\ g.nodes[s].kind \in ControlKinds)

\* post_order_dfs: the nodes in the order in which their visit ends.
RECURSIVE PostOrder(_, _, _)
PostOrder(g, n, order) ==
  LET successors == ControlUsers(g, n)
      below == Sweep(LAMBDA t, k : PostOrder(g, successors[k], t),
                     [order EXCEPT !.visited = @ \cup {n}], Len(successors))
  IN IF n \in order.visited THEN order
     ELSE [below EXCEPT !.done = Append(@, n)]

\* Fault: the predecessor found first stays the dominator.
FirstFound(idom, rpo, a, b) == b

\* intersect: the finger later in reverse post-order climbs.
RECURSIVE Climb(_, _, _, _)
Climb(idom, rpo, a, b) ==
  IF a = b \/ a = NoNode \/ b = NoNode THEN a
  ELSE IF rpo[a] > rpo[b] THEN Climb(idom, rpo, idom[a], b)
       ELSE Climb(idom, rpo, a, idom[b])

Intersect(idom, rpo, a, b) == Climb(idom, rpo, a, b)

\* One node: the intersection of the predecessors that have a dominator.  What the
\* code reads for one that is no node (dominance.cpp:152) counts as false here, if the
\* read returns at all.
Refine(g, rpo, idom, n) ==
  LET preds == SelectSeq(InputsOfKind(g, n, "Control"),
                         LAMBDA p : p \in DOMAIN rpo /\ idom[p] # NoNode)
      meet == FoldLeft(LAMBDA d, p : Intersect(idom, rpo, p, d), preds[1], Tail(preds))
  IN IF preds = <<>> THEN idom ELSE [idom EXCEPT ![n] = meet]

\* At most 100 rounds over the nodes in reverse post-order.
RECURSIVE Refined(_, _, _, _, _)
Refined(g, order, rpo, idom, rounds) ==
  LET next == Sweep(LAMBDA d, k : IF order[k] = g.start THEN d
                                  ELSE Refine(g, rpo, d, order[k]), idom, Len(order))
  IN IF next = idom \/ rounds = 0 THEN next
     ELSE Refined(g, order, rpo, next, rounds - 1)

\* idom is NoNode where nothing is known; reachable and the depth in the
\* tree follow from it.
compute_dominance(g) ==
  LET order == Reverse(PostOrder(g, g.start, [visited |-> {}, done |-> <<>>]).done)
      rpo == [n \in ToSet(order) |-> CHOOSE k \in DOMAIN order : order[k] = n]
      first == [n \in Ids(g) |-> IF n = g.start THEN n ELSE NoNode]
  IN IF g.start = NoNode THEN [n \in Ids(g) |-> NoNode]
     ELSE Refined(g, order, rpo, first, 100)

RECURSIVE Dominates(_, _, _)
Dominates(idom, d, n) ==
  \/ d = n
  \/ idom[n] \notin {NoNode, n} /\ Dominates(idom, d, idom[n])

-----------------------------------------------------------------------------

\* What grows from S until Next adds nothing.
Closure(S, Next(_), n) == Sweep(LAMBDA T, k : T \cup UNION {Next(x) : x \in T}, S, n)

ControlSuccessors(g, n) == ToSet(ControlUsers(g, n))

\* compute_loops: an edge from target to a control node src that target
\* dominates and that reaches target again is taken for a back edge.  The
\* body grows from src over the nodes that have a control input in it, as
\* long as the header dominates them.
compute_loops(g, idom) ==
  LET reaches(src, target) ==
        target \in Closure(ControlSuccessors(g, src), LAMBDA n : ControlSuccessors(g, n), Size(g))
      fed(target, n) ==
        {j \in Ids(g) : /\ ~Dead(g, j) /\ j # target
                        /\ Control(n) \in ToSet(g.nodes[j].inputs)
                        /\ Dominates(idom, target, j)}
      loop(target, src) ==
        [header |-> target, body |-> Closure({src}, LAMBDA n : fed(target, n), Size(g))]
      edges == {e \in Ids(g) \X Ids(g) :
                  /\ ~Dead(g, e[2]) /\ g.nodes[e[2]].kind \in ControlKinds
                  /\ Control(e[1]) \in ToSet(g.nodes[e[2]].inputs)
                  /\ Dominates(idom, e[1], e[2])
                  /\ e[1] # e[2] => reaches(e[2], e[1])}
  IN {loop(e[1], e[2]) : e \in edges}

-----------------------------------------------------------------------------

\* d is on every path from Start to n.
Reachable(g, without) ==
  Closure({g.start} \ without, LAMBDA n : ControlSuccessors(g, n) \ without, Size(g))
TrueDominator(g, d, n) == n \in Reachable(g, {}) /\ n \notin Reachable(g, {d})

=============================================================================
