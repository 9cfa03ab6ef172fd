------------------------------- MODULE Passes -------------------------------
(***************************************************************************)
(* The passes of the Gigavolt pipeline (src/src/passman/pass.cpp), in the  *)
(* order of build_gigavolt_pipeline (src/src/tier2/tier2.cpp).             *)
(*                                                                         *)
(* A pass walks the nodes in order, those it adds included, and yields the *)
(* graph and whether it reports a change.  GlobalCodeMotionPass is not     *)
(* part of the pipeline.                                                   *)
(***************************************************************************)
EXTENDS Dominance, Bytecode

PassOrder ==
  <<"TypeNarrow", "CallInline", "EscapeAnalysis", "LocalForward", "GVN", "ConstFold",
    "AlgebraicSimp", "CompareFold", "BranchFold", "StrengthReduce", "LICM", "LoopUnroll",
    "BCE", "ReachPrune", "DCE">>

Outcome(g, changed) == [g |-> g, changed |-> changed]

\* Visit every node that is alive when the walk reaches it.  A visit adds at
\* most two nodes, and no node it adds makes a visit add more.
Walk(Visit(_, _), start) ==
  Sweep(LAMBDA t, id : IF id > Size(t.g) \/ Dead(t.g, id) THEN t ELSE Visit(t, id),
        start, 3 * Size(start.g))

Kind(t, id) == t.g.nodes[id].kind
Operands(t, id) == InputsOfKind(t.g, id, "Data")
IsConst(t, id) == Kind(t, id) = "ConstInt"
IsValue(t, id, value) == IsConst(t, id) /\ t.g.nodes[id].payload = value

\* The two data inputs of a binary node.
Binaries(t, id) == Len(Operands(t, id)) = 2

Grow(t, kind, flags, type, payload, inputs) ==
  [t EXCEPT !.g = add_node(@, kind, flags, type, payload, inputs), !.changed = TRUE]
GrowConst(t, value) == Grow(t, "ConstInt", {"Pure", "GVNable"}, "Int", value, <<>>)

Kill(t, id) == Outcome(mark_dead(t.g, id), TRUE)

\* Fault: the node is left alive.
ForwardOnly(t, id, new) == Outcome(replace_all_uses_with(t.g, id, new), TRUE)

Substitute(t, id, new) == Kill([t EXCEPT !.g = replace_all_uses_with(@, id, new)], id)
SubstituteNewest(t, id) == Substitute(t, id, Size(t.g))

\* nodes_ is full, and the next add_node moves it: a reference to a node
\* that a pass took before then reads freed memory.
Moves(g) == \E k \in 0 .. 12 : Size(g) + 1 = 2 ^ k

-----------------------------------------------------------------------------

\* Fault: the last use counts as none.
NearlyUnused(n) == n.useCount <= 1 /\ "Pure" \in n.flags

Unused(n) == n.useCount = 0 /\ "Pure" \in n.flags

DCE(g) ==
  Walk(LAMBDA t, id : IF Unused(t.g.nodes[id]) THEN Kill(t, id) ELSE t, Outcome(g, FALSE))

ConstFold(g) ==
  LET foldable(t, id) == /\ Kind(t, id) \in Arithmetic /\ Binaries(t, id)
                         /\ \A k \in 1 .. 2 : IsConst(t, Operands(t, id)[k])
      value(t, id) == BinaryValue(Kind(t, id), t.g.nodes[Operands(t, id)[1]].payload,
                                  t.g.nodes[Operands(t, id)[2]].payload)
  IN Walk(LAMBDA t, id : IF foldable(t, id)
                         THEN SubstituteNewest(GrowConst(t, value(t, id)), id) ELSE t,
          Outcome(g, FALSE))

\* The key of a node: kind, payload, data and control inputs, in ascending
\* order when the node is flagged Commutative.
Key(g, id) ==
  LET inputs == SelectSeq(g.nodes[id].inputs, LAMBDA e : e.kind # "Effect")
      ids == [k \in DOMAIN inputs |-> inputs[k].target]
  IN <<g.nodes[id].kind, g.nodes[id].payload,
       IF Flagged(g, id, "Commutative") THEN SortSeq(ids, <) ELSE ids>>

GVN(g) ==
  LET canonical(t, key) == {e \in t.seen : e.key = key}
      visit(t, id) ==
        LET same == canonical(t, Key(t.g, id))
            r == Substitute(t, id, (CHOOSE e \in same : TRUE).id)
        IN IF ~Flagged(t.g, id, "GVNable") THEN t
           ELSE IF same = {} THEN [t EXCEPT !.seen = @ \cup {[key |-> Key(t.g, id), id |-> id]}]
           ELSE [t EXCEPT !.g = r.g, !.changed = TRUE]
      done == Walk(visit, [g |-> g, changed |-> FALSE, seen |-> {}])
  IN Outcome(done.g, done.changed)

\* The node a binary node of that kind equals by an identity, NoNode for a new
\* constant 0; empty if there is none.
Identity(t, kind, x, y) ==
  CASE kind \in {"Add", "Sub"} /\ IsValue(t, y, 0) -> {x}
    [] kind = "Add" /\ IsValue(t, x, 0) -> {y}
    [] kind = "Sub" /\ x = y -> {NoNode}
    [] kind = "Mul" /\ (IsValue(t, x, 0) \/ IsValue(t, y, 0)) -> {NoNode}
    [] kind \in {"Mul", "Div"} /\ IsValue(t, y, 1) -> {x}
    [] kind = "Mul" /\ IsValue(t, x, 1) -> {y}
    [] OTHER -> {}

\* After a 0 was added the kind of the node is read through a reference that
\* may be stale: it may look like a Not, and then a Not as first operand is
\* replaced by its own operand.
AlgebraicSimp(g, garbled) ==
  LET misread(t, x) == garbled /\ Moves(t.g) /\ Kind(t, x) = "Not"
      simplify(t, id, x, worth) ==
        IF worth = {} THEN t
        ELSE LET zero == worth = {NoNode}
             IN Substitute(IF zero THEN GrowConst(t, 0) ELSE t, id,
                           IF ~zero THEN CHOOSE w \in worth : TRUE
                           ELSE IF misread(t, x) THEN Operands(t, x)[1] ELSE Size(t.g) + 1)
      visit(t, id) ==
        IF ~Binaries(t, id) THEN t
        ELSE simplify(t, id, Operands(t, id)[1],
                      Identity(t, Kind(t, id), Operands(t, id)[1], Operands(t, id)[2]))
  IN Walk(visit, Outcome(g, FALSE))

Inverted == [Eq |-> "Ne", Ne |-> "Eq", Lt |-> "Gte", Gt |-> "Lte", Lte |-> "Gt", Gte |-> "Lt"]

\* A comparison of a value with itself, and the negation of a comparison.
CompareFold(g) ==
  LET visit(t, id) ==
        LET data == Operands(t, id)
            inner == Operands(t, data[1])
            inverted == Grow(t, Inverted[Kind(t, data[1])], {"Pure", "GVNable", "Commutative"},
                             "Bool", 0, <<Data(inner[1]), Data(inner[2])>>)
        IN CASE Kind(t, id) \in {"Eq", "Ne"} /\ Len(data) = 2 /\ data[1] = data[2] ->
                  SubstituteNewest(GrowConst(t, Truth(Kind(t, id) = "Eq")), id)
             [] Kind(t, id) = "Not" /\ Len(data) = 1
                /\ Kind(t, data[1]) \in Comparisons /\ Len(inner) = 2 ->
                  SubstituteNewest(inverted, id)
             [] OTHER -> t
  IN Walk(visit, Outcome(g, FALSE))

\* The side of an If that a constant condition rules out is marked dead.
BranchFold(g) ==
  LET side(c) == IF c = 0 THEN "IfTrue" ELSE "IfFalse"
      ruled(t, id) == {s \in Ids(t.g) : /\ ~Dead(t.g, s)
                         /\ Kind(t, s) = side(t.g.nodes[Head(Operands(t, id))].payload)
                         /\ Len(t.g.nodes[s].inputs) = 1
                         /\ t.g.nodes[s].inputs[1].target = id}
      visit(t, id) ==
        IF Kind(t, id) = "If" /\ Operands(t, id) # <<>> /\ IsConst(t, Head(Operands(t, id)))
        THEN Sweep(LAMBDA u, s : IF s \in ruled(t, id) THEN Kill(u, s) ELSE u, t, Size(t.g))
        ELSE t
  IN Walk(visit, Outcome(g, FALSE))

\* By the power of two in the second operand; the kind of the node is read
\* after the shift amount was added.
StrengthReduce(g, garbled) ==
  LET power(v) == {k \in 0 .. WordBits - 2 : 2 ^ k = v}
      visit(t, id) ==
        LET x == Operands(t, id)[1]
            y == Operands(t, id)[2]
            k == CHOOSE k \in power(t.g.nodes[y].payload) : TRUE
            amount == GrowConst(t, k)
            left == (Kind(t, id) = "Mul") # (garbled /\ Moves(t.g))
            shift == Grow(amount, IF left THEN "Shl" ELSE "Shr", {"Pure", "GVNable"}, "Int", 0,
                          <<Data(x), Data(Size(amount.g))>>)
        IN IF /\ Kind(t, id) \in {"Mul", "Div"} /\ Binaries(t, id)
              /\ IsConst(t, y) /\ power(t.g.nodes[y].payload) # {}
           THEN SubstituteNewest(shift, id) ELSE t
  IN Walk(visit, Outcome(g, FALSE))

-----------------------------------------------------------------------------

\* The join of the operands' types: an Int turns Float next to a Float.
Join(t, data) ==
  FoldLeft(LAMBDA j, d : LET type == t.g.nodes[d].type
                         IN IF j = "Bottom" THEN type
                            ELSE IF {j, type} = {"Int", "Float"} THEN "Float" ELSE j,
           "Bottom", data)

Narrowed(t, id) ==
  LET joined == Join(t, Operands(t, id))
  IN CASE Kind(t, id) = "ConstInt" -> "Int"
       [] Kind(t, id) \in Arithmetic \cup {"Div", "Pow"} /\ joined # "Bottom" -> joined
       [] Kind(t, id) \in Comparisons \cup Logical \cup {"Not", "ToBool"} -> "Bool"
       [] Kind(t, id) = "ToFloat" -> "Float"
       [] OTHER -> t.g.nodes[id].type

\* At most 8 walks.
TypeNarrow(g) ==
  LET visit(t, id) == IF Narrowed(t, id) = t.g.nodes[id].type THEN t
                      ELSE Outcome([t.g EXCEPT !.nodes[id].type = Narrowed(t, id)], TRUE)
      again(t, k) == LET next == Walk(visit, t) IN IF next.g = t.g THEN t ELSE next
  IN Sweep(again, Outcome(g, FALSE), 8)

CallInline(g) ==
  Walk(LAMBDA t, id : IF /\ Kind(t, id) = "Call" /\ Operands(t, id) # <<>>
                         /\ Kind(t, Head(Operands(t, id))) = "ConstFunc"
                      THEN Outcome([t.g EXCEPT !.nodes[id].kind = "CallKnown"], TRUE) ELSE t,
       Outcome(g, FALSE))

SafeUses == {"LoadField", "StoreField", "CheckShape", "ShapeOf"}

\* An allocation only safe uses see is pinned, again in every round.
EscapeAnalysis(g) ==
  LET escapes(t, id) == \E u \in Ids(t.g) : /\ ~Dead(t.g, u) /\ Kind(t, u) \notin SafeUses
                                            /\ Data(id) \in ToSet(t.g.nodes[u].inputs)
  IN Walk(LAMBDA t, id : IF Kind(t, id) = "Allocate" /\ ~escapes(t, id)
                         THEN Outcome([t.g EXCEPT !.nodes[id].flags = @ \cup {"IsPinned"}], TRUE)
                         ELSE t, Outcome(g, FALSE))

\* Fault: the slots are not compared.
AnyStore(load, store) == load.kind = "LoadLocal" /\ store.kind = "StoreLocal"

Forwards(load, store) ==
  load.kind = "LoadLocal" /\ store.kind = "StoreLocal" /\ store.payload = load.payload

\* A load whose effect input is a store to the same slot yields what was
\* stored.  All its users move, those on the effect chain included.
LocalForward(g) ==
  LET visit(t, id) ==
        LET effects == InputsOfKind(t.g, id, "Effect")
            store == Head(effects)
        IN IF /\ effects # <<>> /\ store # NoNode
              /\ Forwards(t.g.nodes[id], t.g.nodes[store])
              /\ Operands(t, store) # <<>>
           THEN Substitute(t, id, Head(Operands(t, store))) ELSE t
  IN Walk(visit, Outcome(g, FALSE))

ValueInputs(g, n) ==
  (ToSet(InputsOfKind(g, n, "Data")) \cup ToSet(InputsOfKind(g, n, "Effect"))) \ {NoNode}

Needed(g) == Closure(ValueInputs(g, g.stop), LAMBDA n : ValueInputs(g, n), Size(g))

\* What control reaches from Start and what Stop's value and effects need.
ReachPrune(g) ==
  LET followers(n) == {j \in Ids(g) : ~Dead(g, j) /\ Control(n) \in ToSet(g.nodes[j].inputs)}
      reached == Closure({g.start}, followers, Size(g))
      needed == IF g.stop = NoNode THEN {} ELSE Needed(g)
      kept(id) == \/ id \in {g.start, g.stop}
                  \/ IF g.nodes[id].flags \cap {"IsControl", "IsEffect"} # {}
                     THEN id \in reached ELSE id \in needed
  IN IF g.start = NoNode THEN Outcome(g, FALSE)
     ELSE Walk(LAMBDA t, id : IF kept(id) THEN t ELSE Kill(t, id), Outcome(g, FALSE))

\* A pure node of a loop body whose operands come from outside the body
\* hangs off the dominator of the header.
LICM(g) ==
  LET idom == compute_dominance(g)
      loops == compute_loops(g, idom)
      hoisted(h, l, n) ==
        Sweep(LAMBDA u, p : IF h.nodes[n].inputs[p].kind = "Control"
                            THEN replace_input(u, n, p, idom[l.header]) ELSE u,
              h, Len(h.nodes[n].inputs))
      hoistable(t, l, n) ==
        /\ ~Dead(t.g, n) /\ Flagged(t.g, n, "Pure")
        /\ ToSet(Operands(t, n)) \cap l.body = {}
      hoist(t, l) ==
        Sweep(LAMBDA u, n : IF n \in l.body /\ hoistable(u, l, n)
                            THEN Outcome(hoisted(u.g, l, n), TRUE) ELSE u, t, Size(g))
      useful == {l \in loops : idom[l.header] # l.header}
  IN FoldLeft(hoist, Outcome(g, FALSE), SetToSeq(useful))

\* A check of a constant index against a constant length above it, or of
\* the index 0, is replaced by its index.
BCE(g) ==
  LET value(t, n) == t.g.nodes[n].payload
      proven(t, x, y) == \/ IsConst(t, x) /\ IsConst(t, y) /\ value(t, x) \in 0 .. value(t, y) - 1
                         \/ IsValue(t, x, 0)
  IN Walk(LAMBDA t, id : IF /\ Kind(t, id) = "CheckBounds" /\ Len(Operands(t, id)) >= 2
                            /\ proven(t, Operands(t, id)[1], Operands(t, id)[2])
                         THEN Substitute(t, id, Operands(t, id)[1]) ELSE t,
          Outcome(g, FALSE))

-----------------------------------------------------------------------------

\* An invalid NodeId, 0xFFFFFFFF, is taken for an index: LocalForward looks at the
\* effect input of a load (pass.cpp:909), and compute_dominance at the control inputs
\* of every node it visits (dominance.cpp:152).  Both inputs are invalid after a Return.
ReadsPastEnd(name, g) ==
  \/ /\ name = "LocalForward"
     /\ \E id \in Ids(g) : LET effects == InputsOfKind(g, id, "Effect")
                           IN /\ ~Dead(g, id) /\ g.nodes[id].kind = "LoadLocal"
                              /\ effects # <<>> /\ Head(effects) = NoNode
  \/ /\ name = "LICM" /\ g.start # NoNode
     /\ \E n \in Reachable(g, {}) \ {g.start} : NoNode \in ToSet(InputsOfKind(g, n, "Control"))

\* LoopUnroll finds loops and leaves them as they are.
PassOutcome(name, g, garbled) ==
  CASE name = "TypeNarrow" -> TypeNarrow(g)
    [] name = "CallInline" -> CallInline(g)
    [] name = "EscapeAnalysis" -> EscapeAnalysis(g)
    [] name = "LocalForward" -> LocalForward(g)
    [] name = "GVN" -> GVN(g)
    [] name = "ConstFold" -> ConstFold(g)
    [] name = "AlgebraicSimp" -> AlgebraicSimp(g, garbled)
    [] name = "CompareFold" -> CompareFold(g)
    [] name = "BranchFold" -> BranchFold(g)
    [] name = "StrengthReduce" -> StrengthReduce(g, garbled)
    [] name = "LICM" -> LICM(g)
    [] name = "LoopUnroll" -> Outcome(g, FALSE)
    [] name = "BCE" -> BCE(g)
    [] name = "ReachPrune" -> ReachPrune(g)
    [] name = "DCE" -> DCE(g)

=============================================================================
