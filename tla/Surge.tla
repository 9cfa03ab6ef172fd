------------------------------- MODULE Surge -------------------------------
(***************************************************************************)
(* The two lowerings of Surge (src/src/tier2/tier2.cpp): Tier1ToSoN builds *)
(* the sea-of-nodes graph of a Tier1Function, SoNToTier1 turns the graph   *)
(* the passes have left back into a Tier1Function for Jolt's machine code. *)
(***************************************************************************)
EXTENDS Jolt, SonGraph

Shifts == {"Shl", "Shr"}
TwoOperands == Binary \cup Shifts \cup {"Div", "Pow"}
OneOperand == {"Neg", "Not", "IsTruthy", "ToFloat"}

-----------------------------------------------------------------------------
\* Tier1ToSoN: the graph, the node of each virtual register, the current
\* control and effect, the pending predecessors of each label, the Stops.

Lowerer(fn) ==
  LET labels == {fn.insts[k].payload : k \in {k \in DOMAIN fn.insts :
                                                fn.insts[k].op \in Transfers \cup {"Label"}}}
  IN [g |-> [add_node(EmptyGraph, "Start", {"IsControl"}, "Bottom", 0, <<>>)
               EXCEPT !.start = 1],
      node |-> [v \in 0 .. fn.vregs |-> NoNode], control |-> 1, effect |-> 1,
      preds |-> [l \in labels |-> <<>>], effects |-> [l \in labels |-> <<>>],
      stops |-> <<>>]

Add(s, kind, flags, type, payload, inputs) ==
  [s EXCEPT !.g = add_node(@, kind, flags, type, payload, inputs)]
Newest(s) == Size(s.g)

Constant(s, value) == Add(s, "ConstInt", {"Pure", "GVNable"}, "Int", value, <<>>)

\* lookup_vreg: a register without a node gets the constant 0.
Lookup(s, v) ==
  IF s.node[v] # NoNode THEN s
  ELSE LET z == Constant(s, 0) IN [z EXCEPT !.node[v] = Newest(z)]

Defines(s, v) == [s EXCEPT !.node[v] = Newest(s)]

ResultType(op) ==
  CASE op \in Comparisons \cup Logical \cup {"Not", "IsTruthy"} -> "Bool"
    [] op = "ToFloat" -> "Float"
    [] OTHER -> "Int"

\* What really commutes.
TrulyCommutative(op) ==
  IF op \in {"Add", "Mul", "Eq", "Ne"} \cup Logical THEN {"Commutative"} ELSE {}

\* Every operation but the shifts is flagged, Sub, Div and the orders too.
CommutativeFlag(op) == IF op \in Shifts THEN {} ELSE {"Commutative"}

BuildPure(s, inst) ==
  LET one == Lookup(s, inst.src1)
      two == Lookup(one, inst.src2)
      kind == IF inst.op = "IsTruthy" THEN "ToBool" ELSE inst.op
  IN IF inst.op \in TwoOperands
     THEN Defines(Add(two, kind, {"Pure", "GVNable"} \cup CommutativeFlag(inst.op),
                      ResultType(inst.op), 0,
                      <<Data(two.node[inst.src1]), Data(two.node[inst.src2])>>), inst.dst)
     ELSE Defines(Add(one, kind, {"Pure", "GVNable"}, ResultType(inst.op), 0,
                      <<Data(one.node[inst.src1])>>), inst.dst)

\* An effectful operation joins the chain of effects.
Chained(s, kind, type, payload, operands) ==
  LET a == Add(s, kind, {"IsEffect"}, type, payload,
               <<Control(s.control), Effect(s.effect)>> \o operands)
  IN [a EXCEPT !.effect = Newest(a)]

BuildAccess(s, inst) ==
  IF inst.op \in {"LoadLocal", "LoadVar"}
  THEN Defines(Chained(s, inst.op, IF inst.op = "LoadLocal" THEN "Int" ELSE "Top",
                       inst.payload, <<>>), inst.dst)
  ELSE LET l == Lookup(s, inst.src1)
       IN Chained(l, inst.op, "Bottom", inst.payload, <<Data(l.node[inst.src1])>>)

\* Every heap operation becomes a Call.
BuildHeap(s, inst) ==
  LET one == IF inst.src1 = 0 THEN s ELSE Lookup(s, inst.src1)
      two == IF inst.src2 = 0 THEN one ELSE Lookup(one, inst.src2)
      operands == (IF inst.src1 = 0 THEN <<>> ELSE <<Data(two.node[inst.src1])>>)
                  \o (IF inst.src2 = 0 THEN <<>> ELSE <<Data(two.node[inst.src2])>>)
      call == Chained(two, "Call", "Top", inst.payload, operands)
  IN IF inst.dst = 0 THEN call ELSE Defines(call, inst.dst)

Pending(s, label, control) ==
  [s EXCEPT !.preds[label] = Append(@, control), !.effects[label] = Append(@, s.effect)]
Unreachable(s) == [s EXCEPT !.control = NoNode, !.effect = NoNode]

AddStop(s, inputs) == Add(s, "Stop", {"IsControl"}, "Bottom", 0, inputs)

BuildEnd(s, inst) ==
  LET l == IF inst.op = "Return" THEN Lookup(s, inst.src1) ELSE s
      value == IF inst.op = "Return" THEN <<Data(l.node[inst.src1])>> ELSE <<>>
      stop == AddStop(l, value \o <<Control(s.control), Effect(s.effect)>>)
  IN Unreachable([stop EXCEPT !.stops = Append(@, Newest(stop))])

\* The two sides of the If that was added last; one waits at the label.
Branched(s, inst) ==
  LET if == Newest(s)
      side(t, kind) == Add(t, kind, {"IsControl"}, "Bottom", 0, <<Control(if)>>)
      sides == side(side(s, "IfTrue"), "IfFalse")
      taken == IF inst.op = "BranchIfFalse" THEN if + 2 ELSE if + 1
      other == IF inst.op = "BranchIfFalse" THEN if + 1 ELSE if + 2
  IN [Pending(sides, inst.payload, taken) EXCEPT !.control = other]

BuildBranch(s, inst) ==
  LET l == Lookup(s, inst.src1)
  IN Branched(Add(l, "If", {"IsControl"}, "Bottom", 0,
                  <<Data(l.node[inst.src1]), Control(s.control)>>), inst)

\* The pending predecessors of a label are merged by a Region and an
\* EffectPhi, unless there is just one.
Merge(s, preds, effects) ==
  LET region == Add(s, "Region", {"IsControl"}, "Bottom", 0,
                    [k \in DOMAIN preds |-> Control(preds[k])])
      phi == Add(region, "EffectPhi", {"IsEffect"}, "Bottom", 0,
                 <<Control(Newest(s) + 1)>> \o [k \in DOMAIN effects |-> Effect(effects[k])])
  IN IF Len(preds) = 1 THEN [s EXCEPT !.control = preds[1], !.effect = effects[1]]
     ELSE [phi EXCEPT !.control = Newest(s) + 1, !.effect = Newest(s) + 2]

\* A label: control that falls through is pending too.
BuildLabel(s, label) ==
  LET f == IF s.control = NoNode THEN s ELSE Pending(s, label, s.control)
  IN Merge(f, f.preds[label], f.effects[label])

BuildInst(s, inst) ==
  CASE inst.op = "Label" -> BuildLabel(s, inst.payload)
    [] inst.op \in {"LoadConstImm", "LoadConst"} ->
         Defines(Constant(s, inst.payload), inst.dst)
    [] inst.op \in {"LoadLocal", "StoreLocal", "LoadVar", "StoreVar"} -> BuildAccess(s, inst)
    [] inst.op = "Mov" ->
         LET l == Lookup(s, inst.src1)
         IN [l EXCEPT !.node[inst.dst] = l.node[inst.src1]]
    [] inst.op \in TwoOperands \cup OneOperand -> BuildPure(s, inst)
    [] inst.op \in HeapOps -> BuildHeap(s, inst)
    [] inst.op \in {"Return", "Halt"} -> BuildEnd(s, inst)
    [] inst.op = "Jump" -> Unreachable(Pending(s, inst.payload, s.control))
    [] inst.op \in {"BranchIfFalse", "BranchIfTrue"} -> BuildBranch(s, inst)

\* The value of a Stop, a constant 0 for that of a Halt, joins values.
StopValue(t, stop) ==
  LET data == InputsOfKind(t.s.g, stop, "Data")
  IN IF data # <<>> THEN [t EXCEPT !.values = Append(@, Head(data))]
     ELSE [s |-> Constant(t.s, 0), values |-> Append(t.values, Newest(t.s) + 1)]

\* One Stop over a Region of the stops, a Phi of their values and an
\* EffectPhi of their effects.
StopAfter(s, stops, values) ==
  LET first(k, kind) == Head(InputsOfKind(s.g, stops[k], kind))
      r == Newest(s) + 1
      region == Add(s, "Region", {"IsControl"}, "Bottom", 0,
                    [k \in DOMAIN stops |-> Control(first(k, "Control"))])
      phi == Add(region, "Phi", {}, "Int", 0,
                 <<Control(r)>> \o [k \in DOMAIN stops |-> Data(values[k])])
      effect == Add(phi, "EffectPhi", {"IsEffect"}, "Bottom", 0,
                    <<Control(r)>> \o [k \in DOMAIN stops |-> Effect(first(k, "Effect"))])
  IN AddStop(effect, <<Data(r + 1), Control(r), Effect(r + 2)>>)

MergeStops(s) ==
  LET valued == Sweep(LAMBDA t, k : StopValue(t, s.stops[k]), [s |-> s, values |-> <<>>],
                      Len(s.stops))
  IN StopAfter(valued.s, s.stops, valued.values)

\* No Stop, one, or several that become one.
Closed(s) ==
  IF Len(s.stops) = 1 THEN s
  ELSE IF s.stops = <<>> THEN AddStop(s, <<Control(s.control), Effect(s.effect)>>)
       ELSE MergeStops(s)

StopOf(s) == [s.g EXCEPT !.stop = IF Len(s.stops) = 1 THEN s.stops[1] ELSE Newest(s)]

Tier1ToSoN(fn) ==
  StopOf(Closed(Sweep(LAMBDA t, k : BuildInst(t, fn.insts[k]), Lowerer(fn), Len(fn.insts))))

-----------------------------------------------------------------------------
\* SoNToTier1: the function so far, the virtual register of each node (0 for
\* none), the blocks emitted.  A block's label is its node.

BlockHeaders == {"Start", "Region", "IfTrue", "IfFalse", "Loop", "LoopExit"}

\* get_vreg: a node that was not emitted counts as 0; assumed remembers it.
Vreg(e, n) ==
  IF e.vreg[n] # 0 THEN e
  ELSE LET z == Emit(Alloc(e), "LoadConstImm", e.vregs + 1, 0, 0, 0)
       IN [z EXCEPT !.vreg[n] = z.vregs, !.assumed = TRUE]

CallKinds == {"Call", "CallKnown", "CallNative", "LoadField", "LoadIndex"}
StoreKinds == {"Allocate", "StoreField", "StoreIndex"}

\* What a node becomes: the instruction, whether it defines a register, how
\* many data inputs it takes and needs.  All other kinds emit nothing.
Shape(kind, inputs) ==
  LET shape(op, defines, takes, needs) ==
        [op |-> op, defines |-> defines, takes |-> takes, needs |-> needs]
  IN CASE kind \in {"ConstInt", "Parameter"} -> shape("LoadConstImm", TRUE, 0, 0)
       [] kind \in TwoOperands -> shape(kind, TRUE, 2, 2)
       [] kind \in {"Neg", "Not", "ToFloat"} -> shape(kind, TRUE, 1, 1)
       [] kind = "ToBool" -> shape("IsTruthy", TRUE, 1, 1)
       [] kind \in {"LoadLocal", "LoadVar"} -> shape(kind, TRUE, 0, 0)
       [] kind \in {"StoreLocal", "StoreVar"} -> shape(kind, FALSE, 1, 1)
       [] kind \in CallKinds -> shape("Call", TRUE, Min({2, inputs}), 0)
       [] kind \in StoreKinds -> shape("Call", FALSE, Min({2, inputs}), 0)
       [] OTHER -> shape("none", FALSE, 0, inputs + 1)

\* The instruction, once its operands and then its result have registers.
EmitOver(g, e, id, data, shape, dst) ==
  LET ready == Sweep(LAMBDA t, k : Vreg(t, data[k]), e, shape.takes)
      src(k) == IF k <= shape.takes THEN ready.vreg[data[k]] ELSE 0
      emitted == Emit(ready, shape.op, dst, src(1), src(2), g.nodes[id].payload)
  IN IF shape.defines THEN [emitted EXCEPT !.vreg[id] = dst] ELSE emitted

\* emit_data_node_: a Phi stands for its first input.
EmitNode(g, e, id) ==
  LET data == InputsOfKind(g, id, "Data")
      shape == Shape(g.nodes[id].kind, Len(data))
      dst == IF shape.defines THEN e.vregs + 1 ELSE 0
      first == Vreg(e, Head(data))
  IN CASE g.nodes[id].kind = "Phi" /\ data # <<>> ->
            [first EXCEPT !.vreg[id] = first.vreg[Head(data)]]
       [] Len(data) >= shape.needs ->
            EmitOver(g, IF shape.defines THEN Alloc(e) ELSE e, id, data, shape, dst)
       [] OTHER -> e

Floating(g, id) == InputsOfKind(g, id, "Control") = <<>>
Emittable(g, id) ==
  ~Dead(g, id) /\ g.nodes[id].kind \notin BlockHeaders \cup {"Stop"}
NodesIn(g, block) ==
  {id \in Ids(g) : \E p \in DOMAIN g.nodes[id].inputs :
                     g.nodes[id].inputs[p] = Control(block)}

\* Phase 1b: floating pure nodes whose operands have been emitted, in node
\* order, again until nothing changes.
RECURSIVE EmitFloating(_, _)
EmitFloating(g, e) ==
  LET ready(t, id) == \A d \in ToSet(InputsOfKind(g, id, "Data")) : t.vreg[d] # 0
      visit(t, id) == IF /\ t.vreg[id] = 0 /\ Emittable(g, id)
                         /\ Flagged(g, id, "Pure") /\ Floating(g, id) /\ ready(t, id)
                      THEN EmitNode(g, t, id) ELSE t
      next(swept) == IF swept.insts = e.insts THEN e ELSE EmitFloating(g, swept)
  IN next(Sweep(visit, e, Size(g)))

\* emit_block_sequence_ and emit_terminator_: the label, the nodes placed in
\* the block, then its successors.  A block that ends in an If ends here: the
\* sides are searched among the nodes of the block but hang off the If, so
\* only the register of the condition is made.
RECURSIVE EmitBlock(_, _, _)
EmitBlock(g, e, block) ==
  LET label == Emit([e EXCEPT !.emitted = @ \cup {block}], "Label", 0, 0, 0, block)
      inside == NodesIn(g, block)
      body == Sweep(LAMBDA t, id : IF id \in inside /\ Emittable(g, id)
                                   THEN EmitNode(g, t, id) ELSE t, label, Size(g))
      heads == {id \in inside : ~Dead(g, id) /\ g.nodes[id].kind \in BlockHeaders}
      ifs == {id \in inside : /\ ~Dead(g, id) /\ g.nodes[id].kind = "If"
                              /\ InputsOfKind(g, id, "Data") # <<>>}
      cond == Head(InputsOfKind(g, Min(ifs), "Data"))
      follow(t, id) == IF id \in heads THEN EmitBlock(g, t, id) ELSE t
  IN IF block \in e.emitted THEN e
     ELSE IF Dead(g, block) THEN [e EXCEPT !.emitted = @ \cup {block}]
     ELSE IF ifs # {} THEN Vreg(body, cond)
     ELSE Sweep(follow, body, Size(g))

\* Phase 2c: pure nodes no block has taken, in node order.
EmitLeftover(g, e) ==
  Sweep(LAMBDA t, id : IF t.vreg[id] = 0 /\ Emittable(g, id) /\ Flagged(g, id, "Pure")
                       THEN EmitNode(g, t, id) ELSE t, e, Size(g))

\* The value of Stop is returned, 0 if there is none.
Returning(e, data) ==
  LET value == IF data # <<>> THEN Vreg(e, Head(data))
               ELSE Emit(Alloc(e), "LoadConstImm", e.vregs + 1, 0, 0, 0)
  IN Emit(value, "Return", 0, IF data # <<>> THEN value.vreg[Head(data)] ELSE value.vregs, 0, 0)

\* The function, with the registers and blocks of the walk beside it.
SoNToTier1(g) ==
  LET start == [insts |-> <<>>, vregs |-> 0, vreg |-> [id \in Ids(g) |-> 0],
                emitted |-> {}, assumed |-> FALSE]
  IN Returning(EmitLeftover(g, EmitBlock(g, EmitFloating(g, start), g.start)),
               InputsOfKind(g, g.stop, "Data"))

=============================================================================
