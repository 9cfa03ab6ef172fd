----------------------------- MODULE MCPipeline ----------------------------
(***************************************************************************)
(* Small chunks and graphs for the compilers: two registers, 4-bit words.  *)
(* Beside the jobs of Pipeline, a graph is edited at will.                 *)
(***************************************************************************)
EXTENDS Pipeline

Chunk(body) ==
  [code |-> body, maxLocals |-> 2,
   constants |-> [c \in -8 .. 7 |-> Int64(c)] @@ (8 :> [type |-> "NumberFloat", i |-> 0])]

C(c) == Ins("LoadConst", c)
L(s) == Ins("LoadLocal", s)
O(op) == Ins(op, 0)
Let(c, s) == <<C(c), Ins("StoreLocal", s), O("Pop")>>
Ret == O("Return")

AllOps == Binary \cup {"Div", "Pow"}
Leaves == {C(0), C(1), C(2), L(0)}

\* One operation on two leaves, on a local that was stored first.
Pairs ==
  {Let(k, 0) \o <<x, y, O(op), Ret>> : k \in {-3, 3}, x \in Leaves, y \in Leaves, op \in AllOps}

\* Two operations of different shapes, which the passes rewrite together.
Inner == {"Sub", "Mul", "Lt"}
Triples ==
  {Let(3, 0) \o <<x, y, O(p), z, O(q), Ret>> :
     x \in {C(2), L(0)}, y \in {C(0), C(2), L(0)}, z \in {C(1), L(0)}, p \in Inner, q \in Inner}
  \cup
  {Let(3, 0) \o <<x, y, O(p), y, x, O(q), O(r), Ret>> :
     x \in {C(2), L(0)}, y \in {C(1), L(0)}, p \in {"Add", "Sub"}, q \in {"Add", "Sub"},
     r \in {"Mul", "Lt", "Add"}}

\* Four values on the stack and two registers.
Deep ==
  {<<C(1), C(2), a, C(3), O(p), O(q), O(r), Ret>> :
     a \in {C(5), L(0)}, p \in {"Add", "Sub"}, q \in {"Sub", "Mul"}, r \in {"Sub", "Pow"}}

Unary ==
  {Let(2, 0) \o <<x, y, O(op), O(un), Ret>> :
     x \in {C(1), L(0)}, y \in {C(2), L(0)}, op \in Comparisons \cup {"Add"}, un \in {"Not", "Neg"}}

\* Stores and loads of two locals.
Stores ==
  {Let(a, 0) \o <<L(0), C(1), O(op), Ins("StoreLocal", s), O("Pop"), L(0), L(t), O("Sub"), Ret>> :
     a \in {2, 3}, op \in {"Add", "Mul"}, s \in 0 .. 1, t \in 0 .. 1}

\* The load comes after another store, so that it stays a load.
Unforwarded ==
  {Let(2, 0) \o Let(1, 1) \o <<L(0), C(c), O(p), C(1), O(q), Ret>> :
     c \in {1, 2, 3}, p \in {"Mul", "Sub", "Lt"}, q \in {"Add", "Mul"}}

\* A diamond, with code that joins, returns early, carries an operand or
\* jumps to the end of the code.
Diamonds ==
  UNION {{
    Let(k, 0) \o <<c, Ins("JumpIfFalse", 10)>> \o Let(1, 1) \o <<Ins("Jump", 13)>> \o
      Let(2, 1) \o <<L(0), L(1), O("Add"), Ret>>,
    Let(k, 0) \o <<c, Ins("JumpIfFalse", 8), L(0), Ret, L(0), C(1), O("Add"), Ret>>,
    Let(k, 0) \o <<C(7), c, Ins("JumpIfFalse", 9), C(1), Ins("Jump", 10), C(2), O("Add"), Ret>>,
    Let(k, 0) \o <<c, Ins("JumpIfFalse", 8), C(1), Ins("Jump", 9), C(2), O("Neg"), Ret>>,
    Let(k, 0) \o <<c, Ins("JumpIfFalse", 7), C(1)>>} :
    k \in {0, 1}, c \in {C(0), C(1), L(0)}}

\* Halt, an empty stack, code after a Return, a float, lists, fields, calls and loops.
Others ==
  {<<C(3), O("Halt")>>, <<C(3), O("Pop"), O("Halt")>>, <<Ret>>, <<C(8), Ret>>, <<L(0), Ret>>,
   <<C(1), Ret, C(2), Ret>>, Let(1, 0) \o <<L(0), Ret, L(0), C(1), O("Add"), Ret>>,
   <<Ins("LoadVar", 0), Ins("StoreVar", 1), O("Pop"), C(1), Ret>>,
   <<C(1), C(2), Ins("BuildList", 2), C(0), O("IndexGet"), Ret>>,
   <<Ins("BuildList", 0), C(0), C(3), O("IndexSet"), Ret>>,
   <<Ins("LoadVar", 0), C(1), C(2), Ins("Call", 2), Ret>>,
   <<Ins("LoadVar", 0), Ins("PropertyAccess", 0), Ins("LoadVar", 0), C(1),
     Ins("PropertySet", 0), O("Sub"), Ret>>,
   <<C(1), Ins("TryPush", 3), O("TryPop"), O("Break")>>,
   <<C(8), O("Pop")>> \o Let(1, 0) \o <<L(0), Ins("JumpIfFalse", 12)>> \o Let(0, 0) \o
     <<Ins("Jump", 6), C(1), Ret>>,
   <<Ins("BuildList", 0), O("ForPrep"), Ins("ForIter", 6), O("Pop"), Ins("Jump", 3),
     C(1), Ret>>}

MCPrograms ==
  {Chunk(code) : code \in Pairs \cup Triples \cup Deep \cup Unary \cup Stores \cup Unforwarded
                          \cup Diamonds \cup Others}

\* What JoltChunk starts from: only a for loop keeps registers alive around a jump.
ASSUME FunctionsAreOrderly ==
  \A program \in MCPrograms :
    LET f == lower_chunk_to_tier1(program)
    IN /\ IsChunk(program)
       /\ \/ Forward(f) \/ Enclosed(f)
          \/ \E k \in DOMAIN program.code : program.code[k].op = "ForIter"

-----------------------------------------------------------------------------
\* Graphs, node by node.

Start == <<"Start", {"IsControl"}, "Bottom", 0, <<>>>>
Const(c) == <<"ConstInt", {"Pure", "GVNable"}, "Int", c, <<>>>>
Flow(kind, inputs) == <<kind, {"IsControl"}, "Bottom", 0, inputs>>
Value(kind, inputs) == <<kind, {"Pure"}, "Int", 0, inputs>>
Chain(kind, inputs) == <<kind, {"IsEffect"}, "Top", 0, inputs>>

Built(nodes) ==
  LET add(g, k) == add_node(g, nodes[k][1], nodes[k][2], nodes[k][3], nodes[k][4], nodes[k][5])
      stops == {k \in DOMAIN nodes : nodes[k][1] = "Stop"}
  IN [Sweep(add, EmptyGraph, Len(nodes)) EXCEPT
        !.start = 1, !.stop = IF stops = {} THEN NoNode ELSE Max(stops)]

\* build_demo_graph
Demo ==
  Built(<<Start, Const(1), Const(2), Const(3),
          <<"Add", {"Pure", "GVNable", "Commutative"}, "Int", 0, <<Data(2), Data(3), Control(1)>>>>,
          <<"Add", {"Pure", "GVNable", "Commutative"}, "Int", 0, <<Data(5), Data(4), Control(1)>>>>,
          Flow("Stop", <<Data(6), Control(1)>>)>>)

\* An If with a constant condition, joined by a Region.
Fork(c) ==
  Built(<<Start, Const(c), Flow("If", <<Data(2), Control(1)>>),
          Flow("IfTrue", <<Control(3)>>), Flow("IfFalse", <<Control(3)>>),
          Flow("Region", <<Control(4), Control(5)>>), Flow("Stop", <<Data(2), Control(6)>>)>>)

\* An If inside one side of an If, whose sides meet at two Regions.
Nested ==
  Built(<<Start, <<"Parameter", {"Pure"}, "Int", 0, <<>>>>, Flow("If", <<Data(2), Control(1)>>),
          Flow("IfTrue", <<Control(3)>>), Flow("IfFalse", <<Control(3)>>),
          Flow("If", <<Data(2), Control(4)>>), Flow("IfTrue", <<Control(6)>>),
          Flow("IfFalse", <<Control(6)>>), Flow("Region", <<Control(8), Control(5)>>),
          Flow("Region", <<Control(7), Control(9)>>), Flow("Stop", <<Data(2), Control(10)>>)>>)

\* A loop: the second input of the header is set when its end is known.
Looped ==
  replace_input(
    Built(<<Start, Const(1), Flow("Loop", <<Control(1), Control(1)>>),
            Value("Add", <<Data(2), Data(2), Control(3)>>),
            Flow("If", <<Data(4), Control(3)>>), Flow("IfTrue", <<Control(5)>>),
            Flow("IfFalse", <<Control(5)>>), Flow("Stop", <<Data(4), Control(7)>>)>>), 3, 2, 6)

\* An allocation read through a field, one that escapes into a call of a
\* known function, a check that holds, a load on its own.
Objects ==
  Built(<<Start, Chain("Allocate", <<Control(1), Effect(1)>>),
          Chain("LoadField", <<Control(1), Effect(2), Data(2)>>),
          Chain("Allocate", <<Control(1), Effect(3)>>),
          <<"ConstFunc", {"Pure"}, "Top", 0, <<>>>>,
          Chain("Call", <<Control(1), Effect(4), Data(5), Data(4)>>),
          Const(0), Const(3), Value("CheckBounds", <<Data(7), Data(8)>>),
          Flow("Stop", <<Data(9), Control(1), Effect(6)>>)>>)

MCGraphs == {EmptyGraph, Demo, Fork(0), Fork(1), Nested, Looped, Objects}

-----------------------------------------------------------------------------

CONSTANTS MaxNodes, MaxListed   \* bound the edited graph and its lists of uses

MCInit ==
  \/ Init
  \/ /\ Begin /\ GraphInit
     /\ stage = "edits" /\ tier = "Graph" /\ chunk = <<>> /\ spark = Nothing

Edit ==
  /\ stage = "edits"
  /\ GraphNext
  /\ Size(graph') <= MaxNodes
  /\ \A n \in Ids(graph') : Len(graph'.nodes[n].users) <= MaxListed
  /\ UNCHANGED <<stage, jobVars, codeVars, runVars, pass, round, changed, answer, deviations>>

MCNext == Next \/ Edit

MCSpec == MCInit /\ [][MCNext]_vars

=============================================================================
