------------------------------ MODULE SonGraph ------------------------------
(***************************************************************************)
(* The sea-of-nodes graph of src/src/core/graph.h: nodes, their input      *)
(* edges, and for each node the list of the edges that point at it.        *)
(*                                                                         *)
(* A node is known by its index, as in the code, whose slot 0 is a         *)
(* sentinel: NoNode stands for the invalid NodeId.  The input edges of a   *)
(* node never move, so an edge is a user and a position.  users is the     *)
(* intrusive list of Uses, newest first; it may hold stale entries, whose  *)
(* edge has been pointed elsewhere since.                                  *)
(***************************************************************************)
EXTENDS Loops, Sequences, FiniteSets

NoNode == 0

Edge(target, kind) == [target |-> target, kind |-> kind]
Data(n) == Edge(n, "Data")
Control(n) == Edge(n, "Control")
Effect(n) == Edge(n, "Effect")

\* Of the flags, those a pass reads.
Node(kind, flags, type, payload, inputs) ==
  [kind |-> kind, flags |-> flags, type |-> type, payload |-> payload,
   inputs |-> inputs, users |-> <<>>, useCount |-> 0]

Graph(nodes, start, stop) == [nodes |-> nodes, start |-> start, stop |-> stop]
EmptyGraph == Graph(<<>>, NoNode, NoNode)

\* The width of use_count.
Uint16(n) == n % 65536

Size(g) == Len(g.nodes)
Ids(g) == 1 .. Size(g)
Flagged(g, id, flag) == flag \in g.nodes[id].flags
Dead(g, id) == Flagged(g, id, "IsDead")

-----------------------------------------------------------------------------

PointsAt(g, producer, use) == g.nodes[use.user].inputs[use.pos].target = producer

\* inputs_of_kind: the targets, in the order of the edges.
InputsOfKind(g, id, kind) ==
  LET edges == SelectSeq(g.nodes[id].inputs, LAMBDA e : e.kind = kind)
  IN [k \in DOMAIN edges |-> edges[k].target]

\* uses_of_kind: the users over live entries, newest first.
UsesOfKind(g, producer, kind) ==
  LET uses == SelectSeq(g.nodes[producer].users,
                        LAMBDA u : /\ PointsAt(g, producer, u)
                                   /\ g.nodes[u.user].inputs[u.pos].kind = kind)
  IN [k \in DOMAIN uses |-> uses[k].user]

-----------------------------------------------------------------------------

\* One input edge is registered with its producer.
Linked(nodes, target, user, pos) ==
  IF target = NoNode THEN nodes
  ELSE [nodes EXCEPT ![target].users = <<[user |-> user, pos |-> pos]>> \o @,
                     ![target].useCount = Uint16(@ + 1)]

\* Fault: only the first edge to a producer is registered.
LinkedOnce(nodes, id, inputs) ==
  Sweep(LAMBDA ns, k : IF \E j \in 1 .. k - 1 : inputs[j].target = inputs[k].target
                       THEN ns ELSE Linked(ns, inputs[k].target, id, k),
        nodes, Len(inputs))

LinkedAll(nodes, id, inputs) ==
  Sweep(LAMBDA ns, k : Linked(ns, inputs[k].target, id, k), nodes, Len(inputs))

\* add_node: the new node is the last one.
add_node(g, kind, flags, type, payload, inputs) ==
  LET id == Size(g) + 1
      nodes == Append(g.nodes, Node(kind, flags, type, payload, inputs))
  IN [g EXCEPT !.nodes = LinkedAll(nodes, id, inputs)]

\* replace_input: the old producer keeps its entry, which is stale now.
replace_input(g, id, pos, new) ==
  LET old == g.nodes[id].inputs[pos].target
      patched == [g.nodes EXCEPT ![id].inputs[pos].target = new]
      counted == IF old = NoNode THEN patched
                 ELSE [patched EXCEPT ![old].useCount = Uint16(@ - 1)]
  IN IF old = new THEN g ELSE [g EXCEPT !.nodes = Linked(counted, new, id, pos)]

\* The entries on the list of old that its replacement moves: those that are
\* live, and of the entries of one edge the first, for the later ones are
\* stale once it is patched, unless it is patched to old again.
Moved(g, old, new) ==
  LET us == g.nodes[old].users
      moves(k) == /\ PointsAt(g, old, us[k])
                  /\ old # new => \A j \in 1 .. k - 1 : us[j] # us[k]
  IN Sweep(LAMBDA m, k : IF moves(k) THEN Append(m, us[k]) ELSE m, <<>>, Len(us))

\* replace_all_uses_with: the edges of the entries that move are patched, and
\* the entries go to the front of the list of new.
replace_all_uses_with(g, old, new) ==
  LET moved == Moved(g, old, new)
      patched == [k \in Ids(g) |->
                    [g.nodes[k] EXCEPT !.inputs =
                       [p \in DOMAIN @ |->
                          IF [user |-> k, pos |-> p] \in {moved[j] : j \in DOMAIN moved}
                          THEN [@[p] EXCEPT !.target = new] ELSE @[p]]]]
      emptied == [patched EXCEPT ![old].users = <<>>]
      spliced == [emptied EXCEPT ![new].users = moved \o @,
                                 ![new].useCount = Uint16(@ + Len(moved))]
  IN [g EXCEPT !.nodes = [spliced EXCEPT ![old].useCount = 0]]

mark_dead(g, id) == [g EXCEPT !.nodes[id].flags = @ \cup {"IsDead"}]

=============================================================================
