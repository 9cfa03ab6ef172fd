----------------------------- MODULE GraphEdits -----------------------------
(***************************************************************************)
(* Any sequence of edits of the sea-of-nodes graph through its interface   *)
(* (src/src/core/graph.h), in any order, as the lowering and the passes    *)
(* make them: nodes are added, edges patched, nodes replaced, relabelled   *)
(* and marked dead.                                                        *)
(*                                                                         *)
(* Callers pass ids of nodes, NoNode for an input that is not there, and   *)
(* replace a node by another one: replace_all_uses_with(n, n) would leave  *)
(* n with a use_count of 0 beside its uses.                                *)
(***************************************************************************)
EXTENDS SonGraph, SequencesExt

CONSTANTS
  NodeKinds, NodeFlags, NodeTypes, Payloads, EdgeKinds,  \* what nodes and edges carry
  MaxInputs   \* bounds input_count, which has 16 bits

ASSUME GraphEditsAssumption == MaxInputs \in 0 .. 65535

VARIABLE graph

Labels ==
  [kind : NodeKinds, flags : SUBSET NodeFlags, type : NodeTypes, payload : Payloads]

\* The inputs of a new node: a loop header may point at itself.
Edges == [target : 0 .. Size(graph) + 1, kind : EdgeKinds]

AddNode ==
  \E l \in Labels, n \in 0 .. MaxInputs :
    \E inputs \in [1 .. n -> Edges] :
      graph' = add_node(graph, l.kind, l.flags, l.type, l.payload, inputs)

ReplaceInput ==
  \E id \in Ids(graph), new \in 0 .. Size(graph) :
    \E pos \in DOMAIN graph.nodes[id].inputs : graph' = replace_input(graph, id, pos, new)

ReplaceAllUses ==
  \E old, new \in Ids(graph) :
    /\ old # new
    /\ graph' = replace_all_uses_with(graph, old, new)

MarkDead == \E id \in Ids(graph) : graph' = mark_dead(graph, id)

\* Through the reference at() returns.
Relabel ==
  \E id \in Ids(graph), l \in Labels :
    graph' = [graph EXCEPT !.nodes[id].kind = l.kind, !.nodes[id].flags = l.flags,
                           !.nodes[id].type = l.type, !.nodes[id].payload = l.payload]

SetEnds ==
  \E id \in Ids(graph) :
    graph' \in {[graph EXCEPT !.start = id], [graph EXCEPT !.stop = id]}

GraphInit == graph = EmptyGraph

GraphNext == AddNode \/ ReplaceInput \/ ReplaceAllUses \/ MarkDead \/ Relabel \/ SetEnds

GraphSpec == GraphInit /\ [][GraphNext]_graph

-----------------------------------------------------------------------------

AllEdges(nodes) ==
  UNION {{[user |-> u, pos |-> p] : p \in DOMAIN nodes[u].inputs} : u \in DOMAIN nodes}

\* The edges that point at n.
Onto(nodes, n) == {e \in AllEdges(nodes) : nodes[e.user].inputs[e.pos].target = n}

\* The counts and the lists of uses stay exact through every edit and every
\* pass: use_count is the number of edges that point at the node, in 16 bits,
\* and each of them is on its list (graph.h:79-295); DCE and every replacement
\* rely on it.
UsesExact ==
  \A n \in Ids(graph) :
    /\ graph.nodes[n].useCount = Uint16(Cardinality(Onto(graph.nodes, n)))
    /\ Onto(graph.nodes, n) \subseteq ToSet(graph.nodes[n].users)

=============================================================================
