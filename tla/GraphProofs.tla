----------------------------- MODULE GraphProofs ----------------------------
(***************************************************************************)
(* The use lists of the sea-of-nodes graph stay exact through any sequence *)
(* of edits.                                                               *)
(***************************************************************************)
EXTENDS GraphEdits, FiniteSetTheorems, SequenceTheorems, TLAPS

\* The values of a node.
NodeData ==
  [kind : NodeKinds, flags : SUBSET (NodeFlags \cup {"IsDead"}), type : NodeTypes,
   payload : Payloads, inputs : Seq([target : Nat, kind : EdgeKinds]),
   users : Seq([user : Nat, pos : Nat]), useCount : Int]

\* Those of a set X of edges that point at n.
Among(X, ns, n) == {e \in X : ns[e.user].inputs[e.pos].target = n}

\* Inputs are nodes or nothing, and what is listed as a use is an edge.
Closed(ns) ==
  \A n \in DOMAIN ns :
    /\ \A p \in DOMAIN ns[n].inputs : ns[n].inputs[p].target \in 0 .. Len(ns)
    /\ ToSet(ns[n].users) \subseteq AllEdges(ns)

\* Counts and lists are exact for the edges of X, the ones that are registered.
Counted(ns, X) ==
  \A n \in DOMAIN ns :
    /\ IsFiniteSet(Among(X, ns, n))
    /\ ns[n].useCount = Uint16(Cardinality(Among(X, ns, n)))
    /\ Among(X, ns, n) \subseteq ToSet(ns[n].users)

Good(ns, X) ==
  /\ ns \in Seq(NodeData)
  /\ Closed(ns)
  /\ X \subseteq AllEdges(ns)
  /\ Counted(ns, X)

\* The same nodes, as far as their inputs go.
Alike(ms, ns) == Len(ms) = Len(ns) /\ \A n \in DOMAIN ns : ms[n].inputs = ns[n].inputs

GraphGood ==
  /\ graph = [nodes |-> graph.nodes, start |-> graph.start, stop |-> graph.stop]
  /\ Good(graph.nodes, AllEdges(graph.nodes))

-----------------------------------------------------------------------------

LEMMA Widths ==
  /\ \A a \in Int : Uint16(a) \in Int
  /\ \A a, b \in Int : Uint16(Uint16(a) + b) = Uint16(a + b)
  /\ \A a \in Int : Uint16(Uint16(a) - 1) = Uint16(a - 1)
  /\ Uint16(0) = 0
<1>1. \A a \in Int : Uint16(a) \in Int
  BY DEF Uint16
<1>2. \A a, b \in Int : Uint16(Uint16(a) + b) = Uint16(a + b)
  BY DEF Uint16
<1>3. \A a \in Int : Uint16(Uint16(a) - 1) = Uint16(a - 1)
  BY DEF Uint16
<1> QED BY <1>1, <1>2, <1>3 DEF Uint16

LEMMA EdgeOf ==
  ASSUME NEW ns, NEW e
  PROVE  e \in AllEdges(ns) <=>
           \E u \in DOMAIN ns : \E p \in DOMAIN ns[u].inputs : e = [user |-> u, pos |-> p]
BY DEF AllEdges

\* Nodes with the same inputs have the same edges.
LEMMA SameEdges ==
  ASSUME NEW ns, NEW ms, DOMAIN ms = DOMAIN ns,
         \A n \in DOMAIN ns : DOMAIN ms[n].inputs = DOMAIN ns[n].inputs
  PROVE  AllEdges(ms) = AllEdges(ns)
BY DEF AllEdges

\* Nodes that differ in their labels alone.
LEMMA RelabelledGood ==
  ASSUME NEW ns, NEW X, Good(ns, X), NEW ms \in Seq(NodeData), Len(ms) = Len(ns),
         \A n \in DOMAIN ns : /\ ms[n].inputs = ns[n].inputs
                              /\ ms[n].users = ns[n].users
                              /\ ms[n].useCount = ns[n].useCount
  PROVE  Good(ms, X)
<1>1. DOMAIN ms = DOMAIN ns
  BY DEF Good
<1>2. AllEdges(ms) = AllEdges(ns)
  BY <1>1, SameEdges
<1>3. X \subseteq AllEdges(ns)
  BY DEF Good
<1>4. \A e \in X : e.user \in DOMAIN ns
  BY <1>3, EdgeOf
<1>5. \A n : Among(X, ms, n) = Among(X, ns, n)
  BY <1>4 DEF Among
<1>6. Closed(ms)
  BY <1>1, <1>2 DEF Good, Closed
<1>7. Counted(ms, X)
  BY <1>1, <1>5 DEF Good, Counted
<1> QED BY <1>2, <1>3, <1>6, <1>7 DEF Good

\* A node with another list of uses.
IsRelisted(q, r, users, count) ==
  q \in NodeData /\ q.inputs = r.inputs /\ q.users = users /\ q.useCount = count

LEMMA NodeRelisted ==
  ASSUME NEW r, r \in NodeData, NEW users, users \in Seq([user : Nat, pos : Nat]),
         NEW count, count \in Int
  PROVE  IsRelisted([r EXCEPT !.users = users, !.useCount = count], r, users, count)
<1> DEFINE Pairs == Seq([user : Nat, pos : Nat])
           Inputs == Seq([target : Nat, kind : EdgeKinds])
           Flags == SUBSET (NodeFlags \cup {"IsDead"})
           q == [r EXCEPT !.users = users, !.useCount = count]
<1>1. NodeData = [kind : NodeKinds, flags : Flags, type : NodeTypes, payload : Payloads,
                  inputs : Inputs, users : Pairs, useCount : Int]
  BY DEF NodeData
<1>2. users \in Pairs
  OBVIOUS
<1> HIDE DEF Pairs, Inputs, Flags
<1>3. q \in NodeData /\ q.inputs = r.inputs /\ q.users = users /\ q.useCount = count
  BY <1>1, <1>2
<1> QED BY <1>3 DEF IsRelisted

LEMMA NodeRecounted ==
  ASSUME NEW r \in NodeData, NEW count \in Int
  PROVE  /\ [r EXCEPT !.useCount = count] \in NodeData
         /\ [r EXCEPT !.useCount = count].inputs = r.inputs
         /\ [r EXCEPT !.useCount = count].users = r.users
         /\ [r EXCEPT !.useCount = count].useCount = count
<1> DEFINE Pairs == Seq([user : Nat, pos : Nat])
           Inputs == Seq([target : Nat, kind : EdgeKinds])
           Flags == SUBSET (NodeFlags \cup {"IsDead"})
<1>1. NodeData = [kind : NodeKinds, flags : Flags, type : NodeTypes, payload : Payloads,
                  inputs : Inputs, users : Pairs, useCount : Int]
  BY DEF NodeData
<1> HIDE DEF Pairs, Inputs, Flags
<1> QED BY <1>1

LEMMA InputOf ==
  ASSUME NEW r \in NodeData, NEW p \in DOMAIN r.inputs
  PROVE  r.inputs[p] \in [target : Nat, kind : EdgeKinds]
<1> DEFINE Inputs == [target : Nat, kind : EdgeKinds]
           inputs == r.inputs
<1>1. inputs \in Seq(Inputs)
  BY DEF NodeData
<1> HIDE DEF inputs, Inputs
<1>2. p \in DOMAIN inputs
  BY DEF inputs
<1>3. inputs[p] \in Inputs
  BY ONLY <1>1, <1>2
<1> QED BY <1>3 DEF inputs, Inputs

\* One edge more is registered with its producer.
LEMMA LinkedGood ==
  ASSUME NEW ns, NEW X, Good(ns, X), NEW user \in DOMAIN ns,
         NEW pos \in DOMAIN ns[user].inputs, NEW target,
         ns[user].inputs[pos].target = target, [user |-> user, pos |-> pos] \notin X
  PROVE  /\ Good(Linked(ns, target, user, pos), X \cup {[user |-> user, pos |-> pos]})
         /\ Alike(Linked(ns, target, user, pos), ns)
<1> DEFINE e == [user |-> user, pos |-> pos]
           ms == Linked(ns, target, user, pos)
<1>1. /\ ns \in Seq(NodeData) /\ Closed(ns) /\ X \subseteq AllEdges(ns) /\ Counted(ns, X)
      /\ DOMAIN ns = 1 .. Len(ns) /\ Len(ns) \in Nat
  BY DEF Good
<1>2. e \in AllEdges(ns)
  BY EdgeOf
<1>3. target \in 0 .. Len(ns)
  BY <1>1 DEF Closed
<1>4. user \in Nat /\ pos \in Nat
  <2>1. ns[user] \in NodeData
    BY <1>1
  <2>2. ns[user].inputs \in Seq([target : Nat, kind : EdgeKinds])
    BY <2>1 DEF NodeData
  <2>3. DOMAIN ns[user].inputs = 1 .. Len(ns[user].inputs) /\ Len(ns[user].inputs) \in Nat
    BY <2>2
  <2> QED BY <1>1, <2>3
<1>5. \A n : Among(X \cup {e}, ns, n) = Among(X, ns, n) \cup (IF n = target THEN {e} ELSE {})
  BY DEF Among
<1>6. CASE target = NoNode
  <2>1. ms = ns
    BY <1>6 DEF Linked
  <2> HIDE DEF e
  <2>2. \A n \in DOMAIN ns : Among(X \cup {e}, ns, n) = Among(X, ns, n)
    <3>1. \A n \in DOMAIN ns : n # target
      BY <1>1, <1>6 DEF NoNode
    <3> QED BY <1>5, <3>1
  <2>3. Counted(ns, X \cup {e})
    BY <1>1, <2>2 DEF Counted
  <2>4. Good(ns, X \cup {e})
    BY <1>1, <1>2, <2>3 DEF Good
  <2> QED BY <2>1, <2>4 DEF e, Alike
<1>7. CASE target # NoNode
  <2>1. target \in DOMAIN ns /\ ns[target] \in NodeData
    BY <1>1, <1>3, <1>7 DEF NoNode
  <2> DEFINE listed == <<e>> \o ns[target].users
  <2>2. ms = [ns EXCEPT ![target].users = listed, ![target].useCount = Uint16(@ + 1)]
    BY <1>7 DEF Linked
  <2>3. /\ listed \in Seq([user : Nat, pos : Nat])
        /\ ToSet(listed) = {e} \cup ToSet(ns[target].users)
    <3>1. ns[target].users \in Seq([user : Nat, pos : Nat]) /\ <<e>> \in Seq([user : Nat, pos : Nat])
      BY <1>4, <2>1 DEF NodeData
    <3> DEFINE old == ns[target].users
    <3>2. /\ listed \in Seq([user : Nat, pos : Nat]) /\ Len(listed) = 1 + Len(old)
          /\ \A k \in 1 .. Len(listed) : listed[k] = IF k = 1 THEN e ELSE old[k - 1]
      BY <3>1
    <3>3. ToSet(listed) \subseteq {e} \cup ToSet(old)
      BY <3>1, <3>2 DEF ToSet
    <3>4. e \in ToSet(listed)
      BY <3>1, <3>2 DEF ToSet
    <3>5. \A k \in DOMAIN old : old[k] = listed[k + 1] /\ k + 1 \in DOMAIN listed
      <4>1. old \in Seq([user : Nat, pos : Nat]) /\ DOMAIN old = 1 .. Len(old) /\ Len(old) \in Nat
        BY <3>1
      <4>2. DOMAIN listed = 1 .. Len(listed)
        BY <3>2
      <4> SUFFICES ASSUME NEW k \in DOMAIN old
                   PROVE  old[k] = listed[k + 1] /\ k + 1 \in DOMAIN listed
        OBVIOUS
      <4>3. k \in Nat /\ k + 1 \in 1 .. Len(listed) /\ k + 1 # 1 /\ (k + 1) - 1 = k
        <5>1. Len(listed) = 1 + Len(old)
          BY <3>2
        <5>2. k \in 1 .. Len(old) /\ Len(old) \in Nat
          BY <4>1
        <5> HIDE DEF old, listed
        <5> QED BY ONLY <5>1, <5>2
      <4>4. listed[k + 1] = old[(k + 1) - 1]
        <5> HIDE DEF old, listed
        <5> QED BY <3>2, <4>3
      <4> HIDE DEF old, listed
      <4> QED BY <4>2, <4>3, <4>4
    <3>6. ToSet(old) \subseteq ToSet(listed)
      BY <3>5 DEF ToSet
    <3> QED BY <3>2, <3>3, <3>4, <3>6
  <2> HIDE DEF listed
  <2>4. /\ ms \in Seq(NodeData) /\ Len(ms) = Len(ns) /\ DOMAIN ms = DOMAIN ns
        /\ \A n \in DOMAIN ns : ms[n] = IF n = target
             THEN [ns[n] EXCEPT !.users = listed, !.useCount = Uint16(@ + 1)] ELSE ns[n]
    <3>1. DOMAIN ms = 1 .. Len(ns)
      BY <1>1, <2>2
    <3>2. \A n \in DOMAIN ns : ms[n] = IF n = target
             THEN [ns[n] EXCEPT !.users = listed, !.useCount = Uint16(@ + 1)] ELSE ns[n]
      BY <1>1, <2>1, <2>2 DEF NodeData
    <3>3. \A n \in DOMAIN ns : ms[n] \in NodeData
      <4>1. \A r \in NodeData : [r EXCEPT !.users = listed, !.useCount = Uint16(@ + 1)] \in NodeData
        <5> SUFFICES ASSUME NEW r \in NodeData
                     PROVE  [r EXCEPT !.users = listed, !.useCount = Uint16(r.useCount + 1)] \in NodeData
          OBVIOUS
        <5>0. r.useCount + 1 \in Int
          BY DEF NodeData
        <5>1. Uint16(r.useCount + 1) \in Int
          BY <5>0, Widths
        <5> QED BY <2>3, <5>1, NodeRelisted DEF IsRelisted
      <4>2. \A n \in DOMAIN ns : ns[n] \in NodeData
        BY <1>1
      <4> HIDE DEF ms
      <4> QED BY <3>2, <4>1, <4>2
    <3>4. ms = [n \in 1 .. Len(ns) |-> ms[n]]
      BY <1>1, <2>2, <3>1
    <3> HIDE DEF ms
    <3>5. ms \in Seq(NodeData) /\ Len(ms) = Len(ns)
      BY ONLY <1>1, <3>1, <3>3, <3>4
    <3> QED BY <1>1, <3>1, <3>2, <3>5
  <2>5. \A n \in DOMAIN ns : /\ ms[n].inputs = ns[n].inputs
                             /\ n # target => ms[n] = ns[n]
    <3>1. \A r \in NodeData : [r EXCEPT !.users = listed, !.useCount = Uint16(@ + 1)].inputs = r.inputs
      BY DEF NodeData
    <3>2. \A n \in DOMAIN ns : ns[n] \in NodeData
      BY <1>1
    <3> HIDE DEF ms
    <3> QED BY <2>4, <3>1, <3>2
  <2>6. ms[target].users = listed /\ ms[target].useCount = Uint16(ns[target].useCount + 1)
    BY <2>1, <2>4 DEF NodeData
  <2>7. AllEdges(ms) = AllEdges(ns)
    BY <2>4, <2>5, SameEdges
  <2>8. Closed(ms)
    <3> SUFFICES ASSUME NEW n \in DOMAIN ns
                 PROVE  /\ \A p \in DOMAIN ms[n].inputs : ms[n].inputs[p].target \in 0 .. Len(ms)
                        /\ ToSet(ms[n].users) \subseteq AllEdges(ms)
      BY <2>4 DEF Closed
    <3>1. \A p \in DOMAIN ms[n].inputs : ms[n].inputs[p].target \in 0 .. Len(ms)
      BY <1>1, <2>4, <2>5 DEF Closed
    <3>2. ToSet(ns[n].users) \subseteq AllEdges(ns)
      BY <1>1 DEF Closed
    <3>3. ToSet(ms[n].users) \subseteq AllEdges(ms)
      BY <1>2, <2>3, <2>5, <2>6, <2>7, <3>2
    <3> QED BY <3>1, <3>3
  <2>9. \A d \in AllEdges(ns) : d.user \in DOMAIN ns
    BY EdgeOf
  <2>10. \A n : Among(X \cup {e}, ms, n) = Among(X \cup {e}, ns, n)
    BY <1>1, <1>2, <2>5, <2>9 DEF Among
  <2>11. Counted(ms, X \cup {e})
    <3> SUFFICES ASSUME NEW n \in DOMAIN ns
                 PROVE  /\ IsFiniteSet(Among(X \cup {e}, ms, n))
                        /\ ms[n].useCount = Uint16(Cardinality(Among(X \cup {e}, ms, n)))
                        /\ Among(X \cup {e}, ms, n) \subseteq ToSet(ms[n].users)
      BY <2>4 DEF Counted
    <3>1. /\ IsFiniteSet(Among(X, ns, n)) /\ ns[n].useCount = Uint16(Cardinality(Among(X, ns, n)))
          /\ Among(X, ns, n) \subseteq ToSet(ns[n].users)
      BY <1>1 DEF Counted
    <3>2. CASE n = target
      <4>1. Among(X \cup {e}, ms, n) = Among(X, ns, n) \cup {e} /\ e \notin Among(X, ns, n)
        BY <1>5, <2>10, <3>2 DEF Among
      <4>2. /\ IsFiniteSet(Among(X, ns, n) \cup {e})
            /\ Cardinality(Among(X, ns, n) \cup {e}) = Cardinality(Among(X, ns, n)) + 1
        BY <3>1, <4>1, FS_AddElement
      <4>3. Cardinality(Among(X, ns, n)) \in Int
        BY <3>1, FS_CardinalityType
      <4>4. Uint16(ns[n].useCount + 1) = Uint16(Cardinality(Among(X, ns, n) \cup {e}))
        BY <3>1, <4>2, <4>3, Widths
      <4> QED BY <2>3, <2>6, <3>1, <3>2, <4>1, <4>2, <4>4
    <3>3. CASE n # target
      BY <1>5, <2>5, <2>10, <3>1, <3>3
    <3> QED BY <3>2, <3>3
  <2>12. Alike(ms, ns)
    BY <2>4, <2>5 DEF Alike
  <2> QED BY <1>1, <1>2, <2>4, <2>7, <2>8, <2>11, <2>12 DEF Good
<1> QED BY <1>6, <1>7

-----------------------------------------------------------------------------
(* add_node *)

\* A set that holds 0 and with every number the next holds all.
LEMMA Counting ==
  ASSUME NEW F, 0 \in F, \A n \in Nat : n \in F => n + 1 \in F
  PROVE  Nat \subseteq F
<1> SUFFICES ASSUME Nat \ F # {} PROVE FALSE
  OBVIOUS
<1>1. \E m \in Nat \ F : \A k \in Nat \ F : ~ (<<k, m>> \in OpToRel(<, Nat))
  BY NatLessThanWellFounded, WFMin
<1>2. \A k, m \in Nat : k < m => <<k, m>> \in OpToRel(<, Nat)
  BY DEF OpToRel
<1>3. PICK m \in Nat \ F : \A k \in Nat \ F : ~ (k < m)
  BY <1>1, <1>2
<1>4. m - 1 \in Nat /\ m - 1 < m
  BY <1>3
<1>5. m - 1 \in F
  BY <1>3, <1>4
<1> QED BY <1>3, <1>4, <1>5

\* The nodes after the first k inputs of id are registered.
IsLinking(ns, id, inputs, m, f) ==
  /\ f[0] = ns
  /\ \A k \in 1 .. m : f[k] = Linked(f[k - 1], inputs[k].target, id, k)

LEMMA LinkingExists ==
  ASSUME NEW ns, NEW id, NEW inputs, NEW m \in Nat
  PROVE  \E f : IsLinking(ns, id, inputs, m, f)
<1> DEFINE Fits == {k \in Nat : \E f : IsLinking(ns, id, inputs, k, f)}
<1>1. 0 \in Fits
  <2>1. IsLinking(ns, id, inputs, 0, [k \in 0 .. 0 |-> ns])
    BY DEF IsLinking
  <2> QED BY <2>1
<1>2. ASSUME NEW k \in Nat, k \in Fits
      PROVE  k + 1 \in Fits
  <2>1. PICK f : IsLinking(ns, id, inputs, k, f)
    BY <1>2
  <2> DEFINE last == Linked(f[k], inputs[k + 1].target, id, k + 1)
             h == [i \in 0 .. k + 1 |-> IF i <= k THEN f[i] ELSE last]
  <2>2. h[0] = ns
    BY <2>1 DEF IsLinking
  <2>3. ASSUME NEW i \in 1 .. k + 1
        PROVE  h[i] = Linked(h[i - 1], inputs[i].target, id, i)
    <3>1. i - 1 \in 0 .. k + 1 /\ h[i - 1] = f[i - 1]
      OBVIOUS
    <3>2. CASE i <= k
      BY <2>1, <3>1, <3>2 DEF IsLinking
    <3>3. CASE i = k + 1
      <4>1. i - 1 = k /\ h[i] = last
        BY <3>3
      <4> QED BY <3>1, <3>3, <4>1
    <3> QED BY <3>2, <3>3
  <2> HIDE DEF h
  <2>4. IsLinking(ns, id, inputs, k + 1, h)
    BY <2>2, <2>3 DEF IsLinking
  <2> QED BY <2>4
<1> HIDE DEF Fits
<1>3. Nat \subseteq Fits
  BY <1>1, <1>2, Counting
<1> QED BY <1>3 DEF Fits

LEMMA LinkedAllLinks ==
  ASSUME NEW ns, NEW id, NEW inputs, Len(inputs) \in Nat
  PROVE  \E f : IsLinking(ns, id, inputs, Len(inputs), f)
                /\ LinkedAll(ns, id, inputs) = f[Len(inputs)]
<1> DEFINE c == Len(inputs)
           Is(f) == f = [k \in 0 .. c |-> IF k = 0 THEN ns
                                          ELSE Linked(f[k - 1], inputs[k].target, id, k)]
<1>1. PICK g : IsLinking(ns, id, inputs, c, g)
  BY LinkingExists
<1> DEFINE h == [k \in 0 .. c |-> g[k]]
<1>2. \E f : Is(f)
  <2>1. ASSUME NEW k \in 0 .. c
        PROVE  h[k] = IF k = 0 THEN ns ELSE Linked(h[k - 1], inputs[k].target, id, k)
    <3>1. CASE k = 0
      BY <1>1, <3>1 DEF IsLinking
    <3>2. CASE k # 0
      <4>1. k \in 1 .. c /\ k - 1 \in 0 .. c
        BY <3>2
      <4>2. h[k] = g[k] /\ h[k - 1] = g[k - 1]
        BY <4>1
      <4> QED BY <1>1, <3>2, <4>1, <4>2 DEF IsLinking
    <3> QED BY <3>1, <3>2
  <2>2. h = [k \in 0 .. c |-> h[k]]
    OBVIOUS
  <2> HIDE DEF h
  <2>3. Is(h)
    BY <2>1, <2>2
  <2> QED BY <2>3
<1> DEFINE linking == CHOOSE f : Is(f)
<1>3. LinkedAll(ns, id, inputs) = linking[c]
  BY DEF LinkedAll, Sweep
<1>4. Is(linking)
  BY <1>2
<1> HIDE DEF linking
<1>5. IsLinking(ns, id, inputs, c, linking)
  <2>1. \A k \in 0 .. c : linking[k] =
          IF k = 0 THEN ns ELSE Linked(linking[k - 1], inputs[k].target, id, k)
    BY <1>4
  <2>2. 0 \in 0 .. c /\ \A k \in 1 .. c : k \in 0 .. c /\ k # 0
    OBVIOUS
  <2> QED BY <2>1, <2>2 DEF IsLinking
<1> QED BY <1>3, <1>5

\* All edges but those of one node are registered, and then these are.
LEMMA LinkedAllGood ==
  ASSUME NEW ns, NEW X, Good(ns, X), NEW id \in DOMAIN ns,
         NEW inputs, inputs = ns[id].inputs,
         \A e \in AllEdges(ns) : e \in X <=> e.user # id
  PROVE  /\ Good(LinkedAll(ns, id, inputs), AllEdges(ns))
         /\ Alike(LinkedAll(ns, id, inputs), ns)
<1> DEFINE c == Len(inputs)
           first(k) == {[user |-> id, pos |-> p] : p \in 1 .. k}
<1>1. c \in Nat /\ DOMAIN inputs = 1 .. c
  <2>1. ns[id] \in NodeData
    BY DEF Good
  <2>2. inputs \in Seq([target : Nat, kind : EdgeKinds])
    BY <2>1 DEF NodeData
  <2> QED BY <2>2
<1>2. PICK f : IsLinking(ns, id, inputs, c, f) /\ LinkedAll(ns, id, inputs) = f[c]
  BY <1>1, LinkedAllLinks
<1> DEFINE Registered(k) ==
             /\ Good(f[k], X \cup first(k))
             /\ Alike(f[k], ns)
           Fits == {k \in Nat : k <= c => Registered(k)}
<1>3. 0 \in Fits
  <2>1. X \cup first(0) = X /\ f[0] = ns
    BY <1>2 DEF IsLinking
  <2> QED BY <2>1 DEF Alike
<1>4. ASSUME NEW k \in Nat, k \in Fits
      PROVE  k + 1 \in Fits
  <2> SUFFICES ASSUME k + 1 <= c PROVE Registered(k + 1)
    OBVIOUS
  <2> DEFINE ms == f[k]
             e == [user |-> id, pos |-> k + 1]
             target == inputs[k + 1].target
  <2>1. Registered(k) /\ k + 1 \in 1 .. c
    BY <1>1, <1>4
  <2>2. DOMAIN ms = DOMAIN ns /\ ms[id].inputs = inputs
    BY <2>1 DEF Good, Alike
  <2>3. /\ id \in DOMAIN ms /\ k + 1 \in DOMAIN ms[id].inputs
        /\ ms[id].inputs[k + 1].target = target
    BY <1>1, <2>1, <2>2
  <2>4. e \notin X \cup first(k)
    <3>1. e \notin X
      <4>1. e \in AllEdges(ns)
        BY <1>1, <2>1, EdgeOf
      <4> QED BY <4>1
    <3>2. \A p \in 1 .. k : [user |-> id, pos |-> p] # e
      <4> SUFFICES ASSUME NEW p \in 1 .. k PROVE p # k + 1
        OBVIOUS
      <4> QED OBVIOUS
    <3> QED BY <3>1, <3>2
  <2>5. f[k + 1] = Linked(ms, target, id, k + 1)
    <3>1. (k + 1) - 1 = k
      OBVIOUS
    <3> QED BY <1>2, <2>1, <3>1 DEF IsLinking
  <2>6. X \cup first(k + 1) = (X \cup first(k)) \cup {e}
    OBVIOUS
  <2> DEFINE Y == X \cup first(k)
  <2>7. /\ Good(Linked(ms, target, id, k + 1), Y \cup {e})
        /\ Alike(Linked(ms, target, id, k + 1), ms)
    <3>1. Good(ms, Y)
      BY <2>1
    <3> DEFINE j == k + 1
    <3>2. [user |-> id, pos |-> j] \notin Y
      BY <2>4
    <3>3. id \in DOMAIN ms /\ j \in DOMAIN ms[id].inputs /\ ms[id].inputs[j].target = target
      BY <2>3
    <3> HIDE DEF ms, target, Y, j
    <3>4. /\ Good(Linked(ms, target, id, j), Y \cup {[user |-> id, pos |-> j]})
          /\ Alike(Linked(ms, target, id, j), ms)
      BY ONLY <3>1, <3>2, <3>3, LinkedGood
    <3> QED BY <3>4 DEF j
  <2>8. Alike(f[k + 1], ns)
    BY <2>1, <2>2, <2>5, <2>7 DEF Alike
  <2> QED BY <2>5, <2>6, <2>7, <2>8
<1> HIDE DEF Fits
<1>5. Nat \subseteq Fits
  BY <1>3, <1>4, Counting
<1>6. Registered(c)
  <2>1. c \in Fits /\ c <= c
    BY <1>1, <1>5
  <2> HIDE DEF Registered, c
  <2> QED BY <2>1 DEF Fits
<1>7. X \cup first(c) = AllEdges(ns)
  <2>1. X \subseteq AllEdges(ns)
    BY DEF Good
  <2>2. ASSUME NEW e \in AllEdges(ns), e \notin X
        PROVE  e \in first(c)
    <3>1. PICK u \in DOMAIN ns : \E p \in DOMAIN ns[u].inputs : e = [user |-> u, pos |-> p]
      BY EdgeOf
    <3>2. PICK p \in DOMAIN ns[u].inputs : e = [user |-> u, pos |-> p]
      BY <3>1
    <3>3. u = id
      BY <2>2, <3>2
    <3> QED BY <1>1, <3>2, <3>3
  <2>3. first(c) \subseteq AllEdges(ns)
    BY <1>1, EdgeOf
  <2> QED BY <2>1, <2>2, <2>3
<1> QED BY <1>2, <1>6, <1>7

\* A new node, no edge of which is registered yet.
LEMMA AppendedGood ==
  ASSUME NEW ns, Good(ns, AllEdges(ns)), NEW node \in NodeData,
         node.users = <<>>, node.useCount = 0,
         \A p \in DOMAIN node.inputs : node.inputs[p].target \in 0 .. Len(ns) + 1
  PROVE  /\ Good(Append(ns, node), AllEdges(ns))
         /\ Append(ns, node)[Len(ns) + 1] = node
         /\ \A e \in AllEdges(Append(ns, node)) : e \in AllEdges(ns) <=> e.user # Len(ns) + 1
<1> DEFINE id == Len(ns) + 1
           ms == Append(ns, node)
           own == {[user |-> id, pos |-> p] : p \in DOMAIN node.inputs}
<1>1. /\ ns \in Seq(NodeData) /\ Closed(ns) /\ Counted(ns, AllEdges(ns))
      /\ Len(ns) \in Nat /\ DOMAIN ns = 1 .. Len(ns)
  BY DEF Good
<1>2. /\ ms \in Seq(NodeData) /\ Len(ms) = id /\ DOMAIN ms = DOMAIN ns \cup {id}
      /\ ms[id] = node /\ \A n \in DOMAIN ns : ms[n] = ns[n]
      /\ id \notin DOMAIN ns
  BY <1>1
<1> HIDE DEF ms, id
<1>3. AllEdges(ms) = AllEdges(ns) \cup own
  <2>1. ASSUME NEW e
        PROVE  e \in AllEdges(ms) <=> e \in AllEdges(ns) \/ e \in own
    <3>1. e \in AllEdges(ms) <=> \E u \in DOMAIN ns \cup {id} : \E p \in DOMAIN ms[u].inputs :
                                   e = [user |-> u, pos |-> p]
      BY <1>2, EdgeOf
    <3>2. e \in AllEdges(ns) <=> \E u \in DOMAIN ns : \E p \in DOMAIN ms[u].inputs :
                                   e = [user |-> u, pos |-> p]
      BY <1>2, EdgeOf
    <3>3. e \in own <=> \E p \in DOMAIN ms[id].inputs : e = [user |-> id, pos |-> p]
      BY <1>2
    <3> QED BY <3>1, <3>2, <3>3
  <2> QED BY <2>1
<1>4. \A e \in AllEdges(ns) : e.user \in DOMAIN ns
  BY EdgeOf
<1>5. \A e \in AllEdges(ms) : e \in AllEdges(ns) <=> e.user # id
  BY <1>2, <1>3, <1>4
<1>6. Closed(ms)
  <2>1. \A n \in DOMAIN ns : /\ \A p \in DOMAIN ms[n].inputs : ms[n].inputs[p].target \in 0 .. Len(ns)
                             /\ ToSet(ms[n].users) \subseteq AllEdges(ns)
    BY <1>1, <1>2 DEF Closed
  <2>2. \A t \in 0 .. Len(ns) : t \in 0 .. Len(ms)
    BY <1>1, <1>2 DEF id
  <2>3. \A p \in DOMAIN node.inputs : node.inputs[p].target \in 0 .. Len(ms)
    BY <1>2 DEF id
  <2>4. ToSet(node.users) = {}
    BY DEF ToSet
  <2> QED BY <1>2, <1>3, <2>1, <2>2, <2>3, <2>4 DEF Closed
<1>7. \A n : Among(AllEdges(ns), ms, n) = Among(AllEdges(ns), ns, n)
  BY <1>2, <1>4 DEF Among
<1>8. Among(AllEdges(ns), ns, id) = {}
  <2> SUFFICES ASSUME NEW e \in AllEdges(ns), ns[e.user].inputs[e.pos].target = id PROVE FALSE
    BY DEF Among
  <2>1. PICK u \in DOMAIN ns : \E p \in DOMAIN ns[u].inputs : e = [user |-> u, pos |-> p]
    BY EdgeOf
  <2>2. PICK p \in DOMAIN ns[u].inputs : e = [user |-> u, pos |-> p]
    BY <2>1
  <2>3. ns[u].inputs[p].target \in 0 .. Len(ns)
    BY <1>1 DEF Closed
  <2> QED BY <1>1, <2>2, <2>3 DEF id
<1>9. Counted(ms, AllEdges(ns))
  <2>1. IsFiniteSet({}) /\ Cardinality({}) = 0
    BY FS_EmptySet
  <2> QED BY <1>1, <1>2, <1>7, <1>8, <2>1, Widths DEF Counted
<1>10. Good(ms, AllEdges(ns))
  BY <1>2, <1>3, <1>6, <1>9 DEF Good
<1> QED BY <1>2, <1>3, <1>5, <1>10 DEF ms, id

LEMMA AddNodeGood ==
  ASSUME NEW g, g = [nodes |-> g.nodes, start |-> g.start, stop |-> g.stop],
         Good(g.nodes, AllEdges(g.nodes)), NEW l \in Labels, NEW n \in Nat,
         NEW inputs \in [1 .. n -> [target : 0 .. Size(g) + 1, kind : EdgeKinds]],
         NEW h, h = add_node(g, l.kind, l.flags, l.type, l.payload, inputs)
  PROVE  /\ h = [nodes |-> h.nodes, start |-> h.start, stop |-> h.stop]
         /\ Good(h.nodes, AllEdges(h.nodes))
<1> DEFINE ns == g.nodes
           id == Len(ns) + 1
           node == Node(l.kind, l.flags, l.type, l.payload, inputs)
           ms == Append(ns, node)
<1>1. ns \in Seq(NodeData) /\ Len(ns) \in Nat
  BY DEF Good
<1>2. /\ node \in NodeData /\ node.users = <<>> /\ node.useCount = 0 /\ node.inputs = inputs
      /\ \A p \in DOMAIN node.inputs : node.inputs[p].target \in 0 .. Len(ns) + 1
  <2>1. /\ l.kind \in NodeKinds /\ l.flags \in SUBSET (NodeFlags \cup {"IsDead"})
        /\ l.type \in NodeTypes /\ l.payload \in Payloads
    BY DEF Labels
  <2>2. inputs \in Seq([target : Nat, kind : EdgeKinds])
    <3>1. \A p \in 1 .. n : inputs[p] \in [target : Nat, kind : EdgeKinds]
      BY <1>1 DEF Size
    <3>2. inputs = [p \in 1 .. n |-> inputs[p]] /\ n \in Nat
      OBVIOUS
    <3> DEFINE Inputs == [target : Nat, kind : EdgeKinds]
    <3>3. \A p \in 1 .. n : inputs[p] \in Inputs
      BY <3>1
    <3> HIDE DEF Inputs
    <3>4. inputs \in Seq(Inputs)
      BY ONLY <3>2, <3>3
    <3> QED BY <3>4 DEF Inputs
  <2>3. <<>> \in Seq([user : Nat, pos : Nat]) /\ 0 \in Int
    OBVIOUS
  <2>4. node.inputs = inputs /\ node.users = <<>> /\ node.useCount = 0
    BY DEF Node
  <2>5. \A p \in 1 .. n : inputs[p].target \in 0 .. Len(ns) + 1
    BY DEF Size
  <2> QED BY <2>1, <2>2, <2>3, <2>4, <2>5 DEF Node, NodeData
<1> HIDE DEF node
<1>3. /\ Good(ms, AllEdges(ns)) /\ ms[id] = node
      /\ \A e \in AllEdges(ms) : e \in AllEdges(ns) <=> e.user # id
  BY <1>2, AppendedGood
<1>4. id \in DOMAIN ms /\ ms[id].inputs = inputs
  BY <1>1, <1>2, <1>3
<1> DEFINE linked == LinkedAll(ms, id, inputs)
<1>5. Good(linked, AllEdges(ms)) /\ Alike(linked, ms)
  <2> HIDE DEF ms, id
  <2> QED BY <1>3, <1>4, LinkedAllGood
<1>6. AllEdges(linked) = AllEdges(ms)
  <2>1. DOMAIN linked = DOMAIN ms
    BY <1>3, <1>5 DEF Good, Alike
  <2> HIDE DEF linked, ms
  <2> QED BY <1>5, <2>1, SameEdges DEF Alike
<1>7. h = [g EXCEPT !.nodes = linked]
  BY DEF add_node, Size, node
<1> HIDE DEF linked
<1>8. h = [nodes |-> linked, start |-> g.start, stop |-> g.stop]
  BY <1>7
<1> QED BY <1>5, <1>6, <1>8

-----------------------------------------------------------------------------
(* replace_input *)

\* Nodes with one edge pointed elsewhere and not counted any more.
IsPatched(ms, ns, id, pos, new) ==
  /\ ms \in Seq(NodeData) /\ Len(ms) = Len(ns)
  /\ \A n \in DOMAIN ns :
       /\ ms[n].inputs = IF n = id THEN [ns[id].inputs EXCEPT ![pos].target = new]
                         ELSE ns[n].inputs
       /\ ms[n].users = ns[n].users
       /\ ms[n].useCount = IF n = ns[id].inputs[pos].target THEN Uint16(ns[n].useCount - 1)
                           ELSE ns[n].useCount

LEMMA PatchedEdges ==
  ASSUME NEW ns, ns \in Seq(NodeData), NEW id \in DOMAIN ns,
         NEW pos \in DOMAIN ns[id].inputs, NEW new, NEW ms, IsPatched(ms, ns, id, pos, new)
  PROVE  /\ DOMAIN ms = DOMAIN ns
         /\ AllEdges(ms) = AllEdges(ns)
         /\ \A n \in DOMAIN ns :
              /\ DOMAIN ms[n].inputs = DOMAIN ns[n].inputs
              /\ \A p \in DOMAIN ns[n].inputs :
                   ms[n].inputs[p].target = IF n = id /\ p = pos THEN new
                                            ELSE ns[n].inputs[p].target
<1>1. DOMAIN ms = DOMAIN ns
  BY DEF IsPatched
<1>4. \A n \in DOMAIN ns : ms[n].inputs = IF n = id THEN [ns[id].inputs EXCEPT ![pos].target = new]
                                            ELSE ns[n].inputs
  BY DEF IsPatched
<1>2. ASSUME NEW n \in DOMAIN ns
      PROVE  /\ DOMAIN ms[n].inputs = DOMAIN ns[n].inputs
             /\ \A p \in DOMAIN ns[n].inputs :
                  ms[n].inputs[p].target = IF n = id /\ p = pos THEN new
                                           ELSE ns[n].inputs[p].target
  <2>1. ns[n] \in NodeData
    BY <1>1
  <2>3. CASE n # id
    BY <1>4, <2>3
  <2>4. CASE n = id
    <3>1. ms[n].inputs = [ns[n].inputs EXCEPT ![pos].target = new]
      BY <1>4, <2>4
    <3>2. DOMAIN ms[n].inputs = DOMAIN ns[n].inputs
      BY <3>1
    <3>3. ASSUME NEW p \in DOMAIN ns[n].inputs
          PROVE  ms[n].inputs[p].target = IF p = pos THEN new ELSE ns[n].inputs[p].target
      <4>1. ns[n].inputs[p] \in [target : Nat, kind : EdgeKinds]
        BY <2>1, InputOf
      <4>2. p # pos => ms[n].inputs[p] = ns[n].inputs[p]
        BY <3>1
      <4>3. p = pos => ms[n].inputs[p] = [ns[n].inputs[p] EXCEPT !.target = new]
        BY <3>1
      <4> QED BY <4>1, <4>2, <4>3
    <3> QED BY <2>4, <3>2, <3>3
  <2> QED BY <2>3, <2>4
<1>3. AllEdges(ms) = AllEdges(ns)
  BY <1>1, <1>2, SameEdges
<1> QED BY <1>1, <1>2, <1>3

LEMMA PatchedGood ==
  ASSUME NEW ns, Good(ns, AllEdges(ns)), NEW id \in DOMAIN ns,
         NEW pos \in DOMAIN ns[id].inputs, NEW new \in 0 .. Len(ns),
         NEW ms, IsPatched(ms, ns, id, pos, new)
  PROVE  Good(ms, AllEdges(ns) \ {[user |-> id, pos |-> pos]})
<1> DEFINE e == [user |-> id, pos |-> pos]
           X == AllEdges(ns) \ {e}
           old == ns[id].inputs[pos].target
<1>0. \A n \in DOMAIN ns :
        /\ ms[n].inputs = IF n = id THEN [ns[id].inputs EXCEPT ![pos].target = new]
                          ELSE ns[n].inputs
        /\ ms[n].users = ns[n].users
        /\ ms[n].useCount = IF n = old THEN Uint16(ns[n].useCount - 1) ELSE ns[n].useCount
  BY DEF IsPatched
<1>1. /\ ns \in Seq(NodeData) /\ Closed(ns) /\ Counted(ns, AllEdges(ns))
      /\ DOMAIN ms = DOMAIN ns /\ ms \in Seq(NodeData) /\ Len(ms) = Len(ns)
  BY DEF Good, IsPatched
<1>2. \A n \in DOMAIN ns :
        /\ DOMAIN ms[n].inputs = DOMAIN ns[n].inputs
        /\ \A p \in DOMAIN ns[n].inputs :
             ms[n].inputs[p].target = IF n = id /\ p = pos THEN new
                                      ELSE ns[n].inputs[p].target
  BY <1>1, PatchedEdges
<1>3. AllEdges(ms) = AllEdges(ns)
  BY <1>1, PatchedEdges
<1>4. e \in AllEdges(ns)
  BY EdgeOf
<1>5. Closed(ms)
  <2> SUFFICES ASSUME NEW n \in DOMAIN ns
               PROVE  /\ \A p \in DOMAIN ms[n].inputs : ms[n].inputs[p].target \in 0 .. Len(ms)
                      /\ ToSet(ms[n].users) \subseteq AllEdges(ms)
    BY <1>1 DEF Closed
  <2>1. /\ \A p \in DOMAIN ns[n].inputs : ns[n].inputs[p].target \in 0 .. Len(ns)
        /\ ToSet(ns[n].users) \subseteq AllEdges(ns)
    BY <1>1 DEF Closed
  <2> QED BY <1>0, <1>1, <1>2, <1>3, <2>1
<1>6. ASSUME NEW d \in X
      PROVE  ms[d.user].inputs[d.pos].target = ns[d.user].inputs[d.pos].target
  <2>1. PICK u \in DOMAIN ns : \E p \in DOMAIN ns[u].inputs : d = [user |-> u, pos |-> p]
    BY EdgeOf
  <2>2. PICK p \in DOMAIN ns[u].inputs : d = [user |-> u, pos |-> p]
    BY <2>1
  <2>3. ~(u = id /\ p = pos)
    BY <2>2
  <2> QED BY <1>2, <2>2, <2>3
<1>7. \A n : Among(X, ms, n) = Among(AllEdges(ns), ns, n) \ {e}
  BY <1>6 DEF Among
<1>8. Counted(ms, X)
  <2> SUFFICES ASSUME NEW n \in DOMAIN ns
               PROVE  /\ IsFiniteSet(Among(X, ms, n))
                      /\ ms[n].useCount = Uint16(Cardinality(Among(X, ms, n)))
                      /\ Among(X, ms, n) \subseteq ToSet(ms[n].users)
    BY <1>1 DEF Counted
  <2> DEFINE A == Among(AllEdges(ns), ns, n)
  <2>1. IsFiniteSet(A) /\ ns[n].useCount = Uint16(Cardinality(A)) /\ A \subseteq ToSet(ns[n].users)
    BY <1>1 DEF Counted
  <2>2. e \in A <=> n = old
    BY <1>4 DEF Among
  <2>3. Among(X, ms, n) = A \ {e}
    BY <1>7
  <2>6. /\ ms[n].users = ns[n].users
        /\ ms[n].useCount = IF n = old THEN Uint16(ns[n].useCount - 1) ELSE ns[n].useCount
    BY <1>0
  <2> HIDE DEF A, e, X, old
  <2>4. CASE n = old
    <3>1. IsFiniteSet(A \ {e}) /\ Cardinality(A \ {e}) = Cardinality(A) - 1
      BY <2>1, <2>2, <2>4, FS_RemoveElement
    <3>2. Cardinality(A) \in Int
      BY <2>1, FS_CardinalityType
    <3>3. Uint16(ns[n].useCount - 1) = Uint16(Cardinality(A \ {e}))
      BY <2>1, <3>1, <3>2, Widths
    <3> QED BY <2>1, <2>3, <2>4, <2>6, <3>1, <3>3
  <2>5. CASE n # old
    <3>1. A \ {e} = A
      BY <2>2, <2>5
    <3> QED BY <2>1, <2>3, <2>5, <2>6, <3>1
  <2> QED BY <2>4, <2>5
<1>9. Good(ms, X)
  BY <1>1, <1>3, <1>5, <1>8 DEF Good
<1> QED BY <1>9

LEMMA ReplaceInputGood ==
  ASSUME NEW g, g = [nodes |-> g.nodes, start |-> g.start, stop |-> g.stop],
         Good(g.nodes, AllEdges(g.nodes)), NEW id \in Ids(g),
         NEW pos \in DOMAIN g.nodes[id].inputs, NEW new \in 0 .. Size(g),
         NEW h, h = replace_input(g, id, pos, new)
  PROVE  /\ h = [nodes |-> h.nodes, start |-> h.start, stop |-> h.stop]
         /\ Good(h.nodes, AllEdges(h.nodes))
<1> DEFINE ns == g.nodes
           old == ns[id].inputs[pos].target
           e == [user |-> id, pos |-> pos]
           patched == [ns EXCEPT ![id].inputs[pos].target = new]
           ms == IF old = NoNode THEN patched ELSE [patched EXCEPT ![old].useCount = Uint16(@ - 1)]
           linked == Linked(ms, new, id, pos)
<1>1. CASE old = new
  BY <1>1 DEF replace_input
<1>2. CASE old # new
  <2>1. /\ ns \in Seq(NodeData) /\ Closed(ns) /\ Len(ns) \in Nat /\ DOMAIN ns = 1 .. Len(ns)
    BY DEF Good
  <2>2. id \in DOMAIN ns /\ new \in 0 .. Len(ns) /\ old \in 0 .. Len(ns)
    BY <2>1 DEF Ids, Size, Closed
  <2> DEFINE inputs == [ns[id].inputs EXCEPT ![pos].target = new]
  <2>3. inputs \in Seq([target : Nat, kind : EdgeKinds])
    <3>6. ns[id] \in NodeData
      BY <2>1, <2>2
    <3>1. ns[id].inputs \in Seq([target : Nat, kind : EdgeKinds])
      BY <3>6 DEF NodeData
    <3>2. new \in Nat
      BY <2>1, <2>2
    <3>3. ns[id].inputs[pos] \in [target : Nat, kind : EdgeKinds]
      BY <3>6, InputOf
    <3>4. [ns[id].inputs[pos] EXCEPT !.target = new] \in [target : Nat, kind : EdgeKinds]
      BY <3>2, <3>3
    <3>5. inputs = [ns[id].inputs EXCEPT ![pos] = [ns[id].inputs[pos] EXCEPT !.target = new]]
      OBVIOUS
    <3> QED BY <3>1, <3>4, <3>5
  <2>4. patched = [ns EXCEPT ![id] = [ns[id] EXCEPT !.inputs = inputs]]
    OBVIOUS
  <2> HIDE DEF inputs, patched
  <2>5. /\ patched \in Seq(NodeData) /\ Len(patched) = Len(ns)
        /\ \A n \in DOMAIN ns :
             /\ patched[n].inputs = IF n = id THEN inputs ELSE ns[n].inputs
             /\ patched[n].users = ns[n].users
             /\ patched[n].useCount = ns[n].useCount
    <3>1. ns[id] \in NodeData
      BY <2>1, <2>2
    <3> DEFINE node == [ns[id] EXCEPT !.inputs = inputs]
    <3>2. /\ node \in NodeData /\ node.inputs = inputs
          /\ node.users = ns[id].users /\ node.useCount = ns[id].useCount
      BY <2>3, <3>1 DEF NodeData
    <3> HIDE DEF node
    <3>3. patched = [ns EXCEPT ![id] = node]
      BY <2>4 DEF node
    <3> QED BY <2>1, <2>2, <3>2, <3>3
  <2>6. /\ ms \in Seq(NodeData) /\ Len(ms) = Len(ns)
        /\ \A n \in DOMAIN ns :
             /\ ms[n].inputs = patched[n].inputs
             /\ ms[n].users = patched[n].users
             /\ ms[n].useCount = IF n = old THEN Uint16(patched[n].useCount - 1) ELSE patched[n].useCount
    <3>1. CASE old = NoNode
      <4>1. \A n \in DOMAIN ns : n # old
        BY <2>1, <3>1 DEF NoNode
      <4> QED BY <2>5, <3>1, <4>1
    <3>2. CASE old # NoNode
      <4>1. old \in DOMAIN ns /\ old \in DOMAIN patched /\ patched[old] \in NodeData
        BY <2>1, <2>2, <2>5, <3>2 DEF NoNode
      <4> DEFINE node == [patched[old] EXCEPT !.useCount = Uint16(@ - 1)]
      <4>2. /\ node \in NodeData /\ node.inputs = patched[old].inputs
            /\ node.users = patched[old].users /\ node.useCount = Uint16(patched[old].useCount - 1)
        <5>0. \A r \in NodeData : r.useCount - 1 \in Int
          BY DEF NodeData
        <5>1. \A r \in NodeData : Uint16(r.useCount - 1) \in Int
          BY <5>0, Widths
        <5> QED BY <4>1, <5>1, NodeRecounted
      <4>3. ms = [patched EXCEPT ![old] = node]
        BY <3>2
      <4> HIDE DEF node, ms, old
      <4> QED BY <2>1, <2>5, <4>1, <4>2, <4>3
    <3> QED BY <3>1, <3>2
  <2> DEFINE X == AllEdges(ns) \ {e}
  <2>7. /\ Good(ms, X) /\ AllEdges(ms) = AllEdges(ns)
        /\ id \in DOMAIN ms /\ pos \in DOMAIN ms[id].inputs /\ ms[id].inputs[pos].target = new
    <3>1. IsPatched(ms, ns, id, pos, new)
      BY <2>5, <2>6 DEF inputs, IsPatched
    <3>2. Good(ns, AllEdges(ns)) /\ id \in DOMAIN ns /\ pos \in DOMAIN ns[id].inputs
      BY <2>2
    <3> HIDE DEF ms, old, ns
    <3>3. new \in 0 .. Len(ns)
      BY <2>2
    <3>4. Good(ms, AllEdges(ns) \ {[user |-> id, pos |-> pos]})
      BY ONLY <3>1, <3>2, <3>3, PatchedGood
    <3>5. /\ AllEdges(ms) = AllEdges(ns) /\ DOMAIN ms = DOMAIN ns
          /\ DOMAIN ms[id].inputs = DOMAIN ns[id].inputs
          /\ ms[id].inputs[pos].target = new
      BY <2>1, <3>1, <3>2, PatchedEdges
    <3>6. /\ id \in DOMAIN ms /\ pos \in DOMAIN ms[id].inputs
          /\ ms[id].inputs[pos].target = new
      BY <3>2, <3>5
    <3> QED BY <3>4, <3>5, <3>6
  <2>8. Good(linked, X \cup {e}) /\ Alike(linked, ms)
    <3>1. [user |-> id, pos |-> pos] \notin X
      OBVIOUS
    <3> HIDE DEF ms, X
    <3>2. /\ Good(Linked(ms, new, id, pos), X \cup {[user |-> id, pos |-> pos]})
          /\ Alike(Linked(ms, new, id, pos), ms)
      <4>1. Good(ms, X)
        BY <2>7
      <4>2. id \in DOMAIN ms /\ pos \in DOMAIN ms[id].inputs
        BY <2>7
      <4>3. ms[id].inputs[pos].target = new
        BY <2>7
      <4> QED BY ONLY <4>1, <4>2, <4>3, <3>1, LinkedGood
    <3> QED BY <3>2
  <2>9. AllEdges(linked) = AllEdges(ns)
    <3> HIDE DEF linked, ms
    <3>1. DOMAIN linked = DOMAIN ms
      BY <2>7, <2>8 DEF Good, Alike
    <3> QED BY <2>7, <2>8, <3>1, SameEdges DEF Alike
  <2>10. X \cup {e} = AllEdges(ns)
    BY <2>2, EdgeOf
  <2>11. h = [g EXCEPT !.nodes = linked]
    BY <1>2 DEF replace_input, patched
  <2> HIDE DEF linked, X
  <2>12. h = [nodes |-> linked, start |-> g.start, stop |-> g.stop]
    BY <2>11
  <2>13. /\ h.nodes = linked
         /\ h = [nodes |-> h.nodes, start |-> h.start, stop |-> h.stop]
    BY <2>12
  <2>14. Good(linked, AllEdges(linked))
    BY <2>8, <2>9, <2>10
  <2> QED BY <2>13, <2>14
<1> QED BY <1>1, <1>2

-----------------------------------------------------------------------------
(* replace_all_uses_with *)

\* The entry at k of the list us moves, for edges to old; the first of its edge.
MovesAt(g, old, new, us, k) ==
  /\ PointsAt(g, old, us[k])
  /\ old # new => \A j \in 1 .. k - 1 : us[j] # us[k]

\* What has moved after the first k entries.
IsMoving(g, old, new, us, m, f) ==
  /\ f[0] = <<>>
  /\ \A k \in 1 .. m :
       f[k] = IF MovesAt(g, old, new, us, k) THEN Append(f[k - 1], us[k]) ELSE f[k - 1]

LEMMA MovingExists ==
  ASSUME NEW g, NEW old, NEW new, NEW us, NEW m \in Nat
  PROVE  \E f : IsMoving(g, old, new, us, m, f)
<1> DEFINE Fits == {k \in Nat : \E f : IsMoving(g, old, new, us, k, f)}
<1>1. 0 \in Fits
  <2>1. IsMoving(g, old, new, us, 0, [k \in 0 .. 0 |-> <<>>])
    BY DEF IsMoving
  <2> QED BY <2>1
<1>2. ASSUME NEW k \in Nat, k \in Fits
      PROVE  k + 1 \in Fits
  <2>1. PICK f : IsMoving(g, old, new, us, k, f)
    BY <1>2
  <2> DEFINE last == IF MovesAt(g, old, new, us, k + 1) THEN Append(f[k], us[k + 1]) ELSE f[k]
             h == [i \in 0 .. k + 1 |-> IF i <= k THEN f[i] ELSE last]
  <2>2. h[0] = <<>>
    BY <2>1 DEF IsMoving
  <2>3. ASSUME NEW i \in 1 .. k + 1
        PROVE  h[i] = IF MovesAt(g, old, new, us, i) THEN Append(h[i - 1], us[i]) ELSE h[i - 1]
    <3>1. i - 1 \in 0 .. k + 1 /\ h[i - 1] = f[i - 1]
      OBVIOUS
    <3>2. CASE i <= k
      BY <2>1, <3>1, <3>2 DEF IsMoving
    <3>3. CASE i = k + 1
      <4>1. i - 1 = k /\ h[i] = last
        BY <3>3
      <4> QED BY <3>1, <3>3, <4>1
    <3> QED BY <3>2, <3>3
  <2> HIDE DEF h
  <2>4. IsMoving(g, old, new, us, k + 1, h)
    BY <2>2, <2>3 DEF IsMoving
  <2> QED BY <2>4
<1> HIDE DEF Fits
<1>3. Nat \subseteq Fits
  BY <1>1, <1>2, Counting
<1> QED BY <1>3 DEF Fits

LEMMA MovedMoves ==
  ASSUME NEW g, NEW old, NEW new, NEW us, us = g.nodes[old].users, Len(us) \in Nat
  PROVE  \E f : IsMoving(g, old, new, us, Len(us), f) /\ Moved(g, old, new) = f[Len(us)]
<1> DEFINE c == Len(us)
           Is(f) == f = [k \in 0 .. c |->
                           IF k = 0 THEN <<>>
                           ELSE IF MovesAt(g, old, new, us, k) THEN Append(f[k - 1], us[k])
                           ELSE f[k - 1]]
<1>1. PICK a : IsMoving(g, old, new, us, c, a)
  BY MovingExists
<1> DEFINE h == [k \in 0 .. c |-> a[k]]
<1>2. \E f : Is(f)
  <2>1. ASSUME NEW k \in 0 .. c
        PROVE  h[k] = IF k = 0 THEN <<>>
                      ELSE IF MovesAt(g, old, new, us, k) THEN Append(h[k - 1], us[k])
                      ELSE h[k - 1]
    <3>1. CASE k = 0
      BY <1>1, <3>1 DEF IsMoving
    <3>2. CASE k # 0
      <4>1. k \in 1 .. c /\ k - 1 \in 0 .. c
        BY <3>2
      <4>2. h[k] = a[k] /\ h[k - 1] = a[k - 1]
        BY <4>1
      <4> QED BY <1>1, <3>2, <4>1, <4>2 DEF IsMoving
    <3> QED BY <3>1, <3>2
  <2>2. h = [k \in 0 .. c |-> h[k]]
    OBVIOUS
  <2> HIDE DEF h
  <2>3. Is(h)
    BY <2>1, <2>2
  <2> QED BY <2>3
<1> DEFINE moving == CHOOSE f : Is(f)
<1>3. Moved(g, old, new) = moving[c]
  BY DEF Moved, Sweep, MovesAt
<1>4. Is(moving)
  BY <1>2
<1> HIDE DEF moving
<1>5. IsMoving(g, old, new, us, c, moving)
  <2>1. \A k \in 0 .. c : moving[k] =
          IF k = 0 THEN <<>>
          ELSE IF MovesAt(g, old, new, us, k) THEN Append(moving[k - 1], us[k])
          ELSE moving[k - 1]
    BY <1>4
  <2>2. 0 \in 0 .. c /\ \A k \in 1 .. c : k \in 0 .. c /\ k # 0
    OBVIOUS
  <2> QED BY <2>1, <2>2 DEF IsMoving
<1> QED BY <1>3, <1>5

\* The listed edges to old.
Live(g, old, us) == {us[k] : k \in {j \in DOMAIN us : PointsAt(g, old, us[j])}}

\* What moves is each edge to old that is listed, once.
LEMMA MovedOnce ==
  ASSUME NEW g, NEW old, NEW new, old # new,
         NEW us \in Seq([user : Nat, pos : Nat]), us = g.nodes[old].users
  PROVE  /\ Moved(g, old, new) \in Seq([user : Nat, pos : Nat])
         /\ ToSet(Moved(g, old, new)) = Live(g, old, us)
         /\ Cardinality(Live(g, old, us)) = Len(Moved(g, old, new))
<1> DEFINE c == Len(us)
           live(k) == {us[i] : i \in {j \in 1 .. k : PointsAt(g, old, us[j])}}
<1>1. c \in Nat /\ DOMAIN us = 1 .. c
  OBVIOUS
<1>2. PICK f : IsMoving(g, old, new, us, c, f) /\ Moved(g, old, new) = f[c]
  BY <1>1, MovedMoves
<1> DEFINE Holds(k) == /\ f[k] \in Seq([user : Nat, pos : Nat])
                       /\ ToSet(f[k]) = live(k)
                       /\ IsFiniteSet(live(k)) /\ Cardinality(live(k)) = Len(f[k])
           Fits == {k \in Nat : k <= c => Holds(k)}
<1>3. 0 \in Fits
  <2>1. f[0] = <<>> /\ live(0) = {}
    BY <1>2 DEF IsMoving
  <2>2. IsFiniteSet({}) /\ Cardinality({}) = 0
    BY FS_EmptySet
  <2>3. <<>> \in Seq([user : Nat, pos : Nat]) /\ ToSet(<<>>) = {} /\ Len(<<>>) = 0
    BY DEF ToSet
  <2> QED BY <2>1, <2>2, <2>3
<1>4. ASSUME NEW k \in Nat, k \in Fits
      PROVE  k + 1 \in Fits
  <2> SUFFICES ASSUME k + 1 <= c PROVE Holds(k + 1)
    <3> HIDE DEF Holds, c
    <3> QED OBVIOUS
  <2> DEFINE u == us[k + 1]
             m == f[k]
  <2>1. Holds(k) /\ k + 1 \in 1 .. c /\ u \in [user : Nat, pos : Nat]
    <3>1. k <= c /\ k + 1 \in 1 .. c
      BY <1>1
    <3>2. u \in [user : Nat, pos : Nat]
      <4> DEFINE Pairs == [user : Nat, pos : Nat]
      <4>1. us \in Seq(Pairs)
        OBVIOUS
      <4> HIDE DEF Pairs
      <4>2. us[k + 1] \in Pairs
        BY <1>1, <3>1, <4>1
      <4> QED BY <4>2 DEF Pairs
    <3>3. Holds(k)
      <4> HIDE DEF Holds, c
      <4> QED BY <1>4, <3>1
    <3> HIDE DEF Holds, c, u
    <3> QED BY <3>1, <3>2, <3>3
  <2>2. f[k + 1] = IF MovesAt(g, old, new, us, k + 1) THEN Append(m, u) ELSE m
    <3>1. (k + 1) - 1 = k
      OBVIOUS
    <3> QED BY <1>2, <2>1, <3>1 DEF IsMoving
  <2>3. live(k + 1) = live(k) \cup (IF PointsAt(g, old, u) THEN {u} ELSE {})
    <3>1. \A j : j \in 1 .. k + 1 <=> j \in 1 .. k \/ j = k + 1
      OBVIOUS
    <3> QED BY <3>1
  <2>4. CASE MovesAt(g, old, new, us, k + 1)
    <3>1. PointsAt(g, old, u) /\ \A j \in 1 .. k : us[j] # u
      <4>1. (k + 1) - 1 = k
        OBVIOUS
      <4> QED BY <2>4, <4>1 DEF MovesAt
    <3>2. live(k + 1) = live(k) \cup {u} /\ u \notin live(k)
      BY <2>3, <3>1
    <3>3. f[k + 1] = Append(m, u)
      BY <2>2, <2>4
    <3>4. /\ IsFiniteSet(live(k) \cup {u})
          /\ Cardinality(live(k) \cup {u}) = Cardinality(live(k)) + 1
      <4> HIDE DEF live, u
      <4> QED BY <2>1, <3>2, FS_AddElement
    <3>5. /\ Append(m, u) \in Seq([user : Nat, pos : Nat])
          /\ Len(Append(m, u)) = Len(m) + 1
          /\ ToSet(Append(m, u)) = ToSet(m) \cup {u}
      <4> DEFINE Pairs == [user : Nat, pos : Nat]
      <4>1. m \in Seq(Pairs) /\ u \in Pairs
        BY <2>1
      <4> HIDE DEF m, u, Pairs
      <4>2. /\ Append(m, u) \in Seq(Pairs) /\ Len(Append(m, u)) = Len(m) + 1
            /\ Len(m) \in Nat /\ DOMAIN m = 1 .. Len(m)
            /\ DOMAIN Append(m, u) = 1 .. Len(m) + 1
            /\ \A i \in 1 .. Len(m) : Append(m, u)[i] = m[i]
            /\ Append(m, u)[Len(m) + 1] = u
        BY <4>1
      <4>3. ToSet(Append(m, u)) = ToSet(m) \cup {u}
        <5> DEFINE s == Append(m, u)
        <5> HIDE DEF s
        <5>1. \A i \in DOMAIN m : i \in DOMAIN s /\ s[i] = m[i]
          BY <4>2 DEF s
        <5>2. Len(m) + 1 \in DOMAIN s /\ s[Len(m) + 1] = u
          BY <4>2 DEF s
        <5>3. \A i \in DOMAIN s : i \in DOMAIN m \/ i = Len(m) + 1
          BY <4>2 DEF s
        <5>4. ToSet(s) = ToSet(m) \cup {u}
          BY <5>1, <5>2, <5>3 DEF ToSet
        <5> QED BY <5>4 DEF s
      <4> QED BY <4>2, <4>3 DEF Pairs
    <3> HIDE DEF live, u, m
    <3>6. ToSet(m) = live(k) /\ Cardinality(live(k)) = Len(m)
      BY <2>1 DEF m
    <3> QED BY <3>2, <3>3, <3>4, <3>5, <3>6
  <2>5. CASE ~MovesAt(g, old, new, us, k + 1)
    <3>1. PointsAt(g, old, u) => u \in live(k)
      <4> SUFFICES ASSUME PointsAt(g, old, u) PROVE u \in live(k)
        OBVIOUS
      <4>1. (k + 1) - 1 = k
        OBVIOUS
      <4>2. PICK j \in 1 .. k : us[j] = u
        BY <2>5, <4>1 DEF MovesAt
      <4> QED BY <4>2
    <3>2. live(k + 1) = live(k)
      <4> HIDE DEF live, u
      <4> QED BY <2>3, <3>1
    <3>3. f[k + 1] = f[k]
      BY <2>2, <2>5
    <3> HIDE DEF live, u
    <3> QED BY <2>1, <3>2, <3>3
  <2> QED BY <2>4, <2>5
<1> HIDE DEF Fits
<1>5. Nat \subseteq Fits
  BY <1>3, <1>4, Counting
<1>6. Holds(c)
  <2>1. c \in Fits /\ c <= c
    BY <1>1, <1>5
  <2> HIDE DEF Holds, c
  <2> QED BY <2>1 DEF Fits
<1>7. live(c) = Live(g, old, us)
  BY <1>1 DEF Live
<1> QED BY <1>2, <1>6, <1>7

\* The edges of M, all those to old, are pointed at new, and their entries, in
\* moved, go to its list.
IsReplaced(ms, ns, old, new, M, moved) ==
  /\ ms \in Seq(NodeData) /\ Len(ms) = Len(ns)
  /\ \A n \in DOMAIN ns :
       /\ DOMAIN ms[n].inputs = DOMAIN ns[n].inputs
       /\ \A p \in DOMAIN ns[n].inputs :
            ms[n].inputs[p].target = IF [user |-> n, pos |-> p] \in M THEN new
                                     ELSE ns[n].inputs[p].target
       /\ ToSet(ms[n].users) = IF n = old THEN {}
                               ELSE IF n = new THEN M \cup ToSet(ns[n].users)
                               ELSE ToSet(ns[n].users)
       /\ ms[n].useCount = IF n = old THEN 0
                           ELSE IF n = new THEN Uint16(ns[n].useCount + Len(moved))
                           ELSE ns[n].useCount

LEMMA ReplacedGood ==
  ASSUME NEW ns, Good(ns, AllEdges(ns)), NEW old \in DOMAIN ns, NEW new \in DOMAIN ns,
         old # new, NEW M, M = Among(AllEdges(ns), ns, old),
         NEW moved, Cardinality(M) = Len(moved),
         NEW ms, IsReplaced(ms, ns, old, new, M, moved)
  PROVE  Good(ms, AllEdges(ms))
<1> DEFINE All == AllEdges(ns)
<1>1. /\ ns \in Seq(NodeData) /\ Closed(ns) /\ Counted(ns, All)
      /\ DOMAIN ns = 1 .. Len(ns) /\ Len(ns) \in Nat
  BY DEF Good
<1>2. ms \in Seq(NodeData) /\ Len(ms) = Len(ns) /\ DOMAIN ms = DOMAIN ns
  BY <1>1 DEF IsReplaced
<1>3. \A n \in DOMAIN ns :
         /\ DOMAIN ms[n].inputs = DOMAIN ns[n].inputs
         /\ \A p \in DOMAIN ns[n].inputs :
              ms[n].inputs[p].target = IF [user |-> n, pos |-> p] \in M THEN new
                                       ELSE ns[n].inputs[p].target
  BY DEF IsReplaced
<1>4. \A n \in DOMAIN ns :
        /\ ToSet(ms[n].users) = IF n = old THEN {}
                                ELSE IF n = new THEN M \cup ToSet(ns[n].users)
                                ELSE ToSet(ns[n].users)
        /\ ms[n].useCount = IF n = old THEN 0
                            ELSE IF n = new THEN Uint16(ns[n].useCount + Len(moved))
                            ELSE ns[n].useCount
  BY DEF IsReplaced
<1>5. AllEdges(ms) = All
  BY <1>2, <1>3, SameEdges
<1>6. M \subseteq All
  BY DEF Among
<1>7. Closed(ms)
  <2> SUFFICES ASSUME NEW n \in DOMAIN ns
               PROVE  /\ \A p \in DOMAIN ms[n].inputs : ms[n].inputs[p].target \in 0 .. Len(ms)
                      /\ ToSet(ms[n].users) \subseteq AllEdges(ms)
    BY <1>2 DEF Closed
  <2>1. /\ \A p \in DOMAIN ns[n].inputs : ns[n].inputs[p].target \in 0 .. Len(ns)
        /\ ToSet(ns[n].users) \subseteq All
    BY <1>1 DEF Closed
  <2>2. new \in 0 .. Len(ns)
    BY <1>1
  <2>3. \A p \in DOMAIN ms[n].inputs : ms[n].inputs[p].target \in 0 .. Len(ms)
    BY <1>2, <1>3, <2>1, <2>2
  <2>4. ToSet(ms[n].users) \subseteq AllEdges(ms)
    <3> HIDE DEF All
    <3> QED BY <1>4, <1>5, <1>6, <2>1
  <2> QED BY <2>3, <2>4
<1>8. ASSUME NEW e \in All
      PROVE  ms[e.user].inputs[e.pos].target =
               IF e \in M THEN new ELSE ns[e.user].inputs[e.pos].target
  <2>1. PICK u \in DOMAIN ns : \E p \in DOMAIN ns[u].inputs : e = [user |-> u, pos |-> p]
    BY EdgeOf
  <2>2. PICK p \in DOMAIN ns[u].inputs : e = [user |-> u, pos |-> p]
    BY <2>1
  <2>3. e.user = u /\ e.pos = p
    BY <2>2
  <2> QED BY <1>3, <2>2, <2>3
<1>9. \A e \in All : e \in M <=> ns[e.user].inputs[e.pos].target = old
  BY DEF Among
<1>10. ASSUME NEW n
      PROVE  Among(All, ms, n) = IF n = old THEN {}
                                 ELSE IF n = new THEN M \cup Among(All, ns, n)
                                 ELSE Among(All, ns, n)
  <2> HIDE DEF All
  <2>1. \A e : e \in Among(All, ms, n) <=> e \in All /\ ms[e.user].inputs[e.pos].target = n
    BY DEF Among
  <2>2. \A e : e \in Among(All, ns, n) <=> e \in All /\ ns[e.user].inputs[e.pos].target = n
    BY DEF Among
  <2>3. CASE n = old
    BY <1>8, <1>9, <2>1, <2>3
  <2>4. CASE n = new
    BY <1>6, <1>8, <1>9, <2>1, <2>2, <2>4
  <2>5. CASE n # old /\ n # new
    BY <1>8, <1>9, <2>1, <2>2, <2>5
  <2> QED BY <2>3, <2>4, <2>5
<1>11. Counted(ms, All)
  <2> SUFFICES ASSUME NEW n \in DOMAIN ns
               PROVE  /\ IsFiniteSet(Among(All, ms, n))
                      /\ ms[n].useCount = Uint16(Cardinality(Among(All, ms, n)))
                      /\ Among(All, ms, n) \subseteq ToSet(ms[n].users)
    BY <1>2 DEF Counted
  <2> DEFINE A == Among(All, ns, n)
  <2>1. IsFiniteSet(A) /\ ns[n].useCount = Uint16(Cardinality(A)) /\ A \subseteq ToSet(ns[n].users)
    BY <1>1 DEF Counted
  <2>2. IsFiniteSet(M)
    BY <1>1 DEF Counted
  <2>3. CASE n = old
    <3>1. IsFiniteSet({}) /\ Cardinality({}) = 0
      BY FS_EmptySet
    <3> QED BY <1>4, <1>10, <2>3, <3>1, Widths
  <2>4. CASE n = new
    <3>1. A \cap M = {}
      <4>1. \A e \in A : ns[e.user].inputs[e.pos].target = new
        BY <2>4 DEF Among
      <4>2. \A e \in M : ns[e.user].inputs[e.pos].target = old
        BY DEF Among
      <4> QED BY <4>1, <4>2
    <3>2. Among(All, ms, n) = M \cup A
      BY <1>10, <2>4
    <3>3. /\ ToSet(ms[n].users) = M \cup ToSet(ns[n].users)
          /\ ms[n].useCount = Uint16(ns[n].useCount + Len(moved))
      BY <1>4, <2>4
    <3> HIDE DEF A
    <3>4. /\ IsFiniteSet(M \cup A)
          /\ Cardinality(M \cup A) = Cardinality(M) + Cardinality(A) - Cardinality(M \cap A)
      BY <2>1, <2>2, FS_Union
    <3>5. Cardinality(M \cap A) = 0
      <4>1. M \cap A = {}
        BY <3>1
      <4> QED BY <4>1, FS_EmptySet
    <3>6. Cardinality(M) \in Nat /\ Cardinality(A) \in Nat
      BY <2>1, <2>2, FS_CardinalityType
    <3>7. Cardinality(M \cup A) = Cardinality(A) + Cardinality(M)
      BY <3>4, <3>5, <3>6
    <3>8. Uint16(ns[n].useCount + Len(moved)) = Uint16(Cardinality(A) + Cardinality(M))
      BY <1>4, <2>1, <3>6, Widths
    <3> QED BY <2>1, <3>2, <3>3, <3>4, <3>7, <3>8
  <2>5. CASE n # old /\ n # new
    <3>1. Among(All, ms, n) = A
      BY <1>10, <2>5
    <3> HIDE DEF A
    <3> QED BY <1>4, <2>1, <2>5, <3>1
  <2> QED BY <2>3, <2>4, <2>5
<1> HIDE DEF All
<1> QED BY <1>2, <1>5, <1>7, <1>11 DEF Good

LEMMA ReplaceAllUsesGood ==
  ASSUME NEW g, g = [nodes |-> g.nodes, start |-> g.start, stop |-> g.stop],
         Good(g.nodes, AllEdges(g.nodes)), NEW old \in Ids(g), NEW new \in Ids(g), old # new,
         NEW h, h = replace_all_uses_with(g, old, new)
  PROVE  /\ h = [nodes |-> h.nodes, start |-> h.start, stop |-> h.stop]
         /\ Good(h.nodes, AllEdges(h.nodes))
<1> DEFINE ns == g.nodes
           us == ns[old].users
           M == Among(AllEdges(ns), ns, old)
           moved == Moved(g, old, new)
           S == Live(g, old, us)
           Pairs == [user : Nat, pos : Nat]
           inputs(k) == [p \in DOMAIN ns[k].inputs |->
                           IF [user |-> k, pos |-> p] \in {moved[j] : j \in DOMAIN moved}
                           THEN [ns[k].inputs[p] EXCEPT !.target = new] ELSE ns[k].inputs[p]]
           patched == [k \in Ids(g) |-> [ns[k] EXCEPT !.inputs = inputs(k)]]
           emptied == [patched EXCEPT ![old].users = <<>>]
           spliced == [emptied EXCEPT ![new].users = moved \o @, ![new].useCount = Uint16(@ + Len(moved))]
           ms == [spliced EXCEPT ![old].useCount = 0]
<1>1. /\ ns \in Seq(NodeData) /\ Closed(ns) /\ Counted(ns, AllEdges(ns))
      /\ DOMAIN ns = 1 .. Len(ns) /\ Len(ns) \in Nat /\ Ids(g) = DOMAIN ns
      /\ old \in DOMAIN ns /\ new \in DOMAIN ns
      /\ \A n \in DOMAIN ns : ns[n] \in NodeData
  BY DEF Good, Ids, Size
<1>2. \A r \in NodeData : r.users \in Seq(Pairs) /\ r.useCount \in Int
  BY DEF NodeData
<1>3. S = M
  <2>1. \A e \in S : e \in AllEdges(ns) /\ ns[e.user].inputs[e.pos].target = old
    BY <1>1 DEF Closed, ToSet, PointsAt, Live
  <2>2. \A e \in M : e \in ToSet(us) /\ ns[e.user].inputs[e.pos].target = old
    BY <1>1 DEF Counted, Among
  <2>3. \A e \in M : PointsAt(g, old, e)
    BY <2>2 DEF PointsAt
  <2>4. \A e \in M : e \in S
    BY <2>2, <2>3 DEF ToSet, Live
  <2>5. \A e \in S : e \in M
    BY <2>1 DEF Among
  <2> QED BY <2>4, <2>5
<1>4. moved \in Seq(Pairs) /\ ToSet(moved) = M /\ Cardinality(M) = Len(moved)
  <2>1. us \in Seq(Pairs) /\ us = g.nodes[old].users
    BY <1>1, <1>2
  <2> HIDE DEF us
  <2>2. /\ moved \in Seq(Pairs) /\ ToSet(moved) = S /\ Cardinality(S) = Len(moved)
    BY ONLY <2>1, MovedOnce, old # new DEF moved, S, Pairs
  <2> QED BY <1>3, <2>2
<1> HIDE DEF moved, M, S
<1>5. ASSUME NEW k \in DOMAIN ns
      PROVE  /\ inputs(k) \in Seq([target : Nat, kind : EdgeKinds])
             /\ DOMAIN inputs(k) = DOMAIN ns[k].inputs
             /\ \A p \in DOMAIN ns[k].inputs :
                  inputs(k)[p].target = IF [user |-> k, pos |-> p] \in M THEN new
                                        ELSE ns[k].inputs[p].target
  <2> DEFINE Edge_ == [target : Nat, kind : EdgeKinds]
             n == Len(ns[k].inputs)
  <2>1. n \in Nat /\ DOMAIN ns[k].inputs = 1 .. n
    <3>1. \A r \in NodeData : r.inputs \in Seq(Edge_)
      BY DEF NodeData
    <3>2. ns[k].inputs \in Seq(Edge_)
      BY <1>1, <3>1
    <3> QED BY <3>2
  <2>2. \A p \in 1 .. n : ns[k].inputs[p] \in Edge_
    BY <1>1, <2>1, InputOf
  <2>3. new \in Nat
    BY <1>1
  <2>4. \A e : e \in {moved[j] : j \in DOMAIN moved} <=> e \in M
    BY <1>4 DEF ToSet
  <2>5. ASSUME NEW p \in 1 .. n
        PROVE  /\ inputs(k)[p] \in Edge_
               /\ inputs(k)[p].target = IF [user |-> k, pos |-> p] \in M THEN new
                                        ELSE ns[k].inputs[p].target
    <3>1. inputs(k)[p] = IF [user |-> k, pos |-> p] \in M
                         THEN [ns[k].inputs[p] EXCEPT !.target = new] ELSE ns[k].inputs[p]
      BY <2>1, <2>4
    <3>2. \A e \in Edge_ : [e EXCEPT !.target = new] \in Edge_ /\ [e EXCEPT !.target = new].target = new
      BY <2>3
    <3> HIDE DEF inputs, Edge_
    <3> QED BY <2>2, <3>1, <3>2
  <2>6. DOMAIN inputs(k) = 1 .. n
    BY <2>1
  <2>7. inputs(k) \in Seq(Edge_)
    <3>1. inputs(k) = [p \in 1 .. n |-> inputs(k)[p]]
      BY <2>1
    <3>2. \A p \in 1 .. n : inputs(k)[p] \in Edge_
      BY <2>5
    <3>3. n \in Nat
      BY <2>1
    <3> DEFINE is == inputs(k)
    <3> HIDE DEF inputs, n, Edge_, is
    <3>4. is \in Seq(Edge_)
      BY ONLY <3>1, <3>2, <3>3 DEF is
    <3> QED BY <3>4 DEF is
  <2> HIDE DEF inputs, n
  <2> QED BY <2>1, <2>5, <2>6, <2>7
<1> HIDE DEF inputs
<1>6. /\ DOMAIN patched = DOMAIN ns
      /\ \A k \in DOMAIN ns : /\ patched[k] \in NodeData
                              /\ patched[k].inputs = inputs(k)
                              /\ patched[k].users = ns[k].users
                              /\ patched[k].useCount = ns[k].useCount
  <2>1. \A k \in DOMAIN ns : patched[k] = [ns[k] EXCEPT !.inputs = inputs(k)]
    BY <1>1
  <2>2. DOMAIN patched = DOMAIN ns
    BY <1>1
  <2> HIDE DEF patched
  <2>3. ASSUME NEW k \in DOMAIN ns
        PROVE  /\ patched[k] \in NodeData
               /\ patched[k].inputs = inputs(k)
               /\ patched[k].users = ns[k].users
               /\ patched[k].useCount = ns[k].useCount
    <3> DEFINE r == ns[k]
               is == inputs(k)
    <3>1. r \in NodeData /\ is \in Seq([target : Nat, kind : EdgeKinds])
      BY <1>1, <1>5
    <3>2. patched[k] = [r EXCEPT !.inputs = is]
      BY <2>1
    <3> HIDE DEF r, is
    <3>3. /\ patched[k] \in NodeData /\ patched[k].inputs = is
          /\ patched[k].users = r.users /\ patched[k].useCount = r.useCount
      BY <3>1, <3>2 DEF NodeData
    <3> QED BY <3>3 DEF r, is
  <2> QED BY <2>2, <2>3
<1> HIDE DEF patched
<1> DEFINE listed == moved \o patched[new].users
           newNode == [patched[new] EXCEPT !.users = listed,
                                           !.useCount = Uint16(patched[new].useCount + Len(moved))]
           oldNode == [patched[old] EXCEPT !.users = <<>>, !.useCount = 0]
<1>7. /\ listed \in Seq(Pairs) /\ ToSet(listed) = M \cup ToSet(ns[new].users)
  <2> DEFINE t == patched[new].users
  <2>1. t \in Seq(Pairs) /\ t = ns[new].users
    BY <1>1, <1>2, <1>6
  <2> HIDE DEF t, Pairs
  <2>2. /\ moved \o t \in Seq(Pairs) /\ Len(moved \o t) = Len(moved) + Len(t)
        /\ DOMAIN (moved \o t) = 1 .. Len(moved) + Len(t)
        /\ DOMAIN moved = 1 .. Len(moved) /\ DOMAIN t = 1 .. Len(t)
        /\ Len(moved) \in Nat /\ Len(t) \in Nat
        /\ \A i \in 1 .. Len(moved) + Len(t) :
             (moved \o t)[i] = IF i <= Len(moved) THEN moved[i] ELSE t[i - Len(moved)]
    BY <1>4, <2>1
  <2> DEFINE s == moved \o t
  <2> HIDE DEF s
  <2>3. \A i \in DOMAIN moved : i \in DOMAIN s /\ s[i] = moved[i]
    BY <2>2 DEF s
  <2>4. ASSUME NEW i \in DOMAIN t
        PROVE  i + Len(moved) \in DOMAIN s /\ s[i + Len(moved)] = t[i]
    <3>1. /\ i + Len(moved) \in 1 .. Len(moved) + Len(t) /\ ~(i + Len(moved) <= Len(moved))
          /\ (i + Len(moved)) - Len(moved) = i
      BY <2>2
    <3> QED BY <2>2, <3>1 DEF s
  <2>5. \A i \in DOMAIN s : \/ i \in DOMAIN moved /\ s[i] = moved[i]
                            \/ i - Len(moved) \in DOMAIN t /\ s[i] = t[i - Len(moved)]
    BY <2>2 DEF s
  <2>6. ToSet(s) = ToSet(moved) \cup ToSet(t)
    BY <2>3, <2>4, <2>5 DEF ToSet
  <2> QED BY <1>4, <2>1, <2>2, <2>6 DEF s, t
<1>8. /\ newNode \in NodeData /\ newNode.inputs = inputs(new)
      /\ newNode.users = listed /\ newNode.useCount = Uint16(ns[new].useCount + Len(moved))
      /\ oldNode \in NodeData /\ oldNode.inputs = inputs(old)
      /\ oldNode.users = <<>> /\ oldNode.useCount = 0
  <2>0. patched[new].useCount + Len(moved) \in Int /\ patched[new] \in NodeData
    BY <1>1, <1>2, <1>4, <1>6
  <2>1. Uint16(patched[new].useCount + Len(moved)) \in Int /\ patched[new] \in NodeData
    BY <2>0, Widths
  <2>2. patched[old] \in NodeData /\ <<>> \in Seq(Pairs) /\ 0 \in Int
    BY <1>1, <1>6
  <2> HIDE DEF listed
  <2>5. listed \in Seq([user : Nat, pos : Nat]) /\ <<>> \in Seq([user : Nat, pos : Nat])
    BY <1>7
  <2>3. /\ newNode \in NodeData /\ newNode.inputs = patched[new].inputs
        /\ newNode.users = listed /\ newNode.useCount = Uint16(patched[new].useCount + Len(moved))
    <3> DEFINE r == patched[new]
               count == Uint16(patched[new].useCount + Len(moved))
    <3>1. r \in NodeData /\ count \in Int
      BY <2>1
    <3> HIDE DEF r, count
    <3>2. IsRelisted([r EXCEPT !.users = listed, !.useCount = count], r, listed, count)
      BY ONLY <2>5, <3>1, NodeRelisted
    <3> QED BY <3>2 DEF r, count, IsRelisted
  <2>4. /\ oldNode \in NodeData /\ oldNode.inputs = patched[old].inputs
        /\ oldNode.users = <<>> /\ oldNode.useCount = 0
    <3> DEFINE r == patched[old]
    <3>1. r \in NodeData
      BY <2>2
    <3> HIDE DEF r
    <3>2. 0 \in Int
      OBVIOUS
    <3>3. IsRelisted([r EXCEPT !.users = <<>>, !.useCount = 0], r, <<>>, 0)
      BY ONLY <2>5, <3>1, <3>2, NodeRelisted
    <3> QED BY <3>3 DEF r, IsRelisted
  <2> HIDE DEF newNode, oldNode
  <2> QED BY <1>1, <1>6, <2>3, <2>4
<1>9. ms = [k \in DOMAIN ns |-> IF k = old THEN oldNode ELSE IF k = new THEN newNode ELSE patched[k]]
  <2>1. /\ emptied = [k \in DOMAIN ns |-> IF k = old THEN [patched[old] EXCEPT !.users = <<>>]
                                          ELSE patched[k]]
    BY <1>1, <1>6
  <2> HIDE DEF emptied
  <2>2. emptied[new] = patched[new] /\ DOMAIN emptied = DOMAIN ns
    BY <1>1, <2>1
  <2>3. spliced = [k \in DOMAIN ns |-> IF k = new THEN newNode ELSE emptied[k]]
    <3>1. spliced = [emptied EXCEPT ![new] = [emptied[new] EXCEPT !.users = moved \o emptied[new].users,
                                                !.useCount = Uint16(emptied[new].useCount + Len(moved))]]
      BY <1>1, <1>6, <2>2 DEF NodeData
    <3> QED BY <1>1, <2>2, <3>1
  <2> HIDE DEF spliced, newNode
  <2>4. spliced[old] = [patched[old] EXCEPT !.users = <<>>] /\ DOMAIN spliced = DOMAIN ns
    BY <1>1, <2>1, <2>3
  <2>5. [spliced[old] EXCEPT !.useCount = 0] = oldNode
    BY <1>1, <1>6, <2>4 DEF NodeData
  <2> HIDE DEF oldNode
  <2>6. ms = [k \in DOMAIN ns |-> IF k = old THEN oldNode ELSE spliced[k]]
    BY <1>1, <2>4, <2>5
  <2> QED BY <2>1, <2>3, <2>6
<1>10. h = [nodes |-> ms, start |-> g.start, stop |-> g.stop]
  <2>1. h = [g EXCEPT !.nodes = ms]
    BY DEF replace_all_uses_with, patched, inputs, moved
  <2> HIDE DEF ms
  <2> QED BY <2>1
<1> HIDE DEF ms, newNode, oldNode, listed
<1>11. IsReplaced(ms, ns, old, new, M, moved)
  <2>1. \A k \in DOMAIN ns : ms[k] = IF k = old THEN oldNode ELSE IF k = new THEN newNode ELSE patched[k]
    BY <1>9
  <2>2. \A k \in DOMAIN ns : ms[k] \in NodeData /\ ms[k].inputs = inputs(k)
    BY <1>6, <1>8, <2>1
  <2>3. ms \in Seq(NodeData) /\ Len(ms) = Len(ns)
    <3>1. ms = [k \in 1 .. Len(ns) |-> ms[k]] /\ DOMAIN ms = 1 .. Len(ns)
      BY <1>1, <1>9
    <3> QED BY <1>1, <2>2, <3>1
  <2>4. ToSet(<<>>) = {}
    BY DEF ToSet
  <2>5. \A k \in DOMAIN ns :
          /\ ToSet(ms[k].users) = IF k = old THEN {}
                                  ELSE IF k = new THEN M \cup ToSet(ns[k].users)
                                  ELSE ToSet(ns[k].users)
          /\ ms[k].useCount = IF k = old THEN 0
                              ELSE IF k = new THEN Uint16(ns[k].useCount + Len(moved))
                              ELSE ns[k].useCount
    BY <1>6, <1>7, <1>8, <2>1, <2>4
  <2> QED BY <1>5, <2>2, <2>3, <2>5 DEF IsReplaced
<1>12. Good(ms, AllEdges(ms))
  <2>1. Good(ns, AllEdges(ns)) /\ old \in DOMAIN ns /\ new \in DOMAIN ns
    BY <1>1
  <2>2. M = Among(AllEdges(ns), ns, old)
    BY DEF M
  <2> HIDE DEF ns
  <2> QED BY <1>4, <1>11, <2>1, <2>2, ReplacedGood
<1>13. h.nodes = ms /\ h = [nodes |-> h.nodes, start |-> h.start, stop |-> h.stop]
  BY <1>10
<1> QED BY <1>12, <1>13

-----------------------------------------------------------------------------

\* A node whose labels change keeps its edges and its uses.
LEMMA LabelsGood ==
  ASSUME NEW g, g = [nodes |-> g.nodes, start |-> g.start, stop |-> g.stop],
         Good(g.nodes, AllEdges(g.nodes)), NEW id \in Ids(g),
         NEW r \in NodeData, r.inputs = g.nodes[id].inputs, r.users = g.nodes[id].users,
         r.useCount = g.nodes[id].useCount,
         NEW h, h = [nodes |-> [g.nodes EXCEPT ![id] = r], start |-> g.start, stop |-> g.stop]
  PROVE  /\ h = [nodes |-> h.nodes, start |-> h.start, stop |-> h.stop]
         /\ Good(h.nodes, AllEdges(h.nodes))
<1> DEFINE ns == g.nodes
           ms == [ns EXCEPT ![id] = r]
<1>1. ns \in Seq(NodeData) /\ Good(ns, AllEdges(ns)) /\ id \in DOMAIN ns /\ DOMAIN ns = 1 .. Len(ns)
  BY DEF Good, Ids, Size
<1>2. r.inputs = ns[id].inputs /\ r.users = ns[id].users /\ r.useCount = ns[id].useCount
  OBVIOUS
<1>3. h.nodes = ms /\ h = [nodes |-> h.nodes, start |-> h.start, stop |-> h.stop]
  OBVIOUS
<1> HIDE DEF ns
<1>4. ms \in Seq(NodeData) /\ Len(ms) = Len(ns) /\ DOMAIN ms = DOMAIN ns
  BY <1>1
<1>5. \A n \in DOMAIN ns : ms[n] = IF n = id THEN r ELSE ns[n]
  BY <1>1
<1> HIDE DEF ms
<1>6. \A n \in DOMAIN ns : /\ ms[n].inputs = ns[n].inputs
                           /\ ms[n].users = ns[n].users
                           /\ ms[n].useCount = ns[n].useCount
  BY <1>2, <1>5
<1>7. Good(ms, AllEdges(ns))
  BY <1>1, <1>4, <1>6, RelabelledGood
<1>8. AllEdges(ms) = AllEdges(ns)
  BY <1>4, <1>6, SameEdges
<1> QED BY <1>3, <1>7, <1>8

MarkSets == SUBSET (NodeFlags \cup {"IsDead"})

SameUses(q, r) ==
  q \in NodeData /\ q.inputs = r.inputs /\ q.users = r.users /\ q.useCount = r.useCount

LEMMA NodeRelabelled ==
  ASSUME NEW r, r \in NodeData, NEW kind, kind \in NodeKinds, NEW flags, flags \in MarkSets,
         NEW type, type \in NodeTypes, NEW payload, payload \in Payloads
  PROVE  SameUses([r EXCEPT !.kind = kind, !.flags = flags, !.type = type,
                            !.payload = payload], r)
<1> DEFINE Pairs == Seq([user : Nat, pos : Nat])
           Inputs == Seq([target : Nat, kind : EdgeKinds])
           Flags == SUBSET (NodeFlags \cup {"IsDead"})
<1>1. NodeData = [kind : NodeKinds, flags : Flags, type : NodeTypes, payload : Payloads,
                  inputs : Inputs, users : Pairs, useCount : Int]
  BY DEF NodeData
<1>2. flags \in Flags
  BY DEF MarkSets
<1> HIDE DEF Pairs, Inputs, Flags
<1> DEFINE q == [r EXCEPT !.kind = kind, !.flags = flags, !.type = type, !.payload = payload]
<1>3. q \in NodeData /\ q.inputs = r.inputs /\ q.users = r.users /\ q.useCount = r.useCount
  BY <1>1, <1>2
<1> QED BY <1>3 DEF SameUses

LEMMA NodeMarked ==
  ASSUME NEW r \in NodeData, NEW q, q = [r EXCEPT !.flags = r.flags \cup {"IsDead"}]
  PROVE  q \in NodeData /\ q.inputs = r.inputs /\ q.users = r.users /\ q.useCount = r.useCount
<1> DEFINE Pairs == Seq([user : Nat, pos : Nat])
           Inputs == Seq([target : Nat, kind : EdgeKinds])
           Flags == SUBSET (NodeFlags \cup {"IsDead"})
           flags == r.flags \cup {"IsDead"}
<1>1. NodeData = [kind : NodeKinds, flags : Flags, type : NodeTypes, payload : Payloads,
                  inputs : Inputs, users : Pairs, useCount : Int]
  BY DEF NodeData
<1> HIDE DEF Pairs, Inputs
<1>2. flags \in Flags
  BY <1>1
<1> HIDE DEF Flags, flags
<1>3. q = [r EXCEPT !.flags = flags]
  BY DEF flags
<1>4. r \in NodeData
  OBVIOUS
<1> QED BY ONLY <1>1, <1>2, <1>3, <1>4

LEMMA RelabelGood ==
  ASSUME GraphGood, Relabel
  PROVE  GraphGood'
<1>1. PICK id \in Ids(graph), l \in Labels :
        graph' = [graph EXCEPT !.nodes[id].kind = l.kind, !.nodes[id].flags = l.flags,
                               !.nodes[id].type = l.type, !.nodes[id].payload = l.payload]
  BY DEF Relabel
<1> DEFINE r == graph.nodes[id]
           q == [r EXCEPT !.kind = l.kind, !.flags = l.flags, !.type = l.type,
                          !.payload = l.payload]
<1>2. graph.nodes \in Seq(NodeData) /\ id \in DOMAIN graph.nodes /\ r \in NodeData
  BY DEF GraphGood, Good, Ids, Size
<1>3. graph' = [nodes |-> [graph.nodes EXCEPT ![id] = q], start |-> graph.start,
                stop |-> graph.stop]
  BY <1>1, <1>2 DEF GraphGood, NodeData
<1>4. /\ l.kind \in NodeKinds /\ l.flags \in SUBSET (NodeFlags \cup {"IsDead"})
      /\ l.type \in NodeTypes /\ l.payload \in Payloads
  BY DEF Labels
<1> HIDE DEF r
<1>5. /\ q \in NodeData /\ q.inputs = r.inputs /\ q.users = r.users
      /\ q.useCount = r.useCount
  <2> DEFINE kind == l.kind
             flags == l.flags
             type == l.type
             payload == l.payload
  <2>1. /\ kind \in NodeKinds /\ flags \in MarkSets
        /\ type \in NodeTypes /\ payload \in Payloads
    BY <1>4 DEF MarkSets
  <2>2. q = [r EXCEPT !.kind = kind, !.flags = flags, !.type = type, !.payload = payload]
    OBVIOUS
  <2> HIDE DEF q, kind, flags, type, payload
  <2>3. SameUses([r EXCEPT !.kind = kind, !.flags = flags, !.type = type,
                           !.payload = payload], r)
    BY ONLY <1>2, <2>1, NodeRelabelled
  <2> QED BY <2>2, <2>3 DEF SameUses
<1> HIDE DEF q
<1>6. /\ graph' = [nodes |-> graph'.nodes, start |-> graph'.start, stop |-> graph'.stop]
      /\ Good(graph'.nodes, AllEdges(graph'.nodes))
  BY <1>3, <1>5, LabelsGood DEF GraphGood, r
<1> QED BY <1>6 DEF GraphGood

LEMMA MarkDeadGood ==
  ASSUME GraphGood, MarkDead
  PROVE  GraphGood'
<1>1. PICK id \in Ids(graph) : graph' = mark_dead(graph, id)
  BY DEF MarkDead
<1> DEFINE r == graph.nodes[id]
           q == [r EXCEPT !.flags = r.flags \cup {"IsDead"}]
<1>2. graph.nodes \in Seq(NodeData) /\ id \in DOMAIN graph.nodes /\ r \in NodeData
  BY DEF GraphGood, Good, Ids, Size
<1>3. graph' = [nodes |-> [graph.nodes EXCEPT ![id] = q], start |-> graph.start,
                stop |-> graph.stop]
  BY <1>1, <1>2 DEF GraphGood, NodeData, mark_dead
<1> HIDE DEF r
<1>4. q \in NodeData /\ q.inputs = r.inputs /\ q.users = r.users /\ q.useCount = r.useCount
  BY <1>2, NodeMarked
<1> HIDE DEF q
<1>5. /\ graph' = [nodes |-> graph'.nodes, start |-> graph'.start, stop |-> graph'.stop]
      /\ Good(graph'.nodes, AllEdges(graph'.nodes))
  BY <1>3, <1>4, LabelsGood DEF GraphGood, r
<1> QED BY <1>5 DEF GraphGood

LEMMA EmptyGood ==
  ASSUME GraphInit
  PROVE  GraphGood
<1>1. graph.nodes = <<>> /\ graph = [nodes |-> graph.nodes, start |-> graph.start, stop |-> graph.stop]
  BY DEF GraphInit, EmptyGraph, Graph
<1>2. DOMAIN graph.nodes = {} /\ graph.nodes \in Seq(NodeData)
  BY <1>1
<1>3. AllEdges(graph.nodes) = {}
  BY <1>2, EdgeOf
<1> QED BY <1>1, <1>2, <1>3 DEF GraphGood, Good, Closed, Counted

\* Every edit of the graph keeps it closed and exact (graph.h:79-295).
LEMMA EditsGood ==
  ASSUME GraphGood, [GraphNext]_graph
  PROVE  GraphGood'
<1>1. /\ graph = [nodes |-> graph.nodes, start |-> graph.start, stop |-> graph.stop]
      /\ Good(graph.nodes, AllEdges(graph.nodes))
  BY DEF GraphGood
<1>2. CASE AddNode
  <2>1. PICK l \in Labels, n \in 0 .. MaxInputs :
          \E inputs \in [1 .. n -> Edges] :
            graph' = add_node(graph, l.kind, l.flags, l.type, l.payload, inputs)
    BY <1>2 DEF AddNode
  <2>2. PICK inputs \in [1 .. n -> Edges] :
          graph' = add_node(graph, l.kind, l.flags, l.type, l.payload, inputs)
    BY <2>1
  <2>3. n \in Nat
    BY GraphEditsAssumption
  <2>4. inputs \in [1 .. n -> [target : 0 .. Size(graph) + 1, kind : EdgeKinds]]
    BY DEF Edges
  <2> QED BY <1>1, <2>2, <2>3, <2>4, AddNodeGood DEF GraphGood
<1>3. CASE ReplaceInput
  <2>1. PICK id \in Ids(graph), new \in 0 .. Size(graph) :
          \E pos \in DOMAIN graph.nodes[id].inputs : graph' = replace_input(graph, id, pos, new)
    BY <1>3 DEF ReplaceInput
  <2>2. PICK pos \in DOMAIN graph.nodes[id].inputs : graph' = replace_input(graph, id, pos, new)
    BY <2>1
  <2> QED BY <1>1, <2>2, ReplaceInputGood DEF GraphGood
<1>4. CASE ReplaceAllUses
  <2>1. PICK old \in Ids(graph), new \in Ids(graph) :
          old # new /\ graph' = replace_all_uses_with(graph, old, new)
    BY <1>4 DEF ReplaceAllUses
  <2> QED BY <1>1, <2>1, ReplaceAllUsesGood DEF GraphGood
<1>5. CASE MarkDead
  BY <1>5, MarkDeadGood
<1>6. CASE Relabel
  BY <1>6, RelabelGood
<1>7. CASE SetEnds
  <2>1. graph'.nodes = graph.nodes
        /\ graph' = [nodes |-> graph'.nodes, start |-> graph'.start, stop |-> graph'.stop]
    BY <1>1, <1>7 DEF SetEnds
  <2> QED BY <1>1, <2>1 DEF GraphGood
<1>8. CASE UNCHANGED graph
  BY <1>8 DEF GraphGood
<1> QED BY <1>2, <1>3, <1>4, <1>5, <1>6, <1>7, <1>8 DEF GraphNext

\* Through any sequence of edits of any graph, use_count is the number of edges
\* that point at a node and each of them is on the list of its producer
\* (graph.h:79-295).
THEOREM UsesExactSafe == GraphSpec => []UsesExact
<1>1. ASSUME GraphGood PROVE UsesExact
  <2>1. \A n : Onto(graph.nodes, n) = Among(AllEdges(graph.nodes), graph.nodes, n)
    BY DEF Onto, Among
  <2>2. Counted(graph.nodes, AllEdges(graph.nodes)) /\ Ids(graph) = DOMAIN graph.nodes
    BY <1>1 DEF GraphGood, Good, Ids, Size
  <2> QED BY <2>1, <2>2 DEF Counted, UsesExact
<1> QED BY <1>1, EmptyGood, EditsGood, PTL DEF GraphSpec

=============================================================================
