------------------------------ MODULE Pipeline ------------------------------
(***************************************************************************)
(* A chunk on its way through the compilers: lower_chunk_to_tier1,         *)
(* linear_scan and compile (src/src/tier1/tier1.cpp), then compile_at_tier2 *)
(* (src/src/tier2/tier2.cpp): the graph, the rounds of passes, the way     *)
(* back to a Tier1Function and its code.  Both codes run.  The profilers   *)
(* (src/src/overhead_profiler.cpp, gigavolt_diag.cpp) drive the same steps *)
(* for functions compile_at_tier2 hands back to Jolt; graphs the tests and *)
(* build_demo_graph build go through the passes alone.                     *)
(***************************************************************************)
EXTENDS JoltChunk, Surge, Passes, GraphEdits

CONSTANTS
  Programs,   \* the chunks
  Graphs,     \* the hand-made graphs
  MaxRounds   \* max_iter of run_tier2_pipeline

VARIABLES
  tier,        \* whose job it is: "Jolt", "Surge", "Profiler" or "Graph"; a graph has the chunk <<>>
  pass, round, \* where run_to_fixpoint is
  changed      \* r.changed of the round

\* The stages beside those of JoltChunk: "passes", "optimized", "died".
jobVars == <<tier, chunkVars>>
\* graph of GraphEdits is job.graph.
passVars == <<graph, pass, round, changed>>
vars == <<stage, jobVars, codeVars, runVars, passVars, answer, deviations>>

Begin ==
  /\ Idle
  /\ pass = 1 /\ round = 1 /\ changed = FALSE

Init ==
  /\ Begin
  /\ \/ /\ stage = "lower" /\ tier = "Jolt"
        /\ chunk \in Programs /\ spark = SparkRun(chunk) /\ graph = EmptyGraph
     \/ /\ stage = "passes" /\ tier = "Graph"
        /\ chunk = <<>> /\ spark = Nothing /\ graph \in Graphs

-----------------------------------------------------------------------------

\* Tier 1: the job goes on as in JoltChunk.
Baseline ==
  /\ Lower \/ Compile \/ Answer(tier)
  /\ UNCHANGED <<tier, passVars>>

-----------------------------------------------------------------------------
\* compile_at_tier2

Branchy == \E k \in DOMAIN fn.insts : fn.insts[k].op \in Transfers

\* The function is compiled by Jolt again.
Jolted ==
  /\ answer' = [answer EXCEPT !.Surge = answer.Jolt]
  /\ tier' = "Surge"
  /\ stage' = "done"
  /\ UNCHANGED <<chunkVars, codeVars, runVars, passVars, deviations>>

FallBack == stage = "answered" /\ Branchy /\ Jolted

\* Tier1ToSoN, for compile_at_tier2 or for a profiler.
BuildGraph ==
  /\ stage = "answered"
  /\ graph' = Tier1ToSoN(fn)
  /\ tier' = IF Branchy THEN "Profiler" ELSE "Surge"
  /\ stage' = "passes"
  /\ UNCHANGED <<chunkVars, codeVars, runVars, pass, round, changed, answer, deviations>>

\* What a pass does that changes what a program computes: GVN merges a - b
\* with b - a, StrengthReduce shifts for a division.
Merged(g) == {id \in Ids(g) : Dead(GVN(g).g, id)}
Honest(g) ==
  [g EXCEPT !.nodes = [k \in Ids(g) |->
     [g.nodes[k] EXCEPT !.flags = (@ \ {"Commutative"}) \cup TrulyCommutative(g.nodes[k].kind)]]]
Commutes(name, g) == name = "GVN" /\ Merged(g) # Merged(Honest(g))
ShiftsDivision(name, g) ==
  name = "StrengthReduce" /\ \E id \in Ids(g) : ~Dead(g, id) /\ g.nodes[id].kind = "Div"

\* One pass.  After the last of a round the next round begins, unless the
\* round changed nothing or was the last.
Proceed(any) ==
  IF pass < Len(PassOrder)
  THEN pass' = pass + 1 /\ changed' = any /\ UNCHANGED <<round, stage>>
  ELSE IF any /\ round < MaxRounds
  THEN pass' = 1 /\ changed' = FALSE /\ round' = round + 1 /\ UNCHANGED stage
  ELSE stage' = "optimized" /\ changed' = any /\ UNCHANGED <<pass, round>>

RunPass ==
  /\ stage = "passes"
  /\ \E outcomes \in {[b \in BOOLEAN |-> PassOutcome(PassOrder[pass], graph, b)]} :
     \E garbled \in BOOLEAN :
       /\ garbled => outcomes[TRUE] # outcomes[FALSE]
       /\ graph' = outcomes[garbled].g
       /\ Proceed(changed \/ outcomes[garbled].changed)
       /\ deviations' = deviations \cup
            (IF Commutes(PassOrder[pass], graph) THEN {"commuted"} ELSE {}) \cup
            (IF ShiftsDivision(PassOrder[pass], graph) THEN {"shifted"} ELSE {}) \cup
            (IF garbled THEN {"garbled"} ELSE {})
  /\ UNCHANGED <<jobVars, codeVars, runVars, answer>>

\* A read past the end of a vector, if it does not yield zero: the process dies.
Die ==
  /\ stage = "passes"
  /\ ReadsPastEnd(PassOrder[pass], graph)
  /\ stage' = "died"
  /\ UNCHANGED <<jobVars, codeVars, runVars, passVars, answer, deviations>>

\* fuse.check: time or the size of the graph.
Blown == stage = "optimized" /\ tier = "Surge" /\ Jolted

\* SoNToTier1; a profiler only looks at the function.
LowerBack ==
  /\ stage = "optimized"
  /\ tier # "Graph"
  /\ \E e \in {SoNToTier1(graph)} :
       /\ fn' = Tier1Function(e.insts, e.vregs)
       /\ deviations' = deviations \cup (IF e.assumed THEN {"assumed"} ELSE {})
  /\ \E s \in {Intervals(fn')} : Scan(s)
  /\ stage' = IF tier = "Surge" THEN "scan" ELSE "done"
  /\ UNCHANGED <<jobVars, runVars, passVars, answer>>

Next ==
  \/ Baseline
  \/ FallBack \/ BuildGraph \/ RunPass \/ Die \/ Blown \/ LowerBack

Spec == Init /\ [][Next]_vars

-----------------------------------------------------------------------------

\* "The caller gets correct code" (tier2.cpp:1151): a function that went
\* through the graph, every round of passes and back returns what Jolt's code
\* returns, where no deviation was met: no a - b was merged with b - a, no
\* division shifted, no freed node read, no operand assumed 0 because it was
\* emitted too late, no register clobbered by Pow, no result left in rax.
SurgeAgreesWithJolt ==
  stage = "done" /\ tier = "Surge" /\ deviations = {} => answer.Surge = answer.Jolt

\* Every way into a join is open: BranchFold closed no side of an If, and no
\* Return stands behind a Return.
AllWaysOpen(g) ==
  \A n \in Ids(g) :
    /\ g.nodes[n].kind \in {"IfTrue", "IfFalse"} => ~Dead(g, n)
    /\ g.nodes[n].kind = "Region" => NoNode \notin ToSet(InputsOfKind(g, n, "Control"))

\* No pass kills a node that the value or the effects of Stop still need
\* (every kill of pass.cpp against the reach of 1060-1135), while every way into
\* a join is open: a Phi keeps its input from a closed one, which ReachPrune kills.
NeededAlive ==
  /\ stage \in {"passes", "optimized"}
  /\ graph.stop # NoNode /\ ~Dead(graph, graph.stop)
  /\ AllWaysOpen(graph)
  => \A n \in Needed(graph) : ~Dead(graph, n)

\* When LICM asks for dominators it gets the true ones: what compute_dominance
\* calls a dominator is on every path from Start, and nothing else is
\* (dominance.cpp:90-190).
DominatorsExact ==
  stage = "passes" /\ PassOrder[pass] = "LICM" /\ graph.start # NoNode =>
    LET idom == compute_dominance(graph)
    IN \A n \in Reachable(graph, {}), d \in Reachable(graph, {}) :
         Dominates(idom, d, n) <=> TrueDominator(graph, d, n)

\* The rounds come to rest before the budget of run_to_fixpoint ends them,
\* but for EscapeAnalysis, which reports the same allocation in every round
\* (pass.h:125-133).
PassesSettle ==
  stage = "optimized" /\ changed =>
    \E n \in Ids(graph) : ~Dead(graph, n) /\ graph.nodes[n].kind = "Allocate"

=============================================================================
