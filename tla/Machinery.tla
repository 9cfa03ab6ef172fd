----------------------------- MODULE Machinery -----------------------------
(***************************************************************************)
(* What the runtime keeps beside compiled code: the Capacitor's list of    *)
(* code allocations (src/src/machinery/capacitor.cpp), a call site of the  *)
(* Meter (meter.h) and what the Governor decides from it (governor.cpp).   *)
(* The thresholds of the code are constants, to be made small.             *)
(***************************************************************************)
EXTENDS Integers, Sequences, FiniteSets, FiniteSetsExt

CONSTANTS
  Bases, Sizes,        \* code addresses, code sizes
  HotHits,             \* 100: more hits make code hot
  OldAge, FewHits,     \* 10000 and 10: age_all cools what is older and less used
  MaxUse,              \* bounds hits and ages
  Types,               \* type and shape tags
  Little, Some, Much,  \* 100, 1000 and 10000 samples
  CoolDown,            \* 1000: samples after a deopt before it is forgotten
  MaxSamples           \* bounds samples and deopts

ASSUME MachineryAssumption ==
  /\ Sizes \subseteq Nat
  /\ {HotHits, OldAge, FewHits, MaxUse, CoolDown, MaxSamples} \subseteq Nat

VARIABLES
  allocations,  \* the registered code: base -> [size, age, hits, hot, evictable]
  total,        \* total_allocated_
  replaced,     \* history: a base was registered while it was registered
  site,         \* the ProfileEntry of one bytecode offset
  seen,         \* history: the types sampled there
  quiet         \* history: samples since the last deopt, or since ever

capacitorVars == <<allocations, total, replaced>>
siteVars == <<site, seen, quiet>>

CodeAllocation(size, evictable) ==
  [size |-> size, age |-> 0, hits |-> 0, hot |-> FALSE, evictable |-> evictable]

NoSite ==
  [samples |-> 0, deopts |-> 0, age |-> 0, types |-> 0, shapes |-> 0, mono |-> FALSE,
   type |-> 0, shape |-> 0, ratio |-> <<0, 1>>]

MachineryInit ==
  /\ allocations = [b \in {} |-> CodeAllocation(0, TRUE)]
  /\ total = 0 /\ replaced = FALSE
  /\ site = NoSite /\ seen = {} /\ quiet = 0

-----------------------------------------------------------------------------
\* Capacitor

\* Fault: the counter counts allocations, not bytes.
RegisterOne(b, size, evictable) ==
  /\ allocations' = [c \in DOMAIN allocations \cup {b} |->
                       IF c = b THEN CodeAllocation(size, evictable) ELSE allocations[c]]
  /\ total' = total + 1
  /\ replaced' = (replaced \/ b \in DOMAIN allocations)

register_allocation(b, size, evictable) ==
  /\ allocations' = [c \in DOMAIN allocations \cup {b} |->
                       IF c = b THEN CodeAllocation(size, evictable) ELSE allocations[c]]
  /\ total' = total + size
  /\ replaced' = (replaced \/ b \in DOMAIN allocations)

record_hit(b) ==
  /\ b \in DOMAIN allocations
  /\ allocations[b].hits < MaxUse
  /\ allocations' = [allocations EXCEPT ![b].hits = @ + 1, ![b].age = 0,
                       ![b].hot = @ \/ allocations[b].hits + 1 > HotHits]
  /\ UNCHANGED <<total, replaced>>

\* Hot code has more hits than the ones that are cooled: it stays hot.
age_all ==
  /\ \A b \in DOMAIN allocations : allocations[b].age < MaxUse
  /\ allocations' =
       [b \in DOMAIN allocations |->
          LET a == allocations[b]
          IN [a EXCEPT !.age = @ + 1,
                       !.hot = @ /\ ~(a.age + 1 > OldAge /\ a.hits < FewHits)]]
  /\ UNCHANGED <<total, replaced>>

Cold == {b \in DOMAIN allocations : allocations[b].evictable /\ ~allocations[b].hot}

\* Fault: the code with most hits goes first.
MostUsedFirst(a, b) == a.hits > b.hits \/ (a.hits = b.hits /\ a.age > b.age)

ColderThan(a, b) == a.hits < b.hits \/ (a.hits = b.hits /\ a.age > b.age)

\* What evict_cold sorts, in any order of equals.
Orders ==
  {s \in [1 .. Cardinality(Cold) -> Cold] :
     \A i, j \in DOMAIN s : i < j =>
        s[i] # s[j] /\ ~ColderThan(allocations[s[j]], allocations[s[i]])}

SizeOf(B) == MapThenSumSet(LAMBDA b : allocations[b].size, B)

evict_cold(target) ==
  \E s \in Orders :
    LET first(n) == {s[i] : i \in 1 .. n}
        enough == {n \in 0 .. Len(s) : SizeOf(first(n)) >= target}
        evicted == first(IF enough = {} THEN Len(s) ELSE Min(enough))
    IN /\ allocations' = [b \in DOMAIN allocations \ evicted |-> allocations[b]]
       /\ total' = total - SizeOf(evicted)
       /\ UNCHANGED replaced

-----------------------------------------------------------------------------
\* Meter and Governor

\* Fault: the dominant type and shape follow the newest sample.
Following(e, type, shape) ==
  [e EXCEPT !.samples = @ + 1, !.age = @ + 1, !.types = 1, !.shapes = 1,
            !.mono = TRUE, !.type = type, !.shape = shape, !.ratio = <<1, 1>>]

\* dominant_ratio is computed when another type than the first is sampled,
\* from distinct_types, which counts all samples of other types.
Sampled(e, type, shape) ==
  LET other == type # e.type
      types == IF other THEN e.types + 1 ELSE e.types
  IN IF e.samples = 0
     THEN [e EXCEPT !.samples = 1, !.age = @ + 1, !.types = 1, !.shapes = 1, !.mono = TRUE,
                    !.type = type, !.shape = shape, !.ratio = <<1, 1>>]
     ELSE [e EXCEPT !.samples = @ + 1, !.age = @ + 1, !.types = types,
                    !.shapes = IF shape # e.shape THEN @ + 1 ELSE @,
                    !.mono = @ /\ ~other,
                    !.ratio = IF other THEN <<e.samples + 1 - types + 1, e.samples + 1>> ELSE @]

record_sample(type, shape) ==
  /\ site.samples < MaxSamples
  /\ site' = Sampled(site, type, shape)
  /\ seen' = seen \cup {type}
  /\ quiet' = quiet + 1

record_deopt ==
  /\ site.deopts < MaxSamples
  /\ site' = [site EXCEPT !.deopts = @ + 1, !.age = 0]
  /\ UNCHANGED seen
  /\ quiet' = 0

\* confidence: None, Low, Medium, High and VeryHigh are 0 to 4.
Confidence(e) ==
  IF e.samples < Little THEN 0
  ELSE IF \/ e.deopts > 0 /\ e.age < CoolDown
          \/ e.types > 3 \/ e.shapes > 3 THEN 1
  ELSE IF e.samples < Some \/ 10 * e.ratio[1] < 9 * e.ratio[2] THEN 2
  ELSE IF e.deopts > 0 \/ e.samples < Much THEN 3
  ELSE 4

\* A SpeculationContext beside the profile: storm, whether the guard is over
\* the code budget, whether a clone pays and is affordable.
Contexts == [storm : BOOLEAN, overBudget : BOOLEAN, clone : BOOLEAN]

decide(e, ctx) ==
  LET c == Confidence(e)
  IN CASE ctx.storm -> "Recompile"
       [] ~ctx.storm /\ ((e.deopts > 5 /\ c <= 1) \/ c = 0) -> "DoNotSpeculate"
       [] OTHER ->
            IF e.types > 4 THEN "Megamorphic"
            ELSE IF e.types >= 2 THEN (IF c >= 2 THEN "Polymorphic" ELSE "DoNotSpeculate")
            ELSE IF e.mono /\ c >= 3
                 THEN (IF ctx.overBudget THEN "UncommonTrap"
                       ELSE IF c = 4 /\ ctx.clone THEN "Clone" ELSE "InsertGuard")
            ELSE IF e.mono /\ c >= 2 THEN "UncommonTrap" ELSE "DoNotSpeculate"

-----------------------------------------------------------------------------

CapacitorNext ==
  \/ \E b \in Bases, size \in Sizes, evictable \in BOOLEAN :
       register_allocation(b, size, evictable)
  \/ \E b \in Bases : record_hit(b)
  \/ age_all
  \/ \E target \in Sizes : evict_cold(target)

SiteNext == record_deopt \/ \E type, shape \in Types : record_sample(type, shape)

CapacitorSpec == MachineryInit /\ [][CapacitorNext]_capacitorVars
SiteSpec == MachineryInit /\ [][SiteNext]_siteVars

\* The counter of allocated bytes is the sum over the list, as long as no base
\* was registered twice: that overwrites the entry and adds its size again
\* (capacitor.cpp:10-21, 43-71).
TotalAddsUp == replaced \/ total = SizeOf(DOMAIN allocations)

\* An eviction spares what is hot or pinned, takes nothing that was used more
\* than something it leaves, and stops as soon as the target is met: without
\* the most used of its victims it would not have been (capacitor.cpp:43-71).
ColdestGo ==
  LET gone == DOMAIN allocations \ DOMAIN allocations'
      left == Cold \ gone
  IN gone # {} =>
       /\ gone \subseteq Cold
       /\ \A g \in gone, b \in left : allocations[g].hits <= allocations[b].hits
       /\ \E g \in gone, target \in Sizes :
            /\ ~ (SizeOf(gone \ {g}) >= target)
            /\ left # {} => SizeOf(gone) >= target

EvictsColdest == [][ColdestGo]_capacitorVars

\* The Governor lets the compiler rely on one type only where no other was
\* ever sampled, and asks for a guard or a clone only when the site has not
\* deoptimised for a while (meter.h:47-58 with governor.cpp:8-62).
GuardMeansOneType ==
  \A ctx \in Contexts :
    LET d == decide(site, ctx)
    IN /\ d \in {"InsertGuard", "Clone", "UncommonTrap"} => Cardinality(seen) = 1
       /\ d \in {"InsertGuard", "Clone"} => site.deopts = 0 \/ quiet >= CoolDown

=============================================================================
