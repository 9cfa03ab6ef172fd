-------------------------- MODULE MachineryProofs ---------------------------
(***************************************************************************)
(* Theorems of Machinery, for any thresholds, addresses, sizes and types:  *)
(* the Governor trusts one type only where one was seen, an eviction takes *)
(* the coldest code and no more than it must, and the counter of bytes is  *)
(* the sum over the list.                                                  *)
(***************************************************************************)
EXTENDS Machinery, FiniteSetTheorems, TLAPS

Ratios == Int \X Int
Profile ==
  [samples : Nat, deopts : Nat, age : Nat, types : Nat, shapes : Nat, mono : BOOLEAN,
   type : Types \cup {0}, shape : Types \cup {0}, ratio : Ratios]

\* The inductive invariant of a call site: is_monomorphic means that only the
\* dominant type was sampled, last_deopt_age counts the samples since a deopt.
SiteInv ==
  /\ site \in Profile
  /\ site.samples = 0 => seen = {} /\ ~site.mono
  /\ site.mono => seen = {site.type}
  /\ site.age = quiet

-----------------------------------------------------------------------------

\* A sample keeps the profile well typed.
LEMMA SampledType ==
  ASSUME NEW e \in Profile, NEW type \in Types, NEW shape \in Types
  PROVE  /\ Sampled(e, type, shape) \in Profile
         /\ Sampled(e, type, shape).samples = e.samples + 1
         /\ Sampled(e, type, shape).age = e.age + 1
         /\ e.samples = 0 => Sampled(e, type, shape).type = type
         /\ e.samples # 0 => /\ Sampled(e, type, shape).type = e.type
                             /\ Sampled(e, type, shape).mono <=> e.mono /\ type = e.type
<1> DEFINE other == type # e.type
           types == IF other THEN e.types + 1 ELSE e.types
           ratio == IF other THEN <<e.samples + 1 - types + 1, e.samples + 1>> ELSE e.ratio
<1>1. types \in Nat /\ ratio \in Ratios /\ e.samples + 1 \in Nat /\ e.age + 1 \in Nat
      /\ (IF shape # e.shape THEN e.shapes + 1 ELSE e.shapes) \in Nat
  BY DEF Profile, Ratios
<1>2. CASE e.samples = 0
  <2> DEFINE one == <<1, 1>>
             yes == e.samples = 0
  <2>1. Sampled(e, type, shape) =
          [e EXCEPT !.samples = 1, !.age = e.age + 1, !.types = 1, !.shapes = 1, !.mono = yes,
                    !.type = type, !.shape = shape, !.ratio = one]
    BY <1>2 DEF Sampled, Profile
  <2>2. one \in Ratios /\ yes \in BOOLEAN /\ 1 \in Nat
    BY DEF Ratios
  <2> HIDE DEF one, yes
  <2>3. Sampled(e, type, shape) \in Profile
    BY <1>1, <2>1, <2>2 DEF Profile
  <2>4. /\ Sampled(e, type, shape).samples = e.samples + 1
        /\ Sampled(e, type, shape).age = e.age + 1
        /\ Sampled(e, type, shape).type = type
    BY <1>2, <2>1 DEF Profile
  <2> QED BY <1>2, <2>3, <2>4
<1>3. CASE e.samples # 0
  <2>1. Sampled(e, type, shape) =
          [e EXCEPT !.samples = e.samples + 1, !.age = e.age + 1, !.types = types,
                    !.shapes = IF shape # e.shape THEN e.shapes + 1 ELSE e.shapes,
                    !.mono = e.mono /\ ~other, !.ratio = ratio]
    BY <1>3 DEF Sampled, Profile
  <2> HIDE DEF types, ratio
  <2> QED BY <1>1, <1>3, <2>1 DEF Profile
<1> QED BY <1>2, <1>3

LEMMA SiteInvInit ==
  ASSUME MachineryInit
  PROVE  SiteInv
BY DEF MachineryInit, SiteInv, NoSite, Profile, Ratios

LEMMA SiteInvStep ==
  ASSUME SiteInv, [SiteNext]_siteVars
  PROVE  SiteInv'
<1>1. CASE record_deopt
  <2>1. /\ site' = [site EXCEPT !.deopts = site.deopts + 1, !.age = 0]
        /\ seen' = seen /\ quiet' = 0
    BY <1>1 DEF record_deopt
  <2>2. site \in Profile
    BY DEF SiteInv
  <2>3. site.deopts + 1 \in Nat
    BY <2>2 DEF Profile
  <2>4. site' \in Profile
    BY <2>1, <2>2, <2>3 DEF Profile
  <2>5. /\ site'.samples = site.samples /\ (site'.mono <=> site.mono)
        /\ site'.type = site.type /\ site'.age = 0
    BY <2>1, <2>2 DEF Profile
  <2> QED BY <2>1, <2>4, <2>5 DEF SiteInv
<1>2. ASSUME NEW type \in Types, NEW shape \in Types, record_sample(type, shape)
      PROVE  SiteInv'
  <2>1. /\ site' = Sampled(site, type, shape)
        /\ seen' = seen \cup {type} /\ quiet' = quiet + 1
    BY <1>2 DEF record_sample
  <2>2. site \in Profile /\ site.samples \in Nat
    BY DEF SiteInv, Profile
  <2>3. site' \in Profile /\ site'.samples # 0 /\ site'.age = quiet'
    BY <2>1, <2>2, SampledType DEF SiteInv
  <2>4. site'.mono => seen' = {site'.type}
    <3>1. CASE site.samples = 0
      BY <2>1, <2>2, <3>1, SampledType DEF SiteInv
    <3>2. CASE site.samples # 0
      BY <2>1, <2>2, <3>2, SampledType DEF SiteInv
    <3> QED BY <3>1, <3>2
  <2> QED BY <2>3, <2>4 DEF SiteInv
<1>3. CASE UNCHANGED siteVars
  BY <1>3 DEF siteVars, SiteInv
<1> QED BY <1>1, <1>2, <1>3 DEF SiteNext

\* What the Governor asks for says how the profile looks.
LEMMA DecideNeeds ==
  ASSUME NEW e, NEW ctx
  PROVE  /\ decide(e, ctx) \in {"InsertGuard", "Clone", "UncommonTrap"} => e.mono
         /\ decide(e, ctx) \in {"InsertGuard", "Clone"} => Confidence(e) >= 3
BY DEF decide

LEMMA ConfidentNeeds ==
  ASSUME NEW e, Confidence(e) >= 3
  PROVE  ~ (e.deopts > 0 /\ e.age < CoolDown)
BY DEF Confidence

LEMMA SiteInvGuards ==
  ASSUME SiteInv
  PROVE  GuardMeansOneType
<1> SUFFICES ASSUME NEW ctx \in Contexts
             PROVE  LET d == decide(site, ctx)
                    IN /\ d \in {"InsertGuard", "Clone", "UncommonTrap"} => Cardinality(seen) = 1
                       /\ d \in {"InsertGuard", "Clone"} => site.deopts = 0 \/ quiet >= CoolDown
  BY DEF GuardMeansOneType
<1>1. site.mono => Cardinality(seen) = 1
  BY FS_Singleton DEF SiteInv
<1>2. site.deopts \in Nat /\ site.age \in Nat /\ site.age = quiet /\ CoolDown \in Nat
  BY MachineryAssumption DEF SiteInv, Profile
<1>3. Confidence(site) >= 3 => site.deopts = 0 \/ quiet >= CoolDown
  BY <1>2, ConfidentNeeds
<1> QED BY <1>1, <1>3, DecideNeeds

\* For any thresholds and any sequence of samples and deopts, the Governor
\* asks for a guard, a clone or a trap only at a site where one type was seen,
\* and for the first two only when the last deopt is CoolDown samples past.
THEOREM GuardMeansOneTypeSafe == SiteSpec => []GuardMeansOneType
<1>1. MachineryInit => SiteInv
  BY SiteInvInit
<1>2. SiteInv /\ [SiteNext]_siteVars => SiteInv'
  BY SiteInvStep
<1>3. SiteInv => GuardMeansOneType
  BY SiteInvGuards
<1> QED BY <1>1, <1>2, <1>3, PTL DEF SiteSpec

-----------------------------------------------------------------------------
\* The Capacitor

Allocation == [size : Nat, age : Nat, hits : Nat, hot : BOOLEAN, evictable : BOOLEAN]

CapacitorInv ==
  /\ allocations \in [DOMAIN allocations -> Allocation]
  /\ IsFiniteSet(DOMAIN allocations)

\* A nonempty set of natural numbers has a smallest element.
LEMMA Smallest ==
  ASSUME NEW T, T \subseteq Nat, T # {}
  PROVE  /\ Min(T) \in T
         /\ \A k \in T : Min(T) <= k
<1>1. \E m \in T : \A k \in T : ~ (<<k, m>> \in OpToRel(<, Nat))
  BY NatLessThanWellFounded, WFMin
<1>2. \A k, m \in Nat : k < m => <<k, m>> \in OpToRel(<, Nat)
  BY DEF OpToRel
<1>3. PICK m \in T : \A k \in T : ~ (<<k, m>> \in OpToRel(<, Nat))
  BY <1>1
<1>4. \A k \in T : ~ (k < m)
  BY <1>2, <1>3
<1>5. \A k \in T : m <= k
  BY <1>4
<1> QED BY <1>5 DEF Min

\* An allocation that is used, aged or cooled is an allocation.
LEMMA Touched ==
  ASSUME NEW a \in Allocation, NEW age \in Nat, NEW hits \in Nat, NEW hot \in BOOLEAN
  PROVE  [a EXCEPT !.age = age, !.hits = hits, !.hot = hot] \in Allocation
BY DEF Allocation

LEMMA CapacitorInvInit ==
  ASSUME MachineryInit
  PROVE  CapacitorInv
BY FS_EmptySet DEF MachineryInit, CapacitorInv

LEMMA CapacitorInvStep ==
  ASSUME CapacitorInv, [CapacitorNext]_capacitorVars
  PROVE  CapacitorInv'
<1> DEFINE D == DOMAIN allocations
<1>1. ASSUME NEW b \in Bases, NEW size \in Sizes, NEW evictable \in BOOLEAN,
             register_allocation(b, size, evictable)
      PROVE  CapacitorInv'
  <2>1. CodeAllocation(size, evictable) \in Allocation
    BY MachineryAssumption DEF CodeAllocation, Allocation
  <2>2. allocations' = [c \in D \cup {b} |->
                          IF c = b THEN CodeAllocation(size, evictable) ELSE allocations[c]]
    BY <1>1 DEF register_allocation
  <2>3. IsFiniteSet(D \cup {b})
    BY FS_AddElement DEF CapacitorInv
  <2>4. \A c \in D : allocations[c] \in Allocation
    BY DEF CapacitorInv
  <2> QED BY <2>1, <2>2, <2>3, <2>4 DEF CapacitorInv
<1>2. ASSUME NEW b \in Bases, record_hit(b)
      PROVE  CapacitorInv'
  <2> DEFINE hot == allocations[b].hot \/ allocations[b].hits + 1 > HotHits
             hits == allocations[b].hits + 1
             hit == [allocations[b] EXCEPT !.age = 0, !.hits = hits, !.hot = hot]
  <2>1. allocations[b] \in Allocation /\ hits \in Nat /\ hot \in BOOLEAN
    BY <1>2 DEF record_hit, CapacitorInv, Allocation
  <2>2. hit \in Allocation
    <3> HIDE DEF hits, hot
    <3> QED BY <2>1, Touched
  <2>3. allocations' = [allocations EXCEPT ![b] = hit]
    BY <1>2 DEF record_hit, CapacitorInv, Allocation
  <2> HIDE DEF hit
  <2> QED BY <2>2, <2>3 DEF CapacitorInv
<1>3. CASE age_all
  <2> DEFINE cooled(a) == a.hot /\ ~(a.age + 1 > OldAge /\ a.hits < FewHits)
             older(a) == [a EXCEPT !.age = a.age + 1, !.hot = cooled(a)]
  <2>1. allocations' = [b \in D |-> older(allocations[b])]
    BY <1>3 DEF age_all
  <2>2. ASSUME NEW a \in Allocation
        PROVE  older(a) \in Allocation
    <3> DEFINE hot == cooled(a)
               age == a.age + 1
    <3>1. age \in Nat /\ a.hits \in Nat /\ hot \in BOOLEAN
      BY DEF Allocation
    <3>2. older(a) = [a EXCEPT !.age = age, !.hits = a.hits, !.hot = hot]
      BY DEF Allocation
    <3> HIDE DEF age, hot
    <3>3. [a EXCEPT !.age = age, !.hits = a.hits, !.hot = hot] \in Allocation
      BY <3>1, Touched
    <3> QED BY <3>2, <3>3
  <2> HIDE DEF older
  <2> QED BY <2>1, <2>2 DEF CapacitorInv
<1>4. ASSUME NEW target \in Sizes, evict_cold(target)
      PROVE  CapacitorInv'
  <2>1. PICK E : allocations' = [b \in D \ E |-> allocations[b]]
    BY <1>4 DEF evict_cold
  <2>2. IsFiniteSet(D \ E) /\ \A c \in D : allocations[c] \in Allocation
    BY FS_Subset DEF CapacitorInv
  <2> QED BY <2>1, <2>2 DEF CapacitorInv
<1>5. CASE UNCHANGED capacitorVars
  BY <1>5 DEF capacitorVars, CapacitorInv
<1> QED BY <1>1, <1>2, <1>3, <1>4, <1>5 DEF CapacitorNext

\* What is sorted is all that is cold, the least used first.
LEMMA OrdersSort ==
  ASSUME CapacitorInv, NEW s \in Orders
  PROVE  /\ Len(s) = Cardinality(Cold) /\ Len(s) \in Nat
         /\ DOMAIN s = 1 .. Len(s)
         /\ \A i \in 1 .. Len(s) : s[i] \in Cold
         /\ \A b \in Cold : \E i \in 1 .. Len(s) : s[i] = b
         /\ \A i, j \in 1 .. Len(s) : s[i] = s[j] => i = j
         /\ \A i, j \in 1 .. Len(s) : i < j => allocations[s[i]].hits <= allocations[s[j]].hits
<1> DEFINE n == Cardinality(Cold)
<1>1. IsFiniteSet(Cold) /\ n \in Nat
  BY FS_Subset, FS_CardinalityType DEF Cold, CapacitorInv
<1>2. s \in [1 .. n -> Cold]
  BY DEF Orders
<1>3. \A i, j \in 1 .. n : i < j =>
        s[i] # s[j] /\ ~ColderThan(allocations[s[j]], allocations[s[i]])
  BY <1>2 DEF Orders
<1>4. s \in Seq(Cold) /\ Len(s) = n
  BY <1>1, <1>2
<1>5. \A i, j \in 1 .. n : s[i] = s[j] => i = j
  BY <1>1, <1>3
<1>6. \A b \in Cold : \E i \in 1 .. n : s[i] = b
  <2>1. s \in Injection(1 .. n, Cold)
    BY <1>2, <1>5 DEF Injection, IsInjective
  <2>2. Cardinality(1 .. n) = n
    BY <1>1, FS_Interval
  <2>3. s \in Surjection(1 .. n, Cold)
    BY <1>1, <2>1, <2>2, FS_Injection
  <2> QED BY <2>3 DEF Surjection
<1>7. \A b \in Cold : allocations[b].hits \in Nat
  BY DEF CapacitorInv, Cold, Allocation
<1>8. \A i, j \in 1 .. n : i < j => allocations[s[i]].hits <= allocations[s[j]].hits
  <2> SUFFICES ASSUME NEW i \in 1 .. n, NEW j \in 1 .. n, i < j
               PROVE  allocations[s[i]].hits <= allocations[s[j]].hits
    OBVIOUS
  <2>1. ~ (allocations[s[j]].hits < allocations[s[i]].hits)
    BY <1>3 DEF ColderThan
  <2> QED BY <1>2, <1>7, <2>1
<1> QED BY <1>1, <1>2, <1>4, <1>5, <1>6, <1>8

\* What evict_cold takes is a prefix of what it sorted, cut where the target
\* is met.
LEMMA EvictedIsPrefix ==
  ASSUME CapacitorInv, NEW target \in Sizes, evict_cold(target),
         DOMAIN allocations \ DOMAIN allocations' # {}
  PROVE  \E s \in Orders, n \in Nat :
           /\ 1 <= n /\ n <= Len(s)
           /\ DOMAIN allocations \ DOMAIN allocations' = {s[i] : i \in 1 .. n}
           /\ ~ (SizeOf({s[i] : i \in 1 .. n - 1}) >= target)
           /\ n = Len(s) \/ SizeOf({s[i] : i \in 1 .. n}) >= target
<1>1. PICK s \in Orders :
        LET first(n) == {s[i] : i \in 1 .. n}
            enough == {n \in 0 .. Len(s) : SizeOf(first(n)) >= target}
            evicted == first(IF enough = {} THEN Len(s) ELSE Min(enough))
        IN allocations' = [b \in DOMAIN allocations \ evicted |-> allocations[b]]
  BY DEF evict_cold
<1> DEFINE first(n) == {s[i] : i \in 1 .. n}
           enough == {n \in 0 .. Len(s) : SizeOf(first(n)) >= target}
           stop == IF enough = {} THEN Len(s) ELSE Min(enough)
<1>2. Len(s) \in Nat /\ \A i \in 1 .. Len(s) : s[i] \in Cold
  BY OrdersSort
<1>3. /\ stop \in 0 .. Len(s)
      /\ \A n \in 0 .. Len(s) : n < stop => n \notin enough
      /\ stop = Len(s) \/ stop \in enough
  <2>1. enough \subseteq Nat /\ enough \subseteq 0 .. Len(s)
    BY <1>2
  <2> HIDE DEF enough
  <2>2. CASE enough = {}
    BY <1>2, <2>2
  <2>3. CASE enough # {}
    <3>1. Min(enough) \in enough /\ \A k \in enough : Min(enough) <= k
      BY <2>1, <2>3, Smallest
    <3>2. stop = Min(enough)
      BY <2>3
    <3> HIDE DEF stop
    <3>3. stop \in enough /\ \A k \in enough : stop <= k
      BY <3>1, <3>2
    <3>4. stop \in 0 .. Len(s)
      BY <2>1, <3>3
    <3>5. ASSUME NEW n \in 0 .. Len(s), n < stop, n \in enough
          PROVE  FALSE
      BY <1>2, <3>3, <3>4, <3>5
    <3> QED BY <3>3, <3>4, <3>5
  <2> QED BY <2>2, <2>3
<1>4. DOMAIN allocations \ DOMAIN allocations' = first(stop)
  <2>1. allocations' = [b \in DOMAIN allocations \ first(stop) |-> allocations[b]]
    BY <1>1
  <2>2. first(stop) \subseteq DOMAIN allocations
    <3> HIDE DEF stop
    <3> QED BY <1>2, <1>3 DEF Cold
  <2> QED BY <2>1, <2>2
<1>5. 1 <= stop
  <2> HIDE DEF stop
  <2>1. first(0) = {}
    OBVIOUS
  <2>2. stop # 0
    BY <1>4, <2>1
  <2> QED BY <1>2, <1>3, <2>2
<1>6. /\ ~ (SizeOf(first(stop - 1)) >= target)
      /\ stop = Len(s) \/ SizeOf(first(stop)) >= target
  <2> HIDE DEF stop
  <2>1. stop - 1 \in 0 .. Len(s) /\ stop - 1 < stop
    BY <1>2, <1>3, <1>5
  <2> QED BY <1>3, <2>1
<1> HIDE DEF stop
<1>7. stop \in Nat /\ stop <= Len(s)
  BY <1>2, <1>3
<1> QED BY <1>4, <1>5, <1>6, <1>7

\* An eviction takes the coldest code and no more than it must.
LEMMA EvictionStep ==
  ASSUME CapacitorInv, NEW target \in Sizes, evict_cold(target),
         DOMAIN allocations \ DOMAIN allocations' # {}
  PROVE  ColdestGo
<1> DEFINE gone == DOMAIN allocations \ DOMAIN allocations'
           left == Cold \ gone
<1>1. PICK s \in Orders, n \in Nat :
        /\ 1 <= n /\ n <= Len(s)
        /\ gone = {s[i] : i \in 1 .. n}
        /\ ~ (SizeOf({s[i] : i \in 1 .. n - 1}) >= target)
        /\ n = Len(s) \/ SizeOf({s[i] : i \in 1 .. n}) >= target
  BY EvictedIsPrefix
<1> HIDE DEF gone
<1>2. /\ Len(s) \in Nat
      /\ \A i \in 1 .. Len(s) : s[i] \in Cold
      /\ \A b \in Cold : \E i \in 1 .. Len(s) : s[i] = b
      /\ \A i, j \in 1 .. Len(s) : s[i] = s[j] => i = j
      /\ \A i, j \in 1 .. Len(s) : i < j => allocations[s[i]].hits <= allocations[s[j]].hits
  BY OrdersSort
<1>3. gone \subseteq Cold
  BY <1>1, <1>2
<1>4. \A b \in left : \E j \in 1 .. Len(s) : n < j /\ s[j] = b
  BY <1>1, <1>2
<1>5. \A g \in gone, b \in left : allocations[g].hits <= allocations[b].hits
  <2> SUFFICES ASSUME NEW g \in gone, NEW b \in left
               PROVE  allocations[g].hits <= allocations[b].hits
    OBVIOUS
  <2>1. PICK i \in 1 .. n : s[i] = g
    BY <1>1
  <2>2. PICK j \in 1 .. Len(s) : n < j /\ s[j] = b
    BY <1>4
  <2>3. i \in 1 .. Len(s) /\ i < j
    BY <1>1, <1>2, <2>2
  <2> QED BY <1>2, <2>1, <2>2, <2>3
<1>6. s[n] \in gone /\ gone \ {s[n]} = {s[i] : i \in 1 .. n - 1}
  <2>1. s[n] \in gone
    BY <1>1
  <2>2. \A i \in 1 .. n - 1 : s[i] \in gone /\ s[i] # s[n]
    BY <1>1, <1>2
  <2>3. \A i \in 1 .. n : i = n \/ i \in 1 .. n - 1
    OBVIOUS
  <2> QED BY <1>1, <2>1, <2>2, <2>3
<1>7. left # {} => SizeOf(gone) >= target
  <2>1. left # {} => n # Len(s)
    BY <1>4
  <2> QED BY <1>1, <2>1
<1>8. ~ (SizeOf(gone \ {s[n]}) >= target)
  BY <1>1, <1>6
<1> QED BY <1>3, <1>5, <1>6, <1>7, <1>8 DEF ColdestGo, gone

LEMMA OthersKeep ==
  ASSUME [CapacitorNext]_capacitorVars, \A target \in Sizes : ~ evict_cold(target)
  PROVE  DOMAIN allocations \ DOMAIN allocations' = {}
<1>1. ASSUME NEW b \in Bases, NEW size \in Sizes, NEW evictable \in BOOLEAN,
             register_allocation(b, size, evictable)
      PROVE  DOMAIN allocations \ DOMAIN allocations' = {}
  BY <1>1 DEF register_allocation
<1>2. ASSUME NEW b \in Bases, record_hit(b)
      PROVE  DOMAIN allocations \ DOMAIN allocations' = {}
  BY <1>2 DEF record_hit
<1>3. CASE age_all
  BY <1>3 DEF age_all
<1>4. CASE UNCHANGED capacitorVars
  BY <1>4 DEF capacitorVars
<1> QED BY <1>1, <1>2, <1>3, <1>4 DEF CapacitorNext

\* For any addresses, sizes and thresholds, and any order of code used equally
\* often: an eviction takes a coldest part of the cold code, and no more of it
\* than it must.
THEOREM EvictsColdestSafe == CapacitorSpec => EvictsColdest
<1>1. MachineryInit => CapacitorInv
  BY CapacitorInvInit
<1>2. CapacitorInv /\ [CapacitorNext]_capacitorVars => CapacitorInv'
  BY CapacitorInvStep
<1>3. CapacitorInv /\ [CapacitorNext]_capacitorVars => ColdestGo
  <2> SUFFICES ASSUME CapacitorInv, [CapacitorNext]_capacitorVars
               PROVE  ColdestGo
    OBVIOUS
  <2>1. CASE DOMAIN allocations \ DOMAIN allocations' = {}
    BY <2>1 DEF ColdestGo
  <2>2. CASE DOMAIN allocations \ DOMAIN allocations' # {}
    <3>1. PICK target \in Sizes : evict_cold(target)
      BY <2>2, OthersKeep
    <3> QED BY <2>2, <3>1, EvictionStep
  <2> QED BY <2>1, <2>2
<1> QED BY <1>1, <1>2, <1>3, PTL DEF CapacitorSpec, EvictsColdest

-----------------------------------------------------------------------------
(* The sum of the sizes of some allocations.  A recursive function is a CHOOSE *)
(* to the prover, so that there is one comes first.                           *)

\* g maps the subsets of S to the sum of their sizes in a.
IsSum(a, S, g) ==
  g = [s \in SUBSET S |-> IF s = {} THEN 0
                          ELSE a[CHOOSE x \in s : TRUE].size + g[s \ {CHOOSE x \in s : TRUE}]]
Total(a, S) == (CHOOSE g : IsSum(a, S, g))[S]

\* The fold of the model is such a sum.
LEMMA SizeIsTotal ==
  ASSUME NEW B
  PROVE  SizeOf(B) = Total(allocations, B)
BY DEF SizeOf, MapThenSumSet, MapThenFoldSet, Total, IsSum

\* Induction on the natural numbers, for a set of them.
LEMMA NatSet ==
  ASSUME NEW F, 0 \in F, \A n \in Nat : n \in F => n + 1 \in F
  PROVE  Nat \subseteq F
<1> SUFFICES ASSUME Nat \ F # {} PROVE FALSE
  OBVIOUS
<1>1. \E m \in Nat \ F : \A k \in Nat \ F : ~ (<<k, m>> \in OpToRel(<, Nat))
  BY NatLessThanWellFounded, WFMin
<1>2. \A k, m \in Nat : k < m => <<k, m>> \in OpToRel(<, Nat)
  BY DEF OpToRel
<1>3. PICK m \in Nat \ F : \A k \in Nat \ F : ~ (k < m)
  BY <1>1, <1>2
<1>4. m - 1 \in Nat /\ m - 1 < m
  BY <1>3
<1>5. m - 1 \in F
  BY <1>3, <1>4
<1> QED BY <1>3, <1>4, <1>5

\* Induction on the subsets of a finite set, for a set of them.
LEMMA SubsetInduction ==
  ASSUME NEW S, IsFiniteSet(S), NEW F,
         {} \in F,
         \A s \in SUBSET S : s # {} /\ (\A x \in s : s \ {x} \in F) => s \in F
  PROVE  SUBSET S \subseteq F
<1> DEFINE Fits == {n \in Nat : \A s \in SUBSET S : Cardinality(s) = n => s \in F}
<1>1. \A s \in SUBSET S : IsFiniteSet(s) /\ Cardinality(s) \in Nat
  BY FS_Subset, FS_CardinalityType
<1>2. 0 \in Fits
  BY <1>1, FS_EmptySet
<1>3. ASSUME NEW n \in Nat, n \in Fits
      PROVE  n + 1 \in Fits
  <2> SUFFICES ASSUME NEW s \in SUBSET S, Cardinality(s) = n + 1
               PROVE  s \in F
    OBVIOUS
  <2>1. \A x \in s : Cardinality(s \ {x}) = n
    BY <1>1, FS_RemoveElement
  <2>2. s # {}
    <3>1. Cardinality({}) = 0 /\ Cardinality(s) # 0
      BY FS_EmptySet
    <3> QED BY <3>1
  <2>3. \A x \in s : s \ {x} \in F
    BY <1>3, <2>1
  <2> QED BY <2>2, <2>3
<1> HIDE DEF Fits
<1>4. Nat \subseteq Fits
  BY <1>2, <1>3, NatSet
<1> QED BY <1>1, <1>4 DEF Fits

\* The element the fold takes first; a function that sums the sets of up to n elements.
Any(s) == CHOOSE x \in s : TRUE
IsPart(a, S, n, g) ==
  \A s \in SUBSET S : Cardinality(s) <= n =>
     g[s] = IF s = {} THEN 0 ELSE a[Any(s)].size + g[s \ {Any(s)}]

\* There is a sum: it is built up by the number of elements.
LEMMA SumExists ==
  ASSUME NEW S, IsFiniteSet(S), NEW a
  PROVE  \E g : IsSum(a, S, g)
<1> DEFINE Fits == {n \in Nat : \E g : IsPart(a, S, n, g)}
<1>0. \A s \in SUBSET S : IsFiniteSet(s) /\ Cardinality(s) \in Nat
  BY FS_Subset, FS_CardinalityType
<1>1. 0 \in Fits
  <2>1. IsPart(a, S, 0, [s \in SUBSET S |-> 0])
    <3>1. \A s \in SUBSET S : Cardinality(s) <= 0 => s = {}
      BY <1>0, FS_EmptySet
    <3> QED BY <3>1 DEF IsPart
  <2> QED BY <2>1
<1>2. ASSUME NEW n \in Nat, n \in Fits
      PROVE  n + 1 \in Fits
  <2>1. PICK g : IsPart(a, S, n, g)
    BY <1>2
  <2> DEFINE h == [s \in SUBSET S |-> IF s = {} THEN 0 ELSE a[Any(s)].size + g[s \ {Any(s)}]]
  <2>2. \A s \in SUBSET S : Cardinality(s) <= n => h[s] = g[s]
    BY <2>1 DEF IsPart
  <2>3. ASSUME NEW s \in SUBSET S, s # {}, Cardinality(s) <= n + 1
        PROVE  h[s \ {Any(s)}] = g[s \ {Any(s)}]
    <3>1. Any(s) \in s
      BY <2>3 DEF Any
    <3>2. Cardinality(s \ {Any(s)}) = Cardinality(s) - 1
      BY <1>0, <3>1, FS_RemoveElement
    <3>3. Cardinality(s \ {Any(s)}) <= n
      BY <1>0, <2>3, <3>2
    <3> HIDE DEF h
    <3> QED BY <2>2, <3>3
  <2>4. IsPart(a, S, n + 1, h)
    BY <2>3 DEF IsPart
  <2> QED BY <2>4
<1> HIDE DEF Fits
<1>3. Nat \subseteq Fits
  BY <1>1, <1>2, NatSet
<1>4. Cardinality(S) \in Nat
  BY FS_CardinalityType
<1>5. PICK g : IsPart(a, S, Cardinality(S), g)
  BY <1>3, <1>4 DEF Fits
<1> DEFINE h == [s \in SUBSET S |-> g[s]]
<1>6. \A s \in SUBSET S : Cardinality(s) <= Cardinality(S)
  BY FS_Subset
<1>7. \A s \in SUBSET S : h[s] = IF s = {} THEN 0 ELSE a[Any(s)].size + h[s \ {Any(s)}]
  BY <1>5, <1>6 DEF IsPart
<1>8. h = [s \in SUBSET S |-> IF s = {} THEN 0 ELSE a[Any(s)].size + h[s \ {Any(s)}]]
  BY <1>7
<1> QED BY <1>8 DEF IsSum, Any

\* What a sum satisfies: it does not depend on the order of summation.
LEMMA SumSplits ==
  ASSUME NEW S, IsFiniteSet(S), NEW a, \A x \in S : a[x].size \in Nat,
         NEW g, IsSum(a, S, g)
  PROVE  /\ g[{}] = 0
         /\ \A s \in SUBSET S : g[s] \in Nat
         /\ \A s \in SUBSET S : \A x \in s : g[s] = a[x].size + g[s \ {x}]
<1>0. \A s \in SUBSET S : g[s] = IF s = {} THEN 0 ELSE a[Any(s)].size + g[s \ {Any(s)}]
  BY DEF IsSum, Any
<1>1. \A s \in SUBSET S : s # {} => Any(s) \in s
  BY DEF Any
<1>2. g[{}] = 0
  BY <1>0
<1> DEFINE Typed == {s \in SUBSET S : g[s] \in Nat}
<1>3. SUBSET S \subseteq Typed
  <2>1. {} \in Typed
    BY <1>2
  <2>2. ASSUME NEW s \in SUBSET S, s # {}, \A x \in s : s \ {x} \in Typed
        PROVE  s \in Typed
    <3>1. /\ g[s] = a[Any(s)].size + g[s \ {Any(s)}]
          /\ a[Any(s)].size \in Nat /\ g[s \ {Any(s)}] \in Nat
      BY <1>0, <1>1, <2>2
    <3> QED BY <3>1
  <2> HIDE DEF Typed
  <2> QED BY <2>1, <2>2, SubsetInduction
<1>4. \A s \in SUBSET S : g[s] \in Nat
  BY <1>3
<1> DEFINE Splits == {s \in SUBSET S : \A x \in s : g[s] = a[x].size + g[s \ {x}]}
<1>5. SUBSET S \subseteq Splits
  <2>1. {} \in Splits
    OBVIOUS
  <2>2. ASSUME NEW s \in SUBSET S, s # {}, \A x \in s : s \ {x} \in Splits
        PROVE  s \in Splits
    <3> SUFFICES ASSUME NEW x \in s PROVE g[s] = a[x].size + g[s \ {x}]
      OBVIOUS
    <3> DEFINE y == Any(s)
    <3>1. y \in s /\ g[s] = a[y].size + g[s \ {y}]
      BY <1>0, <1>1, <2>2
    <3> HIDE DEF y
    <3>2. CASE x = y
      BY <3>1, <3>2
    <3>3. CASE x # y
      <4>1. g[s \ {y}] = a[x].size + g[(s \ {y}) \ {x}]
        BY <2>2, <3>1, <3>3
      <4>2. g[s \ {x}] = a[y].size + g[(s \ {x}) \ {y}]
        BY <2>2, <3>1, <3>3
      <4>3. (s \ {y}) \ {x} = (s \ {x}) \ {y}
        OBVIOUS
      <4>4. a[x].size \in Nat /\ a[y].size \in Nat /\ g[(s \ {x}) \ {y}] \in Nat
        BY <1>4, <3>1
      <4> DEFINE p == g[s]
                 q == g[s \ {y}]
                 r == g[s \ {x}]
                 t == g[(s \ {x}) \ {y}]
                 m == a[x].size
                 n == a[y].size
      <4>5. p = n + q /\ q = m + t /\ r = n + t /\ m \in Nat /\ n \in Nat /\ t \in Nat
        BY <3>1, <4>1, <4>2, <4>3, <4>4
      <4> HIDE DEF p, q, r, t, m, n
      <4>6. p = m + r
        BY <4>5
      <4> QED BY <4>6 DEF p, m, r
    <3> QED BY <3>2, <3>3
  <2> HIDE DEF Splits
  <2> QED BY <2>1, <2>2, SubsetInduction
<1> QED BY <1>2, <1>4, <1>5

\* The sum over a set does not depend on the function beyond the set.
LEMMA SumsAgree ==
  ASSUME NEW S, NEW T \in SUBSET S, IsFiniteSet(S), NEW a, NEW b,
         \A x \in T : a[x].size = b[x].size,
         NEW g, IsSum(a, S, g), NEW h, IsSum(b, T, h)
  PROVE  \A s \in SUBSET T : g[s] = h[s]
<1>1. \A s \in SUBSET S : g[s] = IF s = {} THEN 0 ELSE a[Any(s)].size + g[s \ {Any(s)}]
  BY DEF IsSum, Any
<1>2. \A s \in SUBSET T : h[s] = IF s = {} THEN 0 ELSE b[Any(s)].size + h[s \ {Any(s)}]
  BY DEF IsSum, Any
<1>3. \A s \in SUBSET T : s # {} => Any(s) \in s
  BY DEF Any
<1> DEFINE Same == {s \in SUBSET T : g[s] = h[s]}
<1>4. {} \in Same
  BY <1>1, <1>2
<1>5. ASSUME NEW s \in SUBSET T, s # {}, \A x \in s : s \ {x} \in Same
      PROVE  s \in Same
  <2>1. /\ g[s] = a[Any(s)].size + g[s \ {Any(s)}]
        /\ h[s] = b[Any(s)].size + h[s \ {Any(s)}]
        /\ Any(s) \in s
    BY <1>1, <1>2, <1>3, <1>5
  <2> QED BY <1>5, <2>1
<1>6. IsFiniteSet(T)
  BY FS_Subset
<1> HIDE DEF Same
<1>7. SUBSET T \subseteq Same
  BY <1>4, <1>5, <1>6, SubsetInduction
<1> QED BY <1>7 DEF Same

\* Total is a sum.
LEMMA TotalSums ==
  ASSUME NEW S, IsFiniteSet(S), NEW a, \A x \in S : a[x].size \in Nat
  PROVE  /\ Total(a, {}) = 0
         /\ \A T \in SUBSET S : Total(a, T) \in Nat
         /\ \A T \in SUBSET S : \A x \in T : Total(a, T) = a[x].size + Total(a, T \ {x})
<1>1. PICK g : IsSum(a, S, g)
  BY SumExists
<1>2. ASSUME NEW T \in SUBSET S
      PROVE  Total(a, T) = g[T]
  <2>1. IsFiniteSet(T)
    BY FS_Subset
  <2>2. \E h : IsSum(a, T, h)
    BY <2>1, SumExists
  <2> DEFINE h == CHOOSE k : IsSum(a, T, k)
  <2>3. IsSum(a, T, h)
    BY <2>2
  <2>4. Total(a, T) = h[T]
    BY DEF Total
  <2> HIDE DEF h
  <2>5. g[T] = h[T]
    BY <1>1, <2>3, SumsAgree
  <2> QED BY <2>4, <2>5
<1>3. /\ g[{}] = 0
      /\ \A s \in SUBSET S : g[s] \in Nat
      /\ \A s \in SUBSET S : \A x \in s : g[s] = a[x].size + g[s \ {x}]
  BY <1>1, SumSplits
<1> QED BY <1>2, <1>3

\* ... of the sizes alone ...
LEMMA TotalSame ==
  ASSUME NEW T, IsFiniteSet(T), NEW a, NEW b, \A x \in T : a[x].size = b[x].size
  PROVE  Total(a, T) = Total(b, T)
<1> DEFINE g == CHOOSE k : IsSum(a, T, k)
           h == CHOOSE k : IsSum(b, T, k)
<1>1. IsSum(a, T, g) /\ IsSum(b, T, h)
  BY SumExists
<1>2. Total(a, T) = g[T] /\ Total(b, T) = h[T]
  BY DEF Total
<1> HIDE DEF g, h
<1>3. T \in SUBSET T
  OBVIOUS
<1> QED BY <1>1, <1>2, <1>3, SumsAgree

\* ... and what is taken away is subtracted.
LEMMA TotalWithout ==
  ASSUME NEW S, IsFiniteSet(S), NEW E \in SUBSET S, NEW a, \A x \in S : a[x].size \in Nat
  PROVE  Total(a, S \ E) = Total(a, S) - Total(a, E)
<1>1. /\ Total(a, {}) = 0
      /\ \A T \in SUBSET S : Total(a, T) \in Nat
      /\ \A T \in SUBSET S : \A x \in T : Total(a, T) = a[x].size + Total(a, T \ {x})
  BY TotalSums
<1> DEFINE Fits == {T \in SUBSET E : Total(a, S \ T) = Total(a, S) - Total(a, T)}
<1>2. {} \in Fits
  <2>1. S \ {} = S /\ {} \in SUBSET E /\ Total(a, S) \in Nat
    BY <1>1
  <2> QED BY <1>1, <2>1
<1>3. ASSUME NEW T \in SUBSET E, T # {}, \A x \in T : T \ {x} \in Fits
      PROVE  T \in Fits
  <2>1. PICK x \in T : TRUE
    BY <1>3
  <2>2. Total(a, S \ (T \ {x})) = Total(a, S) - Total(a, T \ {x})
    BY <1>3, <2>1
  <2>3. Total(a, T) = a[x].size + Total(a, T \ {x})
    BY <1>1, <2>1
  <2>4. Total(a, S \ (T \ {x})) = a[x].size + Total(a, (S \ (T \ {x})) \ {x})
    BY <1>1, <2>1
  <2>5. (S \ (T \ {x})) \ {x} = S \ T
    BY <2>1
  <2>6. /\ a[x].size \in Nat /\ Total(a, S \ T) \in Nat /\ Total(a, S) \in Nat
        /\ Total(a, T \ {x}) \in Nat
    BY <1>1, <2>1
  <2>7. Total(a, S \ (T \ {x})) = a[x].size + Total(a, S \ T)
    BY <2>4, <2>5
  <2> DEFINE most == Total(a, S \ (T \ {x}))
             less == Total(a, T \ {x})
             rest == Total(a, S \ T)
             some == Total(a, T)
             whole == Total(a, S)
             size == a[x].size
  <2>8. /\ most = whole - less /\ some = size + less /\ most = size + rest
        /\ size \in Nat /\ rest \in Nat /\ whole \in Nat /\ less \in Nat
    BY <2>2, <2>3, <2>6, <2>7
  <2> HIDE DEF most, less, rest, some, whole, size
  <2>9. rest = whole - some
    BY <2>8
  <2> USE DEF rest, whole, some
  <2> QED BY <2>9
<1>4. IsFiniteSet(E)
  BY FS_Subset
<1> HIDE DEF Fits
<1>5. SUBSET E \subseteq Fits
  BY <1>2, <1>3, <1>4, SubsetInduction
<1> QED BY <1>5 DEF Fits

-----------------------------------------------------------------------------
(* The counter of allocated bytes *)

\* An operation that keeps the addresses and the sizes keeps their sum.
LEMMA SameSizes ==
  ASSUME CapacitorInv, TotalAddsUp, UNCHANGED <<total, replaced>>,
         DOMAIN allocations' = DOMAIN allocations,
         \A b \in DOMAIN allocations : allocations'[b].size = allocations[b].size
  PROVE  TotalAddsUp'
<1> DEFINE D == DOMAIN allocations
<1>1. Total(allocations, D) = Total(allocations', D)
  BY TotalSame DEF CapacitorInv
<1>2. replaced \/ total = Total(allocations, D)
  BY SizeIsTotal DEF TotalAddsUp
<1>3. SizeOf(DOMAIN allocations)' = Total(allocations', D)
  BY DEF SizeOf, MapThenSumSet, MapThenFoldSet, Total, IsSum
<1> QED BY <1>1, <1>2, <1>3 DEF TotalAddsUp

LEMMA TotalAddsUpStep ==
  ASSUME CapacitorInv, TotalAddsUp, [CapacitorNext]_capacitorVars
  PROVE  TotalAddsUp'
<1> DEFINE D == DOMAIN allocations
<1>0. /\ IsFiniteSet(D)
      /\ \A b \in D : allocations[b].size \in Nat
      /\ replaced \/ total = Total(allocations, D)
  BY SizeIsTotal DEF CapacitorInv, Allocation, TotalAddsUp
<1>a. SizeOf(DOMAIN allocations)' = Total(allocations', DOMAIN allocations')
  BY DEF SizeOf, MapThenSumSet, MapThenFoldSet, Total, IsSum
<1>1. ASSUME NEW b \in Bases, NEW size \in Sizes, NEW evictable \in BOOLEAN,
             register_allocation(b, size, evictable)
      PROVE  TotalAddsUp'
  <2>1. /\ allocations' = [c \in D \cup {b} |->
                             IF c = b THEN CodeAllocation(size, evictable) ELSE allocations[c]]
        /\ total' = total + size
        /\ replaced' = (replaced \/ b \in D)
    BY <1>1 DEF register_allocation
  <2>2. CASE replaced \/ b \in D
    BY <2>1, <2>2 DEF TotalAddsUp
  <2>3. CASE ~replaced /\ b \notin D
    <3>1. /\ DOMAIN allocations' = D \cup {b} /\ size \in Nat
          /\ allocations'[b].size = size
          /\ \A c \in D : allocations'[c].size = allocations[c].size
      BY <2>1, <2>3, MachineryAssumption DEF CodeAllocation
    <3>2. IsFiniteSet(D \cup {b}) /\ \A c \in D \cup {b} : allocations'[c].size \in Nat
      BY <1>0, <3>1, FS_AddElement
    <3>3. Total(allocations', D \cup {b}) = size + Total(allocations', (D \cup {b}) \ {b})
      BY <3>1, <3>2, TotalSums
    <3>4. (D \cup {b}) \ {b} = D
      BY <2>3
    <3>5. Total(allocations', D) = Total(allocations, D)
      BY <1>0, <3>1, TotalSame
    <3>6. Total(allocations', D \cup {b}) = size + total
      BY <1>0, <2>3, <3>3, <3>4, <3>5
    <3>7. total \in Nat
      BY <1>0, <2>3, TotalSums
    <3> QED BY <1>a, <2>1, <3>1, <3>6, <3>7 DEF TotalAddsUp
  <2> QED BY <2>2, <2>3
<1>2. ASSUME NEW b \in Bases, record_hit(b)
      PROVE  TotalAddsUp'
  BY <1>2, SameSizes DEF record_hit, CapacitorInv, Allocation
<1>3. CASE age_all
  <2>1. \A b \in D : allocations[b] \in Allocation
    BY DEF CapacitorInv
  <2>2. DOMAIN allocations' = D /\ \A b \in D : allocations'[b].size = allocations[b].size
    BY <1>3, <2>1 DEF age_all, Allocation
  <2> QED BY <1>3, <2>2, SameSizes DEF age_all
<1>4. ASSUME NEW target \in Sizes, evict_cold(target)
      PROVE  TotalAddsUp'
  <2>1. PICK E \in SUBSET D : /\ allocations' = [b \in D \ E |-> allocations[b]]
                              /\ total' = total - SizeOf(E)
                              /\ replaced' = replaced
    <3>1. PICK s \in Orders, k \in Nat :
            /\ k <= Len(s)
            /\ allocations' = [b \in D \ {s[i] : i \in 1 .. k} |-> allocations[b]]
            /\ total' = total - SizeOf({s[i] : i \in 1 .. k})
            /\ replaced' = replaced
      <4>1. PICK s \in Orders :
              LET first(n) == {s[i] : i \in 1 .. n}
                  enough == {n \in 0 .. Len(s) : SizeOf(first(n)) >= target}
                  evicted == first(IF enough = {} THEN Len(s) ELSE Min(enough))
              IN /\ allocations' = [b \in D \ evicted |-> allocations[b]]
                 /\ total' = total - SizeOf(evicted)
                 /\ replaced' = replaced
        BY <1>4 DEF evict_cold
      <4> DEFINE enough == {n \in 0 .. Len(s) : SizeOf({s[i] : i \in 1 .. n}) >= target}
                 stop == IF enough = {} THEN Len(s) ELSE Min(enough)
      <4>2. stop \in Nat /\ stop <= Len(s)
        <5>1. enough \subseteq Nat /\ enough \subseteq 0 .. Len(s) /\ Len(s) \in 0 .. Len(s)
          BY OrdersSort
        <5> HIDE DEF enough
        <5>2. Len(s) \in Nat
          BY OrdersSort
        <5>3. enough # {} => Min(enough) \in enough
          BY <5>1, Smallest
        <5>4. enough # {} => Min(enough) \in 0 .. Len(s)
          BY <5>1, <5>3
        <5> QED BY <5>2, <5>4
      <4> QED BY <4>1, <4>2
    <3>2. \A i \in 1 .. k : i \in 1 .. Len(s) /\ s[i] \in Cold
      BY <3>1, OrdersSort
    <3>3. {s[i] : i \in 1 .. k} \subseteq D
      BY <3>2 DEF Cold
    <3> QED BY <3>1, <3>3
  <2>2. DOMAIN allocations' = D \ E /\ \A b \in D \ E : allocations'[b].size = allocations[b].size
    BY <2>1
  <2>3. IsFiniteSet(D \ E)
    BY <1>0, FS_Subset
  <2>4. Total(allocations', D \ E) = Total(allocations, D \ E)
    BY <2>2, <2>3, TotalSame
  <2>5. Total(allocations, D \ E) = Total(allocations, D) - Total(allocations, E)
    BY <1>0, TotalWithout
  <2>6. SizeOf(E) = Total(allocations, E)
    BY SizeIsTotal
  <2>7. replaced \/ total' = Total(allocations', D \ E)
    BY <1>0, <2>1, <2>4, <2>5, <2>6
  <2> QED BY <1>a, <2>1, <2>2, <2>7 DEF TotalAddsUp
<1>5. CASE UNCHANGED capacitorVars
  BY <1>5, SameSizes DEF capacitorVars
<1> QED BY <1>1, <1>2, <1>3, <1>4, <1>5 DEF CapacitorNext

\* For any addresses and sizes, the counter of allocated bytes is the sum of the
\* sizes in the list after any registrations, hits, agings and evictions, until a
\* base is registered while it is in the list.
THEOREM TotalAddsUpSafe == CapacitorSpec => []TotalAddsUp
<1>1. MachineryInit => CapacitorInv /\ TotalAddsUp
  <2> SUFFICES ASSUME MachineryInit PROVE CapacitorInv /\ TotalAddsUp
    OBVIOUS
  <2>1. DOMAIN allocations = {} /\ total = 0
    BY DEF MachineryInit
  <2>2. Total(allocations, {}) = 0
    BY FS_EmptySet, TotalSums
  <2> QED BY <2>1, <2>2, CapacitorInvInit, SizeIsTotal DEF TotalAddsUp
<1>2. CapacitorInv /\ TotalAddsUp /\ [CapacitorNext]_capacitorVars
        => CapacitorInv' /\ TotalAddsUp'
  BY CapacitorInvStep, TotalAddsUpStep
<1> QED BY <1>1, <1>2, PTL DEF CapacitorSpec
=============================================================================
