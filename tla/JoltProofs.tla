----------------------------- MODULE JoltProofs -----------------------------
(***************************************************************************)
(* Theorems of Jolt, the Tier 1 compiler (src/src/tier1/tier1.cpp).        *)
(*                                                                         *)
(* Of LinearScan, for any number of registers and any sorted list of live  *)
(* intervals: no two values that are live together share a register or a   *)
(* slot, and the fallback of tier1.cpp:114 is never taken.                 *)
(* Of JoltRun, for any function: the code that runs with these homes finds *)
(* in each of them the value that was put there.                           *)
(* Of JoltChunk, for any chunk: the code returns what Spark returns.       *)
(***************************************************************************)
EXTENDS JoltChunk, FiniteSetTheorems, SequenceTheorems, WellFoundedInduction, TLAPS

\* What is not placed has no home yet.
Homeless ==
  \A i \in 1 .. Len(intervals) : i \notin Placed => reg[i] = NoReg /\ slot[i] = NoSlot

\* The array used marks the registers of the active intervals, which are
\* different registers.
ActiveHold ==
  /\ \A k \in active : reg[k] # NoReg
  /\ \A j, k \in active : reg[j] = reg[k] => j = k
  /\ used = {reg[k] : k \in active}

\* An interval that kept its register and is no longer active ended before the
\* interval placed last started.
GoneEnded ==
  \A i \in Placed : i \notin active /\ reg[i] # NoReg =>
     intervals[i].end < intervals[next - 1].start

\* The slots are numbered in the order they are given out.
SlotsBelow == \A i \in Placed : slot[i] # NoSlot => slot[i] < slots

\* The inductive invariant: HomesDisjoint says nothing of the array used, from
\* which the next register is chosen.
ScanInv ==
  /\ ScanTypeOK /\ Sorted(intervals)
  /\ Homeless /\ ActiveHold /\ GoneEnded /\ SlotsBelow
  /\ HomesDisjoint

-----------------------------------------------------------------------------

\* Intervals have natural bounds and are sorted.
LEMMA Bounds ==
  ASSUME intervals \in Seq(LiveInterval), Sorted(intervals)
  PROVE  /\ Len(intervals) \in Nat
         /\ \A i \in 1 .. Len(intervals) :
              /\ intervals[i].start \in Nat /\ intervals[i].end \in Nat
              /\ intervals[i].start <= intervals[i].end
         /\ \A i, j \in 1 .. Len(intervals) :
              i < j => intervals[i].start < intervals[j].start
<1>1. DOMAIN intervals = 1 .. Len(intervals) /\ Len(intervals) \in Nat
  OBVIOUS
<1>2. \A i \in 1 .. Len(intervals) : intervals[i] \in LiveInterval
  OBVIOUS
<1>3. \A i \in 1 .. Len(intervals) : intervals[i].start \in Nat /\ intervals[i].end \in Nat
  BY <1>2 DEF LiveInterval
<1> QED BY <1>1, <1>3 DEF Sorted

\* After expire_old the marked registers are those of the live intervals.
LEMMA InUseIsLive ==
  ASSUME ScanInv, Scanning
  PROVE  InUse = {reg[k] : k \in Live}
BY DEF ScanInv, ActiveHold, InUse, Live, Expired

\* Whoever was placed and holds the register r is active and live, or has
\* ended before the interval to place starts.
LEMMA EndedBefore ==
  ASSUME ScanInv, Scanning, NEW i \in Placed, i \notin Live, reg[i] # NoReg
  PROVE  intervals[i].end < intervals[next].start
<1>1. /\ next \in 1 .. Len(intervals) /\ i \in 1 .. Len(intervals) /\ i < next
      /\ Len(intervals) \in Nat
  BY Bounds DEF ScanInv, ScanTypeOK, Scanning, Placed
<1>2. CASE i \in active
  BY <1>2 DEF Live, Expired
<1>3. CASE i \notin active
  <2>1. intervals[i].end < intervals[next - 1].start
    BY <1>3 DEF ScanInv, GoneEnded
  <2>2. next - 1 \in 1 .. Len(intervals) /\ next - 1 < next
    BY <1>1
  <2>3. intervals[next - 1].start < intervals[next].start
    BY <1>1, <2>2, Bounds DEF ScanInv, ScanTypeOK
  <2>4. /\ intervals[i].end \in Nat /\ intervals[next].start \in Nat
        /\ intervals[next - 1].start \in Nat
    BY <1>1, <2>2, Bounds DEF ScanInv, ScanTypeOK
  <2> QED BY <2>1, <2>3, <2>4
<1> QED BY <1>2, <1>3

\* The live intervals are fewer than finitely many.
LEMMA LiveFinite ==
  ASSUME ScanInv
  PROVE  IsFiniteSet(Live) /\ Cardinality(Live) \in Nat
<1>1. next - 1 \in Int /\ Live \subseteq Placed
  BY Bounds DEF ScanInv, ScanTypeOK, Live
<1>2. IsFiniteSet(Placed)
  BY <1>1, FS_Interval DEF Placed
<1> QED BY <1>1, <1>2, FS_Subset, FS_CardinalityType

\* Fewer live intervals than registers leave a register free.
LEMMA RoomLeaves ==
  ASSUME ScanInv, Scanning, Room
  PROVE  Free # {}
<1>1. SUFFICES ASSUME Free = {} PROVE FALSE
  OBVIOUS
<1>2. Registers \subseteq {reg[k] : k \in Live}
  BY <1>1, InUseIsLive DEF Free
<1>3. IsFiniteSet(Registers) /\ Cardinality(Registers) = NumRegs
  BY FS_Interval, NumRegsAssumption DEF Registers
<1>4. /\ IsFiniteSet({reg[k] : k \in Live})
      /\ Cardinality({reg[k] : k \in Live}) <= Cardinality(Live)
  <2> DEFINE f == [k \in Live |-> reg[k]]
  <2>1. f \in Surjection(Live, {reg[k] : k \in Live})
    BY DEF Surjection
  <2> QED BY <2>1, LiveFinite, FS_Surjection
<1>5. Cardinality(Registers) <= Cardinality({reg[k] : k \in Live})
  BY <1>2, <1>4, FS_Subset
<1>6. /\ Cardinality(Live) \in Nat /\ Cardinality({reg[k] : k \in Live}) \in Nat
  BY <1>4, LiveFinite, FS_CardinalityType
<1> QED BY <1>3, <1>4, <1>5, <1>6, NumRegsAssumption DEF Room

-----------------------------------------------------------------------------

\* What every step does to the interval it places and to nothing after it.
LEMMA NextBounds ==
  ASSUME ScanInv, Scanning, next' = next + 1
  PROVE  /\ next \in 1 .. Len(intervals) /\ Len(intervals) \in Nat
         /\ next' \in 1 .. Len(intervals) + 1 /\ next' - 1 = next
         /\ Placed' = Placed \cup {next} /\ next \notin Placed
         /\ Placed \subseteq 1 .. Len(intervals)
         /\ Live \subseteq active /\ active \subseteq Placed
         /\ reg[next] = NoReg /\ slot[next] = NoSlot
<1>1. next \in 1 .. Len(intervals) /\ Len(intervals) \in Nat
  BY Bounds DEF ScanInv, ScanTypeOK, Scanning
<1>2. next' \in 1 .. Len(intervals) + 1 /\ next' - 1 = next
  BY <1>1
<1>3. /\ Placed' = Placed \cup {next} /\ next \notin Placed
      /\ Placed \subseteq 1 .. Len(intervals)
  BY <1>1, <1>2 DEF Placed
<1>4. Live \subseteq active /\ active \subseteq Placed
  BY DEF ScanInv, ScanTypeOK, Live
<1>5. reg[next] = NoReg /\ slot[next] = NoSlot
  BY <1>1, <1>3 DEF ScanInv, Homeless
<1> QED BY <1>1, <1>2, <1>3, <1>4, <1>5

\* An interval that ended before the next one starts does not overlap it.
LEMMA EndedApart ==
  ASSUME ScanInv, Scanning, NEW i \in Placed,
         intervals[i].end < intervals[next].start
  PROVE  ~ Overlap(i, next) /\ ~ Overlap(next, i)
<1>1. /\ i \in 1 .. Len(intervals) /\ next \in 1 .. Len(intervals)
  BY Bounds DEF ScanInv, ScanTypeOK, Scanning, Placed
<1>2. intervals[i].end \in Nat /\ intervals[next].start \in Nat
  BY <1>1, Bounds DEF ScanInv, ScanTypeOK
<1> QED BY <1>2 DEF Overlap

\* TakeRegister keeps the invariant: whoever had the free register has ended.
LEMMA TakeKeeps ==
  ASSUME ScanInv, TakeRegister
  PROVE  ScanInv'
<1>1. Scanning /\ next' = next + 1
  BY DEF TakeRegister
<1>2. PICK r \in Free : reg' = [reg EXCEPT ![next] = r] /\ used' = InUse \cup {r}
  BY DEF TakeRegister
<1>3. UNCHANGED <<intervals, slot, slots>> /\ active' = Live \cup {next}
  BY DEF TakeRegister
<1>4. r \in Registers /\ r # NoReg /\ \A k \in Live : reg[k] # r
  BY <1>1, InUseIsLive, NumRegsAssumption DEF Free, Registers, NoReg
<1>5. /\ reg'[next] = r /\ slot'[next] = NoSlot
      /\ \A i \in Placed : i # next /\ reg'[i] = reg[i] /\ slot'[i] = slot[i]
  BY <1>1, <1>2, <1>3, NextBounds DEF ScanInv, ScanTypeOK
<1>6. ScanTypeOK'
  <2>1. reg' \in [1 .. Len(intervals) -> Registers \cup {NoReg}]
    BY <1>1, <1>2, <1>4, NextBounds DEF ScanInv, ScanTypeOK
  <2>2. used' \subseteq Registers
    BY <1>2, <1>4 DEF ScanInv, ScanTypeOK, InUse
  <2>3. active' \subseteq Placed'
    BY <1>1, <1>3, NextBounds
  <2> QED BY <1>1, <1>3, <2>1, <2>2, <2>3, NextBounds DEF ScanInv, ScanTypeOK
<1>7. Homeless'
  BY <1>1, <1>2, <1>3, NextBounds DEF ScanInv, ScanTypeOK, Homeless
<1>8. ActiveHold'
  <2>1. used' = {reg'[k] : k \in active'}
    BY <1>1, <1>2, <1>3, <1>5, InUseIsLive, NextBounds
  <2> QED BY <1>1, <1>3, <1>4, <1>5, <2>1, NextBounds DEF ScanInv, ActiveHold
<1>9. GoneEnded'
  BY <1>1, <1>3, <1>5, EndedBefore, NextBounds DEF GoneEnded
<1>10. SlotsBelow'
  BY <1>1, <1>3, <1>5, NextBounds DEF ScanInv, SlotsBelow
<1>11. HomesDisjoint'
  <2>1. \A i \in Placed : reg[i] = r => ~ Overlap(i, next) /\ ~ Overlap(next, i)
    BY <1>1, <1>4, EndedBefore, EndedApart
  <2>2. \A i, j \in Placed' : i # j /\ reg'[i] # NoReg /\ reg'[i] = reg'[j] => ~ Overlap(i, j)
    BY <1>1, <1>5, <2>1, NextBounds DEF ScanInv, HomesDisjoint
  <2>3. \A i, j \in Placed' : i # j /\ slot'[i] # NoSlot => slot'[i] # slot'[j]
    BY <1>1, <1>5, NextBounds DEF ScanInv, HomesDisjoint
  <2>4. \A i \in Placed' : (reg'[i] = NoReg) <=> (slot'[i] # NoSlot)
    <3>1. \A i \in Placed : (reg'[i] = NoReg) <=> (slot'[i] # NoSlot)
      BY <1>5 DEF ScanInv, HomesDisjoint
    <3> QED BY <1>1, <1>4, <1>5, <3>1, NextBounds
  <2>5. \A i, j : Overlap(i, j)' <=> Overlap(i, j)
    BY <1>3 DEF Overlap
  <2> QED BY <2>2, <2>3, <2>4, <2>5 DEF HomesDisjoint
<1> QED BY <1>3, <1>6, <1>7, <1>8, <1>9, <1>10, <1>11 DEF ScanInv

\* Spill keeps the invariant: the slot is new.
LEMMA SpillKeeps ==
  ASSUME ScanInv, Spill
  PROVE  ScanInv'
<1>1. Scanning /\ next' = next + 1
  BY DEF Spill
<1>2. /\ slot' = [slot EXCEPT ![next] = slots] /\ slots' = slots + 1
      /\ active' = Live /\ used' = InUse
      /\ UNCHANGED <<intervals, reg>>
  BY DEF Spill
<1>3. slots \in Nat /\ slots # NoSlot
  BY DEF ScanInv, ScanTypeOK, NoSlot
<1>4. /\ slot'[next] = slots /\ reg'[next] = NoReg
      /\ \A i \in Placed : i # next /\ reg'[i] = reg[i] /\ slot'[i] = slot[i]
  BY <1>1, <1>2, NextBounds DEF ScanInv, ScanTypeOK
<1>5. \A i \in Placed : slot[i] # slots
  BY <1>3 DEF ScanInv, SlotsBelow
<1>6. ScanTypeOK'
  BY <1>1, <1>2, <1>3, NextBounds DEF ScanInv, ScanTypeOK, InUse
<1>7. Homeless'
  BY <1>1, <1>2, NextBounds DEF ScanInv, ScanTypeOK, Homeless
<1>8. ActiveHold'
  BY <1>1, <1>2, InUseIsLive, NextBounds DEF ScanInv, ActiveHold
<1>9. GoneEnded'
  BY <1>1, <1>2, <1>4, EndedBefore, NextBounds DEF GoneEnded
<1>10. SlotsBelow'
  <2>1. \A i \in Placed : slot[i] \in Nat \cup {NoSlot}
    BY <1>1, NextBounds DEF ScanInv, ScanTypeOK
  <2> QED BY <1>1, <1>2, <1>3, <1>4, <2>1, NextBounds DEF ScanInv, SlotsBelow, NoSlot
<1>11. HomesDisjoint'
  <2>1. \A i, j \in Placed' : i # j /\ reg'[i] # NoReg /\ reg'[i] = reg'[j] => ~ Overlap(i, j)
    BY <1>1, <1>4, NextBounds DEF ScanInv, HomesDisjoint
  <2>2. \A i, j \in Placed' : i # j /\ slot'[i] # NoSlot => slot'[i] # slot'[j]
    BY <1>1, <1>4, <1>5, NextBounds DEF ScanInv, HomesDisjoint
  <2>3. \A i \in Placed' : (reg'[i] = NoReg) <=> (slot'[i] # NoSlot)
    BY <1>1, <1>3, <1>4, NextBounds DEF ScanInv, HomesDisjoint
  <2>4. \A i, j : Overlap(i, j)' <=> Overlap(i, j)
    BY <1>2 DEF Overlap
  <2> QED BY <2>1, <2>2, <2>3, <2>4 DEF HomesDisjoint
<1> QED BY <1>2, <1>6, <1>7, <1>8, <1>9, <1>10, <1>11 DEF ScanInv

\* StealRegister keeps the invariant: the register changes hands between two
\* active intervals, and the one that loses it goes to a new slot.
LEMMA StealKeeps ==
  ASSUME ScanInv, StealRegister
  PROVE  ScanInv'
<1>1. Scanning /\ next' = next + 1
  BY DEF StealRegister
<1>2. PICK k \in Live :
        /\ reg' = [reg EXCEPT ![next] = reg[k], ![k] = NoReg]
        /\ slot' = [slot EXCEPT ![k] = slots]
        /\ active' = (Live \ {k}) \cup {next}
  BY DEF StealRegister
<1>3. used' = InUse /\ slots' = slots + 1 /\ UNCHANGED intervals
  BY DEF StealRegister
<1>4. slots \in Nat /\ slots # NoSlot
  BY DEF ScanInv, ScanTypeOK, NoSlot
<1>5. /\ k \in Placed /\ k \in active /\ k # next
      /\ reg[k] # NoReg /\ reg[k] \in Registers
      /\ \A j \in Live : reg[j] = reg[k] => j = k
  BY <1>1, NextBounds DEF ScanInv, ScanTypeOK, ActiveHold
<1>6. /\ reg'[next] = reg[k] /\ slot'[next] = NoSlot
      /\ reg'[k] = NoReg /\ slot'[k] = slots
      /\ \A i \in Placed : i # next /\ (i # k => reg'[i] = reg[i] /\ slot'[i] = slot[i])
  BY <1>1, <1>2, <1>5, NextBounds DEF ScanInv, ScanTypeOK
<1>7. \A i \in Placed : slot[i] # slots
  BY <1>4 DEF ScanInv, SlotsBelow
<1>8. ScanTypeOK'
  <2>1. reg' \in [1 .. Len(intervals) -> Registers \cup {NoReg}]
    BY <1>1, <1>2, <1>5, NextBounds DEF ScanInv, ScanTypeOK
  <2>2. slot' \in [1 .. Len(intervals) -> Nat \cup {NoSlot}]
    BY <1>2, <1>4 DEF ScanInv, ScanTypeOK
  <2>3. active' \subseteq Placed'
    BY <1>1, <1>2, NextBounds
  <2>4. used' \subseteq Registers /\ slots' \in Nat
    BY <1>3, <1>4 DEF ScanInv, ScanTypeOK, InUse
  <2> QED BY <1>1, <1>3, <2>1, <2>2, <2>3, <2>4, NextBounds DEF ScanInv, ScanTypeOK
<1>9. Homeless'
  BY <1>1, <1>2, <1>3, <1>5, NextBounds DEF ScanInv, ScanTypeOK, Homeless
<1>10. ActiveHold'
  <2>1. used' = {reg'[j] : j \in active'}
    <3>1. used' = {reg[j] : j \in Live}
      BY <1>1, <1>3, InUseIsLive
    <3>2. \A j \in Live \ {k} : reg'[j] = reg[j]
      BY <1>1, <1>6, NextBounds
    <3> QED BY <1>2, <1>6, <3>1, <3>2
  <2>2. \A j \in active' : reg'[j] # NoReg
    <3>1. \A j \in Live \ {k} : reg'[j] = reg[j] /\ reg[j] # NoReg
      BY <1>1, <1>6, NextBounds DEF ScanInv, ActiveHold
    <3> QED BY <1>2, <1>5, <1>6, <3>1
  <2>3. \A i, j \in active' : reg'[i] = reg'[j] => i = j
    BY <1>1, <1>2, <1>5, <1>6, NextBounds DEF ScanInv, ActiveHold
  <2> QED BY <2>1, <2>2, <2>3 DEF ActiveHold
<1>11. GoneEnded'
  BY <1>1, <1>2, <1>3, <1>6, EndedBefore, NextBounds DEF GoneEnded
<1>12. SlotsBelow'
  <2>1. \A i \in Placed : slot[i] \in Nat \cup {NoSlot}
    BY <1>1, NextBounds DEF ScanInv, ScanTypeOK
  <2>2. \A i \in Placed : slot'[i] # NoSlot => slot'[i] < slots'
    BY <1>3, <1>4, <1>6, <2>1 DEF ScanInv, SlotsBelow, NoSlot
  <2> QED BY <1>1, <1>6, <2>2, NextBounds DEF SlotsBelow
<1>13. HomesDisjoint'
  <2>1. \A i \in Placed : i # k /\ reg[i] = reg[k] => ~ Overlap(i, next) /\ ~ Overlap(next, i)
    BY <1>1, <1>5, EndedBefore, EndedApart
  <2>2. \A i, j \in Placed : i # j /\ reg'[i] # NoReg /\ reg'[i] = reg'[j] => ~ Overlap(i, j)
    BY <1>6 DEF ScanInv, HomesDisjoint
  <2>3. \A i \in Placed : reg'[i] # NoReg /\ reg'[i] = reg'[next]
                             => ~ Overlap(i, next) /\ ~ Overlap(next, i)
    BY <1>6, <2>1
  <2>4. \A i, j \in Placed' : i # j /\ reg'[i] # NoReg /\ reg'[i] = reg'[j] => ~ Overlap(i, j)
    BY <1>1, <2>2, <2>3, NextBounds
  <2>5. \A i, j \in Placed' : i # j /\ slot'[i] # NoSlot => slot'[i] # slot'[j]
    <3>1. \A i, j \in Placed : i # j /\ slot'[i] # NoSlot => slot'[i] # slot'[j]
      BY <1>6, <1>7 DEF ScanInv, HomesDisjoint
    <3> QED BY <1>1, <1>6, <3>1, NextBounds
  <2>6. \A i \in Placed' : (reg'[i] = NoReg) <=> (slot'[i] # NoSlot)
    <3>1. \A i \in Placed : (reg'[i] = NoReg) <=> (slot'[i] # NoSlot)
      BY <1>4, <1>6 DEF ScanInv, HomesDisjoint
    <3> QED BY <1>1, <1>5, <1>6, <3>1, NextBounds
  <2>7. \A i, j : Overlap(i, j)' <=> Overlap(i, j)
    BY <1>3 DEF Overlap
  <2> QED BY <2>4, <2>5, <2>6, <2>7 DEF HomesDisjoint
<1> QED BY <1>3, <1>8, <1>9, <1>10, <1>11, <1>12, <1>13 DEF ScanInv

-----------------------------------------------------------------------------

LEMMA ScanInvInit ==
  ASSUME ScanInit
  PROVE  ScanInv
<1>1. /\ intervals \in Seq(LiveInterval) /\ Sorted(intervals) /\ next = 1
      /\ active = {} /\ used = {} /\ slots = 0
      /\ reg = [i \in 1 .. Len(intervals) |-> NoReg]
      /\ slot = [i \in 1 .. Len(intervals) |-> NoSlot]
  BY DEF ScanInit, BeginScan
<1>2. Placed = {} /\ Len(intervals) \in Nat
  BY <1>1 DEF Placed
<1> QED BY <1>1, <1>2 DEF ScanInv, ScanTypeOK, Homeless, ActiveHold, GoneEnded,
                          SlotsBelow, HomesDisjoint

LEMMA ScanInvStep ==
  ASSUME ScanInv, [PlaceInterval]_scanVars
  PROVE  ScanInv'
<1>1. CASE PlaceInterval
  BY <1>1, TakeKeeps, StealKeeps, SpillKeeps DEF PlaceInterval
<1>2. CASE UNCHANGED scanVars
  <2>1. UNCHANGED <<intervals, next, active, used, reg, slot, slots>>
    BY <1>2 DEF scanVars
  <2> QED BY <2>1 DEF ScanInv, ScanTypeOK, Homeless, ActiveHold, GoneEnded, SlotsBelow,
                      HomesDisjoint, Placed, Overlap
<1> QED BY <1>1, <1>2

LEMMA ScanInvariant == ScanSpec => []ScanInv
<1>1. ScanInit => ScanInv
  BY ScanInvInit
<1>2. ScanInv /\ [PlaceInterval]_scanVars => ScanInv'
  BY ScanInvStep
<1> QED BY <1>1, <1>2, PTL DEF ScanSpec

\* The scan's state is well typed for any sorted intervals and any number of
\* registers.
THEOREM ScanTypeCorrect == ScanSpec => []ScanTypeOK
<1>1. ScanInv => ScanTypeOK
  BY DEF ScanInv
<1> QED BY <1>1, ScanInvariant, PTL

\* For any number of registers and any intervals, two virtual registers that
\* are live together have different homes, and each has one home, after any
\* number of steals and spills (linear_scan, tier1.cpp:101-142).
THEOREM HomesDisjointSafe == ScanSpec => []HomesDisjoint
<1>1. ScanInv => HomesDisjoint
  BY DEF ScanInv
<1> QED BY <1>1, ScanInvariant, PTL

\* Fewer active intervals than registers always leave a register free: the
\* branch of tier1.cpp:114 that spills all the same is dead code.
THEOREM RoomMeansFreeSafe == ScanSpec => []RoomMeansFree
<1>1. ScanInv => RoomMeansFree
  BY RoomLeaves DEF RoomMeansFree
<1> QED BY <1>1, ScanInvariant, PTL

-----------------------------------------------------------------------------

\* The largest of a bounded set of positions.
LEMMA MaxOf ==
  ASSUME NEW n \in Nat, NEW S \in SUBSET (1 .. n), S # {}
  PROVE  Max(S) \in S /\ \A y \in S : y <= Max(S)
<1> DEFINE T == {m \in Nat : \A y \in S : y <= m}
<1>1. n \in T
  OBVIOUS
<1>2. \E m \in T : \A k \in T : ~ (<<k, m>> \in OpToRel(<, Nat))
  BY <1>1, NatLessThanWellFounded, WFMin
<1>3. \A k, m \in Nat : k < m => <<k, m>> \in OpToRel(<, Nat)
  BY DEF OpToRel
<1>4. PICK m \in T : \A k \in T : ~ (k < m)
  BY <1>2, <1>3
<1>5. m \in S
  <2> SUFFICES ASSUME m \notin S PROVE FALSE
    OBVIOUS
  <2>1. PICK y \in S : TRUE
    OBVIOUS
  <2>2. m - 1 \in Nat /\ m - 1 < m
    BY <1>4, <2>1
  <2>3. \A z \in S : z <= m - 1
    BY <1>4
  <2> QED BY <1>4, <2>2, <2>3
<1>6. \E x \in S : \A y \in S : x >= y
  BY <1>4, <1>5
<1>7. Max(S) \in S /\ \A y \in S : Max(S) >= y
  BY <1>6 DEF Max
<1> QED BY <1>7

\* The smallest one.
LEMMA MinOf ==
  ASSUME NEW n \in Nat, NEW S \in SUBSET (1 .. n), S # {}
  PROVE  \E m \in S : \A y \in S : m <= y
<1>1. S \subseteq Nat
  OBVIOUS
<1>2. \E m \in S : \A k \in S : ~ (<<k, m>> \in OpToRel(<, Nat))
  BY <1>1, NatLessThanWellFounded, WFMin
<1>3. \A k, m \in Nat : k < m => <<k, m>> \in OpToRel(<, Nat)
  BY DEF OpToRel
<1>4. PICK m \in S : \A k \in S : ~ (k < m)
  BY <1>1, <1>2, <1>3
<1> QED BY <1>1, <1>4

-----------------------------------------------------------------------------

\* How many of a set of positions come up to k.
Rank(B, k) == Cardinality({j \in B : j <= k})

LEMMA RankGrows ==
  ASSUME NEW n \in Nat, NEW B \in SUBSET (1 .. n)
  PROVE  /\ IsFiniteSet(B) /\ Cardinality(B) \in Nat
         /\ \A k \in B : Rank(B, k) \in 1 .. Cardinality(B)
         /\ \A j, k \in B : j < k => Rank(B, j) < Rank(B, k)
<1>1. IsFiniteSet(1 .. n)
  BY FS_Interval
<1>2. IsFiniteSet(B) /\ Cardinality(B) \in Nat
  BY <1>1, FS_Subset, FS_CardinalityType
<1>3. ASSUME NEW k \in B
      PROVE  /\ IsFiniteSet({j \in B : j <= k})
             /\ Cardinality({j \in B : j <= k}) \in 1 .. Cardinality(B)
  <2> DEFINE U == {j \in B : j <= k}
  <2>1. U \subseteq B /\ k \in U
    OBVIOUS
  <2> HIDE DEF U
  <2>2. IsFiniteSet(U) /\ Cardinality(U) <= Cardinality(B) /\ Cardinality(U) \in Nat
    BY <1>2, <2>1, FS_Subset, FS_CardinalityType
  <2>3. Cardinality(U) # 0
    BY <2>1, <2>2, FS_EmptySet
  <2> QED BY <1>2, <2>2, <2>3 DEF U
<1>4. ASSUME NEW j \in B, NEW k \in B, j < k
      PROVE  Rank(B, j) < Rank(B, k)
  <2> DEFINE V == {i \in B : i <= j}
             U == {i \in B : i <= k}
  <2>0. /\ \A i \in B : i <= j => i <= k /\ i # k
        /\ k <= k
    BY <1>4
  <2>1. V \subseteq U \ {k} /\ k \in U
    BY <2>0
  <2>2. IsFiniteSet(U) /\ Cardinality(U) \in Nat
    BY <1>2, <1>3
  <2> HIDE DEF U, V
  <2>3. IsFiniteSet(U \ {k}) /\ Cardinality(U \ {k}) = Cardinality(U) - 1
    BY <2>1, <2>2, FS_RemoveElement
  <2>4. Cardinality(V) <= Cardinality(U \ {k}) /\ Cardinality(V) \in Nat
    BY <2>1, <2>3, FS_Subset, FS_CardinalityType
  <2>5. Cardinality(V) < Cardinality(U)
    BY <2>2, <2>3, <2>4
  <2> QED BY <2>5 DEF U, V, Rank
<1> QED BY <1>2, <1>3, <1>4 DEF Rank

\* Each rank is that of a position: the sorted list of the set exists.
LEMMA RankReached ==
  ASSUME NEW n \in Nat, NEW B \in SUBSET (1 .. n), NEW i \in 1 .. Cardinality(B)
  PROVE  \E k \in B : Rank(B, k) = i
<1> DEFINE T == 1 .. Cardinality(B)
           f == [k \in B |-> Rank(B, k)]
<1>1. /\ IsFiniteSet(B) /\ Cardinality(B) \in Nat
      /\ \A k \in B : Rank(B, k) \in T
      /\ \A j, k \in B : j < k => Rank(B, j) < Rank(B, k)
  BY RankGrows
<1>2. IsFiniteSet(T) /\ Cardinality(T) = Cardinality(B)
  BY <1>1, FS_Interval
<1>3. \A j, k \in B : Rank(B, j) = Rank(B, k) => j = k
  <2> SUFFICES ASSUME NEW j \in B, NEW k \in B, Rank(B, j) = Rank(B, k), j # k PROVE FALSE
    OBVIOUS
  <2>1. j < k \/ k < j
    OBVIOUS
  <2>2. Rank(B, j) \in Int /\ Rank(B, k) \in Int
    BY <1>1
  <2> QED BY <1>1, <2>1, <2>2
<1> HIDE DEF T
<1>4. f \in [B -> T] /\ \A j, k \in B : f[j] = f[k] => j = k
  BY <1>1, <1>3
<1>5. f \in Injection(B, T)
  BY <1>4 DEF Injection, IsInjective
<1>6. f \in Surjection(B, T)
  BY <1>2, <1>5, FS_Injection
<1>7. i \in T
  BY DEF T
<1> QED BY <1>6, <1>7 DEF Surjection

-----------------------------------------------------------------------------

\* The functions compile is called with.
IsFunction(f) ==
  f.insts \in Seq(Instructions) /\ f.vregs \in Nat /\ WellFormed(f)

\* s are the lives of the virtual registers of f: from the first definition to
\* the last mention, each of them once.
Covers(f, life) ==
  /\ life.vreg \in 1 .. f.vregs
  /\ life.start \in DOMAIN f.insts /\ f.insts[life.start].dst = life.vreg
  /\ \A k \in DOMAIN f.insts :
       /\ f.insts[k].dst = life.vreg => life.start <= k
       /\ life.vreg \in Mentions(f.insts[k]) => k <= life.end

AreLives(f, s) ==
  /\ s \in Seq(LiveInterval) /\ Sorted(s)
  /\ \A i \in DOMAIN s : Covers(f, s[i])
  /\ \A i, j \in DOMAIN s : s[i].vreg = s[j].vreg => i = j
  /\ \A k \in DOMAIN f.insts : f.insts[k].dst # 0 =>
       \E i \in DOMAIN s : s[i].vreg = f.insts[k].dst

Nth(f, i) == CHOOSE k \in Births(f) : Cardinality({j \in Births(f) : j <= k}) = i

Life(f, k) ==
  [vreg |-> f.insts[k].dst, start |-> k, end |-> LastMention(f, f.insts[k].dst)]

LEMMA InstructionsOf ==
  ASSUME NEW f, IsFunction(f)
  PROVE  /\ Len(f.insts) \in Nat /\ DOMAIN f.insts = 1 .. Len(f.insts)
         /\ \A k \in DOMAIN f.insts :
              /\ f.insts[k] \in Instructions
              /\ f.insts[k].dst \in 0 .. f.vregs
              /\ f.insts[k].op \in Silent => f.insts[k].dst = 0
<1> DEFINE s == f.insts
<1>1. s \in Seq(Instructions)
  BY DEF IsFunction
<1> HIDE DEF s
<1>2. Len(s) \in Nat /\ DOMAIN s = 1 .. Len(s) /\ \A k \in DOMAIN s : s[k] \in Instructions
  BY <1>1
<1>3. \A k \in DOMAIN s : s[k].dst \in 0 .. f.vregs /\ (s[k].op \in Silent => s[k].dst = 0)
  BY DEF IsFunction, WellFormed, s
<1> QED BY <1>2, <1>3 DEF s

\* The life that starts at a first definition.
LEMMA LifeCovers ==
  ASSUME NEW f, IsFunction(f), NEW k \in Births(f)
  PROVE  Life(f, k) \in LiveInterval /\ k <= Life(f, k).end /\ Covers(f, Life(f, k))
<1> DEFINE v == f.insts[k].dst
           S == {j \in DOMAIN f.insts : v \in Mentions(f.insts[j])}
           n == Len(f.insts)
<1>1. /\ n \in Nat /\ DOMAIN f.insts = 1 .. n /\ k \in 1 .. n
      /\ v # 0 /\ v \in 0 .. f.vregs /\ f.vregs \in Nat
      /\ \A j \in 1 .. k - 1 : f.insts[j].dst # v
  BY InstructionsOf DEF Births, IsFunction
<1>2. k \in S /\ S \subseteq 1 .. n
  BY <1>1 DEF Mentions
<1> HIDE DEF S
<1>3. Max(S) \in S /\ \A y \in S : y <= Max(S)
  BY <1>1, <1>2, MaxOf
<1>4. LastMention(f, v) = Max(S)
  BY DEF LastMention, S
<1>5. Life(f, k).vreg = v /\ Life(f, k).start = k /\ Life(f, k).end = Max(S)
  BY <1>4 DEF Life
<1>6. Max(S) \in Nat /\ k <= Max(S)
  <2> DEFINE m == Max(S)
  <2>1. m \in 1 .. n /\ k <= m
    BY <1>2, <1>3
  <2> HIDE DEF m
  <2>2. m \in Nat /\ k <= m
    BY <1>1, <2>1
  <2> QED BY <2>2 DEF m
<1>7. Life(f, k) \in LiveInterval
  BY <1>1, <1>4, <1>6 DEF Life, LiveInterval
<1>8. ASSUME NEW j \in DOMAIN f.insts
      PROVE  /\ f.insts[j].dst = v => k <= j
             /\ v \in Mentions(f.insts[j]) => j <= Max(S)
  <2>1. j \in 1 .. n
    BY <1>1
  <2>2. f.insts[j].dst = v => k <= j
    BY <1>1, <2>1
  <2>3. v \in Mentions(f.insts[j]) => j \in S
    BY DEF S
  <2> QED BY <1>3, <2>2, <2>3
<1>9. v \in 1 .. f.vregs
  BY <1>1
<1> HIDE DEF v
<1> QED BY <1>1, <1>5, <1>6, <1>7, <1>8, <1>9 DEF Covers, v

LEMMA IntervalsLive ==
  ASSUME NEW f, IsFunction(f)
  PROVE  AreLives(f, Intervals(f))
<1> DEFINE B == Births(f)
           c == Cardinality(B)
           s == Intervals(f)
           n == Len(f.insts)
<1>1. n \in Nat /\ DOMAIN f.insts = 1 .. n /\ B \subseteq 1 .. n
  BY InstructionsOf DEF Births
<1>2. s = [i \in 1 .. c |-> Life(f, Nth(f, i))]
  BY DEF Intervals, Life, Nth
<1>3. \A i \in 1 .. c : Nth(f, i) \in B /\ Rank(B, Nth(f, i)) = i
  <2> SUFFICES ASSUME NEW i \in 1 .. c PROVE Nth(f, i) \in B /\ Rank(B, Nth(f, i)) = i
    OBVIOUS
  <2>1. \E k \in B : Rank(B, k) = i
    BY <1>1, RankReached
  <2>2. Nth(f, i) = CHOOSE k \in B : Rank(B, k) = i
    BY DEF Nth, Rank
  <2> QED BY <2>1, <2>2
<1>4. c \in Nat /\ \A j, k \in B : j < k => Rank(B, j) < Rank(B, k)
  BY <1>1, RankGrows
<1> HIDE DEF B, c, s
<1>5. DOMAIN s = 1 .. c /\ \A i \in 1 .. c : s[i] = Life(f, Nth(f, i))
  BY <1>2
<1>6. \A i \in 1 .. c : /\ s[i] \in LiveInterval /\ Covers(f, s[i])
                        /\ s[i].start <= s[i].end
                        /\ s[i].start = Nth(f, i) /\ s[i].vreg = f.insts[Nth(f, i)].dst
  <2> SUFFICES ASSUME NEW i \in 1 .. c
               PROVE  /\ s[i] \in LiveInterval /\ Covers(f, s[i])
                      /\ s[i].start <= s[i].end
                      /\ s[i].start = Nth(f, i) /\ s[i].vreg = f.insts[Nth(f, i)].dst
    OBVIOUS
  <2>1. Nth(f, i) \in Births(f)
    BY <1>3 DEF B
  <2>2. Life(f, Nth(f, i)).start = Nth(f, i) /\ Life(f, Nth(f, i)).vreg = f.insts[Nth(f, i)].dst
    BY DEF Life
  <2> QED BY <1>5, <2>1, <2>2, LifeCovers
<1>7. s \in Seq(LiveInterval)
  BY <1>2, <1>4, <1>5, <1>6
<1>8. \A i, j \in 1 .. c : i < j => Nth(f, i) < Nth(f, j)
  <2> SUFFICES ASSUME NEW i \in 1 .. c, NEW j \in 1 .. c, i < j, ~ (Nth(f, i) < Nth(f, j))
               PROVE  FALSE
    OBVIOUS
  <2>1. Nth(f, i) \in B /\ Nth(f, j) \in B /\ Rank(B, Nth(f, i)) = i /\ Rank(B, Nth(f, j)) = j
    BY <1>3
  <2>2. Nth(f, i) \in 1 .. n /\ Nth(f, j) \in 1 .. n
    BY <1>1, <2>1
  <2>3. Nth(f, j) < Nth(f, i) \/ Nth(f, j) = Nth(f, i)
    BY <2>2
  <2>4. Nth(f, j) < Nth(f, i) => j < i
    BY <1>4, <2>1
  <2> QED BY <2>1, <2>3, <2>4
<1>9. Sorted(s)
  BY <1>5, <1>6, <1>8 DEF Sorted
<1>10. \A i, j \in 1 .. c : s[i].vreg = s[j].vreg => i = j
  <2> SUFFICES ASSUME NEW i \in 1 .. c, NEW j \in 1 .. c, s[i].vreg = s[j].vreg, i < j
               PROVE  FALSE
    OBVIOUS
  <2>1. /\ Nth(f, i) \in 1 .. Nth(f, j) - 1
        /\ Nth(f, j) \in Births(f)
    BY <1>1, <1>3, <1>8 DEF B
  <2>2. f.insts[Nth(f, i)].dst # f.insts[Nth(f, j)].dst
    BY <2>1 DEF Births
  <2> QED BY <1>6, <2>2
<1>11. ASSUME NEW k \in DOMAIN f.insts, f.insts[k].dst # 0
       PROVE  \E i \in 1 .. c : s[i].vreg = f.insts[k].dst
  <2> DEFINE v == f.insts[k].dst
             D == {j \in DOMAIN f.insts : f.insts[j].dst = v}
  <2>1. k \in D /\ D \subseteq 1 .. n
    BY <1>1
  <2>2. PICK m \in D : \A y \in D : m <= y
    BY <1>1, <2>1, MinOf
  <2>3. m \in 1 .. n /\ f.insts[m].dst = v
    BY <2>1, <2>2
  <2>4. \A j \in 1 .. m - 1 : f.insts[j].dst # v
    <3> SUFFICES ASSUME NEW j \in 1 .. m - 1, f.insts[j].dst = v PROVE FALSE
      OBVIOUS
    <3>1. j \in 1 .. n /\ ~ (m <= j)
      BY <1>1, <2>3
    <3>2. j \in D
      BY <1>1, <3>1
    <3> QED BY <2>2, <3>1, <3>2
  <2>5. m \in B
    BY <1>1, <1>11, <2>3, <2>4 DEF B, Births
  <2>6. Rank(B, m) \in 1 .. c
    BY <1>1, <2>5, RankGrows DEF c
  <2> DEFINE i == Rank(B, m)
  <2>7. Nth(f, i) \in B /\ Rank(B, Nth(f, i)) = Rank(B, m)
    BY <1>3, <2>6
  <2>8. Nth(f, i) = m
    <3>1. Nth(f, i) \in 1 .. n /\ Rank(B, m) \in Int
      BY <1>1, <2>6, <2>7
    <3>2. Nth(f, i) < m \/ m < Nth(f, i) \/ m = Nth(f, i)
      BY <2>3, <3>1
    <3>3. Nth(f, i) < m => Rank(B, m) < Rank(B, m)
      BY <1>4, <2>5, <2>7
    <3>4. m < Nth(f, i) => Rank(B, m) < Rank(B, m)
      BY <1>4, <2>5, <2>7
    <3> QED BY <3>1, <3>2, <3>3, <3>4
  <2> HIDE DEF i
  <2>9. i \in 1 .. c
    BY <2>6 DEF i
  <2> QED BY <1>6, <2>3, <2>8, <2>9
<1> QED BY <1>5, <1>6, <1>7, <1>9, <1>10, <1>11 DEF AreLives, s

-----------------------------------------------------------------------------

\* The two runs, as records of their fields.
IsMachine(m) ==
  /\ m = [rax |-> m.rax, regs |-> m.regs, frame |-> m.frame, locals |-> m.locals,
          pc |-> m.pc, status |-> m.status]
  /\ DOMAIN m.regs = Registers /\ DOMAIN m.frame = 0 .. FrameSize(slots)

IsVirtual(v) ==
  /\ v = [vregs |-> v.vregs, defined |-> v.defined, locals |-> v.locals, pc |-> v.pc]
  /\ DOMAIN v.vregs = 1 .. fn.vregs

Clean == deviations \cap {"clobbered", "undefined"} = {}

\* While no deviation was met, both runs are at the same instruction with the
\* same locals, and what is live holds its value.
InStep ==
  /\ IsMachine(mach) /\ IsVirtual(virt)
  /\ mach.pc = virt.pc /\ mach.pc \in Nat \ {0} /\ mach.locals = virt.locals
  /\ \A v \in virt.defined : \E i \in DOMAIN intervals : intervals[i].vreg = v
  /\ Forward(fn) => \A i \in DOMAIN intervals :
                      intervals[i].vreg \in virt.defined => intervals[i].start < mach.pc
  /\ \A i \in DOMAIN intervals :
       /\ intervals[i].vreg \in virt.defined
       /\ intervals[i].start < mach.pc /\ mach.pc <= intervals[i].end
       => LoadTo(mach, Home, intervals[i].vreg) = virt.vregs[intervals[i].vreg]

JoltInv ==
  /\ IsFunction(fn)
  /\ intervals = Intervals(fn)
  /\ Forward(fn) \/ Enclosed(fn)
  /\ ScanInv
  /\ stage = "run" => ~ Scanning /\ Bound(fn)
  /\ stage = "run" /\ Clean => InStep

\* The home of an interval, once all are placed.
HomeOf(i) == [reg |-> reg[i], slot |-> slot[i]]

LEMMA HomeIs ==
  ASSUME IsFunction(fn), AreLives(fn, intervals), NEW i \in DOMAIN intervals
  PROVE  Home[intervals[i].vreg] = HomeOf(i)
<1> DEFINE v == intervals[i].vreg
           at == {j \in DOMAIN intervals : intervals[j].vreg = v}
<1>1. v \in 1 .. fn.vregs
  BY DEF AreLives, Covers
<1>2. at = {i}
  BY DEF AreLives
<1>3. i \in Int
  BY DEF AreLives
<1>4. Min(at) = i
  BY <1>2, <1>3 DEF Min
<1>5. Home[v] = IF at = {} THEN [reg |-> NoReg, slot |-> NoSlot]
                ELSE [reg |-> reg[Min(at)], slot |-> slot[Min(at)]]
  BY <1>1 DEF Home
<1> HIDE DEF at
<1> QED BY <1>2, <1>4, <1>5 DEF HomeOf

\* Homes are places of the machine, and two intervals of one instruction have
\* different ones.
LEMMA HomesApart ==
  ASSUME ScanInv, ~ Scanning, NEW i \in DOMAIN intervals
  PROVE  /\ \/ reg[i] \in Registers
            \/ reg[i] = NoReg /\ slot[i] + 1 \in 1 .. FrameSize(slots)
         /\ \A j \in DOMAIN intervals : i # j /\ Overlap(i, j) =>
              /\ reg[i] # NoReg => reg[i] # reg[j]
              /\ reg[i] = NoReg /\ reg[j] = NoReg => slot[i] # slot[j]
<1>1. Placed = DOMAIN intervals
  BY Bounds DEF ScanInv, ScanTypeOK, Scanning, Placed
<1>2. /\ reg[i] \in Registers \cup {NoReg} /\ slot[i] \in Nat \cup {NoSlot} /\ slots \in Nat
      /\ slot[i] # NoSlot => slot[i] < slots
      /\ (reg[i] = NoReg) <=> (slot[i] # NoSlot)
  BY <1>1 DEF ScanInv, ScanTypeOK, SlotsBelow, HomesDisjoint
<1>3. slots \in Nat /\ slots % 2 \in 0 .. 1 => slots <= FrameSize(slots) /\ FrameSize(slots) \in Nat
  BY DEF FrameSize
<1>4. slots % 2 \in 0 .. 1
  BY <1>2
<1>5. \/ reg[i] \in Registers
      \/ reg[i] = NoReg /\ slot[i] + 1 \in 1 .. FrameSize(slots)
  <2> DEFINE size == FrameSize(slots)
  <2>1. slots <= size /\ size \in Nat
    BY <1>2, <1>3, <1>4
  <2> HIDE DEF size
  <2>2. \/ reg[i] \in Registers
        \/ reg[i] = NoReg /\ slot[i] + 1 \in 1 .. size
    BY <1>2, <2>1
  <2> QED BY <2>2 DEF size
<1>6. ASSUME NEW j \in DOMAIN intervals, i # j, Overlap(i, j)
      PROVE  /\ reg[i] # NoReg => reg[i] # reg[j]
             /\ reg[i] = NoReg /\ reg[j] = NoReg => slot[i] # slot[j]
  BY <1>1, <1>2, <1>6 DEF ScanInv, HomesDisjoint
<1> QED BY <1>5, <1>6

-----------------------------------------------------------------------------

\* What a home holds, and that another machine holds value there instead.
Held(m, h) == IF h.reg >= 0 THEN m.regs[h.reg] ELSE m.frame[h.slot + 1]

Written(m2, m, h, value) ==
  IF h.reg >= 0 THEN m2.regs = [m.regs EXCEPT ![h.reg] = value] /\ m2.frame = m.frame
  ELSE m2.frame = [m.frame EXCEPT ![h.slot + 1] = value] /\ m2.regs = m.regs

\* What an instruction that calls nothing does to the machine.
Executed(m2, f, home, m) ==
  LET inst == f.insts[m.pc]
      a == Operand(m, home, inst.src1)
      b == Operand(m, home, inst.src2)
  IN /\ m2.pc = NextPc(f, m.pc, a)
     /\ m2.locals = IF inst.op = "StoreLocal" THEN [m.locals EXCEPT ![inst.payload] = a]
                    ELSE m.locals
     /\ inst.dst = 0 => m2.regs = m.regs /\ m2.frame = m.frame
     /\ inst.dst # 0 => Written(m2, m, home[inst.dst], Result(inst, a, b, m.locals))

LEMMA ExecuteOf ==
  ASSUME NEW m, IsMachine(m), NEW f, NEW home, ~ Clobbers(f, home, m),
         f.insts[m.pc].op \in Silent => f.insts[m.pc].dst = 0
  PROVE  IsMachine(Execute(f, home, m)) /\ Executed(Execute(f, home, m), f, home, m)
<1> DEFINE inst == f.insts[m.pc]
           op == inst.op
           dst == inst.dst
           a == Operand(m, home, inst.src1)
           b == Operand(m, home, inst.src2)
           value == Result(inst, a, b, m.locals)
           target == NextPc(f, m.pc, a)
           at == [m EXCEPT !.pc = target]
           new == Execute(f, home, m)
           h == home[dst]
<1>1. Clobbered(m, inst, b) = m
  BY DEF Clobbers, Clobbered
<1>2. op \in Silent => dst = 0
  OBVIOUS
<1>3. new = CASE op \in {"Label", "Jump", "StoreVar"} -> at
              [] op = "Halt" -> [at EXCEPT !.status = "halted"]
              [] op = "Return" -> [at EXCEPT !.rax = a, !.status = "returned"]
              [] op \in {"BranchIfFalse", "BranchIfTrue"} -> [at EXCEPT !.rax = a]
              [] op = "StoreLocal" -> [at EXCEPT !.rax = a, !.locals[inst.payload] = a]
              [] dst = 0 /\ op \notin Silent -> [at EXCEPT !.rax = 0]
              [] OTHER -> StoreFrom(at, home, dst, value)
  BY <1>1 DEF Execute
<1>4. /\ m = [rax |-> m.rax, regs |-> m.regs, frame |-> m.frame, locals |-> m.locals,
              pc |-> m.pc, status |-> m.status]
      /\ DOMAIN m.regs = Registers /\ DOMAIN m.frame = 0 .. FrameSize(slots)
  BY DEF IsMachine
<1>5. StoreFrom(at, home, dst, value) =
        IF h.reg >= 0 THEN [at EXCEPT !.rax = value, !.regs[h.reg] = value]
        ELSE [at EXCEPT !.rax = value, !.frame[h.slot + 1] = value]
  BY DEF StoreFrom
<1> HIDE DEF new, value, target, a, b, h, op, dst
<1>6. at = [rax |-> m.rax, regs |-> m.regs, frame |-> m.frame, locals |-> m.locals,
            pc |-> target, status |-> m.status]
  BY <1>4
<1> HIDE DEF at
<1>7. CASE op \in Silent
  <2>1. dst = 0
    BY <1>2, <1>7
  <2>2. /\ new = [rax |-> new.rax, regs |-> new.regs, frame |-> new.frame,
                  locals |-> new.locals, pc |-> new.pc, status |-> new.status]
        /\ new.regs = m.regs /\ new.frame = m.frame /\ new.pc = target
        /\ new.locals = IF op = "StoreLocal" THEN [m.locals EXCEPT ![inst.payload] = a]
                        ELSE m.locals
    BY <1>3, <1>6, <1>7 DEF Silent, Transfers
  <2> QED BY <1>4, <2>1, <2>2 DEF IsMachine, Executed, new, target, a, op, dst
<1>8. CASE op \notin Silent /\ dst = 0
  <2>1. new = [at EXCEPT !.rax = 0]
    BY <1>3, <1>8 DEF Silent, Transfers
  <2>2. /\ new = [rax |-> new.rax, regs |-> new.regs, frame |-> new.frame,
                  locals |-> new.locals, pc |-> new.pc, status |-> new.status]
        /\ new.regs = m.regs /\ new.frame = m.frame /\ new.pc = target
        /\ new.locals = m.locals
    BY <1>6, <2>1
  <2>3. op # "StoreLocal"
    BY <1>8 DEF Silent
  <2> QED BY <1>4, <1>8, <2>2, <2>3 DEF IsMachine, Executed, new, target, a, op, dst
<1>9. CASE op \notin Silent /\ dst # 0
  <2>1. new = StoreFrom(at, home, dst, value)
    BY <1>3, <1>9 DEF Silent, Transfers
  <2>2. /\ new = [rax |-> new.rax, regs |-> new.regs, frame |-> new.frame,
                  locals |-> new.locals, pc |-> new.pc, status |-> new.status]
        /\ new.pc = target /\ new.locals = m.locals
        /\ h.reg >= 0 => new.regs = [m.regs EXCEPT ![h.reg] = value] /\ new.frame = m.frame
        /\ ~ (h.reg >= 0) => /\ new.frame = [m.frame EXCEPT ![h.slot + 1] = value]
                             /\ new.regs = m.regs
    BY <1>5, <1>6, <2>1
  <2>3. Written(new, m, h, value)
    BY <2>2 DEF Written
  <2>4. DOMAIN new.regs = Registers /\ DOMAIN new.frame = 0 .. FrameSize(slots)
    BY <1>4, <2>2
  <2>5. op # "StoreLocal"
    BY <1>9 DEF Silent
  <2> QED BY <1>9, <2>2, <2>3, <2>4, <2>5
          DEF IsMachine, Executed, new, target, a, b, value, h, op, dst
<1> QED BY <1>7, <1>8, <1>9

\* The same instruction over virtual registers.
ExecutedVirtual(new, v, f) ==
  LET inst == f.insts[v.pc]
      a == IF inst.src1 = 0 THEN Junk ELSE v.vregs[inst.src1]
      b == IF inst.src2 = 0 THEN Junk ELSE v.vregs[inst.src2]
  IN /\ new.pc = NextPc(f, v.pc, a)
     /\ new.locals = IF inst.op = "StoreLocal" THEN [v.locals EXCEPT ![inst.payload] = a]
                     ELSE v.locals
     /\ inst.dst = 0 => new.vregs = v.vregs /\ new.defined = v.defined
     /\ inst.dst # 0 =>
          /\ new.vregs = [v.vregs EXCEPT ![inst.dst] = Result(inst, a, b, v.locals)]
          /\ new.defined = v.defined \cup {inst.dst}

LEMMA ExecuteVirtualOf ==
  ASSUME NEW v, IsVirtual(v), NEW f,
         f.insts[v.pc].op \in Silent => f.insts[v.pc].dst = 0
  PROVE  IsVirtual(ExecuteVirtual(f, v)) /\ ExecutedVirtual(ExecuteVirtual(f, v), v, f)
<1> DEFINE inst == f.insts[v.pc]
           op == inst.op
           dst == inst.dst
           a == IF inst.src1 = 0 THEN Junk ELSE v.vregs[inst.src1]
           b == IF inst.src2 = 0 THEN Junk ELSE v.vregs[inst.src2]
           value == Result(inst, a, b, v.locals)
           target == NextPc(f, v.pc, a)
           at == [v EXCEPT !.pc = target]
           new == ExecuteVirtual(f, v)
<1>2. op = "StoreLocal" => dst = 0
  BY DEF Silent
<1>3. new = CASE op = "StoreLocal" -> [at EXCEPT !.locals[inst.payload] = a]
              [] dst # 0 -> [at EXCEPT !.vregs[dst] = value, !.defined = @ \cup {dst}]
              [] OTHER -> at
  BY DEF ExecuteVirtual
<1>4. /\ v = [vregs |-> v.vregs, defined |-> v.defined, locals |-> v.locals, pc |-> v.pc]
      /\ DOMAIN v.vregs = 1 .. fn.vregs
  BY DEF IsVirtual
<1> HIDE DEF new, value, target, a, b, op, dst
<1>6. at = [vregs |-> v.vregs, defined |-> v.defined, locals |-> v.locals, pc |-> target]
  BY <1>4
<1> HIDE DEF at
<1>7. /\ new = [vregs |-> new.vregs, defined |-> new.defined, locals |-> new.locals,
                pc |-> new.pc]
      /\ new.pc = target
      /\ new.locals = IF op = "StoreLocal" THEN [v.locals EXCEPT ![inst.payload] = a]
                      ELSE v.locals
      /\ dst = 0 => new.vregs = v.vregs /\ new.defined = v.defined
      /\ dst # 0 => /\ new.vregs = [v.vregs EXCEPT ![dst] = value]
                    /\ new.defined = v.defined \cup {dst}
  BY <1>2, <1>3, <1>6
<1>8. DOMAIN new.vregs = 1 .. fn.vregs
  BY <1>4, <1>7
<1> QED BY <1>7, <1>8 DEF IsVirtual, ExecutedVirtual, new, value, target, a, b, op, dst

-----------------------------------------------------------------------------

\* What compile emits reads from homes what the instruction reads from virtual
\* registers.
LEMMA OperandsAgree ==
  ASSUME IsFunction(fn), AreLives(fn, intervals), intervals = Intervals(fn),
         Forward(fn) \/ Enclosed(fn), InStep, mach.pc \in DOMAIN fn.insts,
         ~ ReadsUndefined(fn, virt),
         NEW v \in {fn.insts[mach.pc].src1, fn.insts[mach.pc].src2}
  PROVE  Operand(mach, Home, v) = IF v = 0 THEN Junk ELSE virt.vregs[v]
<1>1. CASE v = 0
  BY <1>1 DEF Operand
<1>2. CASE v # 0
  <2>1. v \in virt.defined
    BY <1>2 DEF InStep, ReadsUndefined
  <2>2. PICK i \in DOMAIN intervals : intervals[i].vreg = v
    BY <2>1 DEF InStep
  <2>3. Covers(fn, intervals[i])
    BY DEF AreLives
  <2>4. mach.pc <= intervals[i].end
    BY <1>2, <2>2, <2>3 DEF Covers, Mentions
  <2>5. intervals[i].start < mach.pc
    <3>1. CASE Forward(fn)
      BY <2>1, <2>2, <3>1 DEF InStep
    <3>2. CASE Enclosed(fn)
      <4>1. PICK j \in 1 .. mach.pc - 1 : fn.insts[j].dst = v
        BY <1>2, <3>2 DEF Enclosed
      <4>2. mach.pc \in 1 .. Len(fn.insts) /\ Len(fn.insts) \in Nat /\ DOMAIN fn.insts = 1 .. Len(fn.insts)
        BY InstructionsOf
      <4>3. j \in DOMAIN fn.insts /\ j < mach.pc
        BY <4>2
      <4>4. intervals[i].start <= j /\ intervals[i].start \in DOMAIN fn.insts
        BY <2>2, <2>3, <4>1, <4>3 DEF Covers
      <4> QED BY <4>2, <4>3, <4>4
    <3> QED BY <3>1, <3>2
  <2>6. LoadTo(mach, Home, v) = virt.vregs[v]
    BY <2>1, <2>2, <2>4, <2>5 DEF InStep
  <2> QED BY <1>2, <2>6 DEF Operand
<1> QED BY <1>1, <1>2

\* Control goes on, or through a jump that defines nothing.
LEMMA NextPcIs ==
  ASSUME NEW f, IsFunction(f), Bound(f), NEW k \in DOMAIN f.insts, NEW a, NEW t,
         t = NextPc(f, k, a)
  PROVE  \/ t = k + 1
         \/ t \in DOMAIN f.insts /\ Leads(f, k, t) /\ f.insts[k].dst = 0
<1>1. CASE f.insts[k].op \in Transfers
  <2>1. \E j \in DOMAIN f.insts :
          f.insts[j].op = "Label" /\ f.insts[j].payload = f.insts[k].payload
    BY <1>1 DEF Bound
  <2> DEFINE l == LabelIndex(f, f.insts[k].payload)
  <2>2. /\ l \in DOMAIN f.insts /\ f.insts[l].op = "Label"
        /\ f.insts[l].payload = f.insts[k].payload
    BY <2>1 DEF LabelIndex
  <2>3. f.insts[k].dst = 0
    BY <1>1, InstructionsOf DEF Silent
  <2>4. t = l \/ t = k + 1
    BY DEF NextPc
  <2> QED BY <1>1, <2>2, <2>3, <2>4 DEF Leads
<1>2. CASE f.insts[k].op \notin Transfers
  BY <1>2 DEF NextPc, Transfers
<1> QED BY <1>1, <1>2

\* A life that control is in after the instruction and that the instruction
\* did not begin, it was in before.
LEMMA LifeGoesOn ==
  ASSUME IsFunction(fn), AreLives(fn, intervals), intervals = Intervals(fn),
         Forward(fn) \/ Enclosed(fn), NEW k \in DOMAIN fn.insts, NEW t,
         \/ t = k + 1
         \/ t \in DOMAIN fn.insts /\ Leads(fn, k, t),
         NEW i \in DOMAIN intervals, intervals[i].start < t, t <= intervals[i].end,
         fn.insts[k].dst # intervals[i].vreg,
         Forward(fn) => intervals[i].start < k
  PROVE  intervals[i].start < k /\ k <= intervals[i].end
<1>1. /\ k \in Nat /\ intervals[i].start \in Nat /\ intervals[i].end \in Nat
      /\ DOMAIN fn.insts = 1 .. Len(fn.insts) /\ Len(fn.insts) \in Nat
      /\ fn.insts[intervals[i].start].dst = intervals[i].vreg
  BY InstructionsOf, Bounds DEF AreLives, Covers
<1>2. CASE t = k + 1
  BY <1>1, <1>2
<1>3. CASE t \in DOMAIN fn.insts /\ Leads(fn, k, t)
  <2>1. CASE Forward(fn)
    <3>1. t \notin 1 .. k
      BY <1>3, <2>1 DEF Forward
    <3>2. intervals[i].start < k
      BY <2>1
    <3> QED BY <1>1, <1>3, <3>1, <3>2
  <2>2. CASE Enclosed(fn)
    <3>1. t \in intervals[i].start + 1 .. intervals[i].end
      BY <1>1, <1>3
    <3>2. k \in intervals[i].start + 1 .. intervals[i].end
      BY <1>3, <2>2, <3>1 DEF Enclosed
    <3> QED BY <1>1, <3>2
  <2> QED BY <2>1, <2>2
<1> QED BY <1>2, <1>3

\* A value written to its home is found there, and at no other home.
LEMMA WrittenHeld ==
  ASSUME ScanInv, ~ Scanning, NEW m, IsMachine(m), NEW m2, NEW value,
         NEW i \in DOMAIN intervals, Written(m2, m, HomeOf(i), value)
  PROVE  /\ Held(m2, HomeOf(i)) = value
         /\ \A j \in DOMAIN intervals : j # i /\ Overlap(j, i) =>
              Held(m2, HomeOf(j)) = Held(m, HomeOf(j))
<1>1. /\ DOMAIN m.regs = Registers /\ DOMAIN m.frame = 0 .. FrameSize(slots)
      /\ \A r \in Registers : r >= 0 /\ ~ (NoReg >= 0)
  BY DEF IsMachine, Registers, NoReg
<1> DEFINE size == FrameSize(slots)
<1>2. \A j \in DOMAIN intervals : \/ reg[j] \in Registers
                                  \/ reg[j] = NoReg /\ slot[j] + 1 \in 1 .. size
  BY HomesApart
<1>3. \A j \in DOMAIN intervals : j # i /\ Overlap(j, i) =>
        /\ reg[j] # NoReg => reg[j] # reg[i]
        /\ reg[j] = NoReg /\ reg[i] = NoReg => slot[j] # slot[i]
  BY HomesApart
<1>4. \A j : HomeOf(j).reg = reg[j] /\ HomeOf(j).slot = slot[j]
  BY DEF HomeOf
<1>5. \A j : /\ Held(m2, HomeOf(j)) = IF reg[j] >= 0 THEN m2.regs[reg[j]] ELSE m2.frame[slot[j] + 1]
             /\ Held(m, HomeOf(j)) = IF reg[j] >= 0 THEN m.regs[reg[j]] ELSE m.frame[slot[j] + 1]
  BY <1>4 DEF Held
<1>6. \A j \in DOMAIN intervals : slot[j] \in Int
  <2>1. DOMAIN intervals = 1 .. Len(intervals)
    BY DEF ScanInv, ScanTypeOK
  <2>2. \A j \in DOMAIN intervals : slot[j] \in Nat \cup {NoSlot}
    BY <2>1 DEF ScanInv, ScanTypeOK
  <2> QED BY <2>2 DEF NoSlot
<1>7. DOMAIN m.frame = 0 .. size
  BY <1>1
<1>8. size \in Nat
  <2>1. slots \in Nat /\ slots % 2 \in 0 .. 1
    BY DEF ScanInv, ScanTypeOK
  <2> QED BY <2>1 DEF FrameSize
<1> HIDE DEF size
<1>9. \A c \in 1 .. size : c \in DOMAIN m.frame
  BY <1>7, <1>8
<1>10. CASE reg[i] >= 0
  <2>1. m2.regs = [m.regs EXCEPT ![reg[i]] = value] /\ m2.frame = m.frame
    BY <1>4, <1>10 DEF Written
  <2>2. reg[i] \in DOMAIN m.regs
    <3>1. reg[i] # NoReg
      BY <1>10 DEF NoReg
    <3> QED BY <1>1, <1>2, <3>1
  <2>3. Held(m2, HomeOf(i)) = value
    BY <1>5, <1>10, <2>1, <2>2
  <2>4. ASSUME NEW j \in DOMAIN intervals, j # i, Overlap(j, i)
        PROVE  Held(m2, HomeOf(j)) = Held(m, HomeOf(j))
    <3>1. CASE reg[j] = NoReg
      BY <1>1, <1>5, <2>1, <3>1
    <3>2. CASE reg[j] # NoReg
      <4>1. reg[j] # reg[i] /\ reg[j] \in DOMAIN m.regs /\ reg[j] >= 0
        BY <1>1, <1>2, <1>3, <2>4, <3>2
      <4> QED BY <1>5, <2>1, <4>1
    <3> QED BY <3>1, <3>2
  <2> QED BY <2>3, <2>4
<1>11. CASE ~ (reg[i] >= 0)
  <2>1. m2.frame = [m.frame EXCEPT ![slot[i] + 1] = value] /\ m2.regs = m.regs
    BY <1>4, <1>11 DEF Written
  <2>2. slot[i] + 1 \in DOMAIN m.frame /\ reg[i] = NoReg
    BY <1>1, <1>2, <1>9, <1>11
  <2>3. Held(m2, HomeOf(i)) = value
    BY <1>5, <1>11, <2>1, <2>2
  <2>4. ASSUME NEW j \in DOMAIN intervals, j # i, Overlap(j, i)
        PROVE  Held(m2, HomeOf(j)) = Held(m, HomeOf(j))
    <3>1. CASE reg[j] = NoReg
      <4>1. slot[j] # slot[i] /\ slot[j] \in Int /\ slot[i] \in Int
        BY <1>3, <1>6, <2>2, <2>4, <3>1
      <4>2. slot[j] + 1 # slot[i] + 1 /\ slot[j] + 1 \in DOMAIN m.frame
        BY <1>1, <1>2, <1>9, <3>1, <4>1
      <4> QED BY <1>1, <1>5, <2>1, <3>1, <4>2
    <3>2. CASE reg[j] # NoReg
      <4>1. reg[j] >= 0
        BY <1>1, <1>2, <3>2
      <4> QED BY <1>5, <2>1, <4>1
    <3> QED BY <3>1, <3>2
  <2> QED BY <2>3, <2>4
<1> QED BY <1>10, <1>11

\* One instruction keeps the two runs in step.
LEMMA StepKeeps ==
  ASSUME JoltInv, AreLives(fn, intervals), Step, Clean'
  PROVE  InStep'
<1> DEFINE inst == fn.insts[mach.pc]
           dst == inst.dst
           a == Operand(mach, Home, inst.src1)
           b == Operand(mach, Home, inst.src2)
           value == Result(inst, a, b, mach.locals)
<1>1. /\ stage = "run" /\ ~ Ends(fn, mach)
      /\ mach' = Execute(fn, Home, mach) /\ virt' = ExecuteVirtual(fn, virt)
      /\ deviations' = deviations \cup
           (IF Clobbers(fn, Home, mach) THEN {"clobbered"} ELSE {}) \cup
           (IF ReadsUndefined(fn, virt) THEN {"undefined"} ELSE {})
      /\ UNCHANGED <<stage, fn, intervals, next, active, used, reg, slot, slots>>
  BY DEF Step, codeVars, scanVars
<1>2. Clean /\ ~ Clobbers(fn, Home, mach) /\ ~ ReadsUndefined(fn, virt)
  BY <1>1 DEF Clean
<1>3. /\ IsFunction(fn) /\ intervals = Intervals(fn) /\ (Forward(fn) \/ Enclosed(fn))
      /\ ScanInv /\ ~ Scanning /\ Bound(fn) /\ InStep
  BY <1>1, <1>2 DEF JoltInv
<1>4. mach.pc \in DOMAIN fn.insts
  <2>1. Len(fn.insts) \in Nat /\ DOMAIN fn.insts = 1 .. Len(fn.insts)
    BY <1>3, InstructionsOf
  <2>2. mach.pc \in Nat \ {0} /\ ~ (mach.pc > Len(fn.insts))
    BY <1>1, <1>3 DEF InStep, Ends
  <2> QED BY <2>1, <2>2
<1>5. inst.op \in Silent => inst.dst = 0
  BY <1>3, <1>4, InstructionsOf
<1>6. IsMachine(mach') /\ Executed(mach', fn, Home, mach)
  BY <1>1, <1>2, <1>3, <1>5, ExecuteOf DEF InStep
<1>7. IsVirtual(virt') /\ ExecutedVirtual(virt', virt, fn)
  BY <1>1, <1>3, <1>5, ExecuteVirtualOf DEF InStep
<1>8. /\ virt.pc = mach.pc /\ virt.locals = mach.locals
      /\ IsVirtual(virt) /\ IsMachine(mach)
  BY <1>3 DEF InStep
<1>9. /\ a = IF inst.src1 = 0 THEN Junk ELSE virt.vregs[inst.src1]
      /\ b = IF inst.src2 = 0 THEN Junk ELSE virt.vregs[inst.src2]
  BY <1>2, <1>3, <1>4, OperandsAgree
<1>10. /\ mach'.pc = NextPc(fn, mach.pc, a) /\ virt'.pc = mach'.pc
       /\ virt'.locals = mach'.locals
       /\ dst = 0 => /\ mach'.regs = mach.regs /\ mach'.frame = mach.frame
                     /\ virt'.vregs = virt.vregs /\ virt'.defined = virt.defined
       /\ dst # 0 => /\ Written(mach', mach, Home[dst], value)
                     /\ virt'.vregs = [virt.vregs EXCEPT ![dst] = value]
                     /\ virt'.defined = virt.defined \cup {dst}
  BY <1>6, <1>7, <1>8, <1>9 DEF Executed, ExecutedVirtual
<1> HIDE DEF value, a, b
<1>11. \/ mach'.pc = mach.pc + 1
       \/ mach'.pc \in DOMAIN fn.insts /\ Leads(fn, mach.pc, mach'.pc) /\ dst = 0
  BY <1>3, <1>4, <1>10, NextPcIs
<1>12. /\ Len(fn.insts) \in Nat /\ DOMAIN fn.insts = 1 .. Len(fn.insts)
       /\ mach.pc \in Nat \ {0} /\ dst \in 0 .. fn.vregs /\ fn.vregs \in Nat
  BY <1>3, <1>4, InstructionsOf DEF IsFunction
<1>13. mach'.pc \in Nat \ {0}
  BY <1>11, <1>12
<1>14. dst # 0 => \E j \in DOMAIN intervals : intervals[j].vreg = dst
  BY <1>4 DEF AreLives
<1>15. \A v \in virt'.defined : \E i \in DOMAIN intervals : intervals[i].vreg = v
  <2>1. \A v \in virt.defined : \E i \in DOMAIN intervals : intervals[i].vreg = v
    BY <1>3 DEF InStep
  <2> QED BY <1>10, <1>14, <2>1
<1>16. ASSUME Forward(fn), NEW i \in DOMAIN intervals, intervals[i].vreg \in virt'.defined
       PROVE  intervals[i].start < mach'.pc
  <2>1. mach.pc < mach'.pc
    <3>1. mach'.pc \in DOMAIN fn.insts /\ Leads(fn, mach.pc, mach'.pc) => mach'.pc \notin 1 .. mach.pc
      BY <1>4, <1>16 DEF Forward
    <3> QED BY <1>11, <1>12, <1>13, <3>1
  <2>2. intervals[i].start \in Nat
    BY <1>3, Bounds DEF AreLives
  <2>3. CASE intervals[i].vreg \in virt.defined
    <3>1. intervals[i].start < mach.pc
      BY <1>3, <1>16, <2>3 DEF InStep
    <3> QED BY <1>12, <1>13, <2>1, <2>2, <3>1
  <2>4. CASE intervals[i].vreg \notin virt.defined
    <3>1. intervals[i].vreg = dst /\ dst # 0
      BY <1>10, <1>16, <2>4
    <3>2. intervals[i].start <= mach.pc
      BY <1>4, <3>1 DEF AreLives, Covers
    <3> QED BY <1>12, <1>13, <2>1, <2>2, <3>2
  <2> QED BY <2>3, <2>4
<1>17. ASSUME NEW i \in DOMAIN intervals, intervals[i].vreg \in virt'.defined,
              intervals[i].start < mach'.pc, mach'.pc <= intervals[i].end
       PROVE  LoadTo(mach', Home, intervals[i].vreg) = virt'.vregs[intervals[i].vreg]
  <2> DEFINE v == intervals[i].vreg
  <2>1. Home[v] = HomeOf(i) /\ v \in 1 .. fn.vregs
    BY <1>3, HomeIs DEF AreLives, Covers
  <2>2. LoadTo(mach', Home, v) = Held(mach', HomeOf(i)) /\ LoadTo(mach, Home, v) = Held(mach, HomeOf(i))
    BY <2>1 DEF LoadTo, Held
  <2>3. DOMAIN virt.vregs = 1 .. fn.vregs
    BY <1>8 DEF IsVirtual
  <2>4. CASE dst = v
    <3>1. dst # 0
      BY <1>12, <2>1, <2>4
    <3>2. Written(mach', mach, HomeOf(i), value)
      BY <1>10, <2>1, <2>4, <3>1
    <3>3. Held(mach', HomeOf(i)) = value
      BY <1>3, <1>8, <3>2, WrittenHeld
    <3>4. virt'.vregs[v] = value
      BY <1>10, <2>1, <2>3, <2>4, <3>1
    <3> QED BY <2>2, <3>3, <3>4
  <2>5. CASE dst # v
    <3>1. v \in virt.defined
      BY <1>10, <1>17, <2>5
    <3>2. intervals[i].start < mach.pc /\ mach.pc <= intervals[i].end
      <4>1. Forward(fn) => intervals[i].start < mach.pc
        BY <1>3, <3>1 DEF InStep
      <4> QED BY <1>3, <1>4, <1>11, <1>17, <2>5, <4>1, LifeGoesOn
    <3>3. Held(mach, HomeOf(i)) = virt.vregs[v]
      BY <1>3, <2>2, <3>1, <3>2 DEF InStep
    <3>4. virt'.vregs[v] = virt.vregs[v]
      BY <1>10, <2>1, <2>3, <2>5
    <3>5. Held(mach', HomeOf(i)) = Held(mach, HomeOf(i))
      <4>1. CASE dst = 0
        BY <1>10, <4>1 DEF Held
      <4>2. CASE dst # 0
        <5>1. PICK j \in DOMAIN intervals : intervals[j].vreg = dst
          BY <1>14, <4>2
        <5>2. Home[dst] = HomeOf(j) /\ j # i
          BY <1>3, <2>5, <5>1, HomeIs
        <5>3. intervals[j].start <= mach.pc /\ mach.pc <= intervals[j].end
          <6>1. Covers(fn, intervals[j])
            BY DEF AreLives
          <6>2. dst \in Mentions(inst)
            BY <4>2 DEF Mentions
          <6> QED BY <1>4, <5>1, <6>1, <6>2 DEF Covers
        <5>4. /\ intervals[i].start \in Nat /\ intervals[i].end \in Nat
              /\ intervals[j].start \in Nat /\ intervals[j].end \in Nat
          BY Bounds DEF AreLives
        <5>5. Overlap(i, j)
          BY <1>12, <3>2, <5>3, <5>4 DEF Overlap
        <5>6. Written(mach', mach, HomeOf(j), value)
          BY <1>10, <4>2, <5>2
        <5> QED BY <1>3, <1>8, <5>2, <5>5, <5>6, WrittenHeld
      <4> QED BY <4>1, <4>2
    <3> QED BY <2>2, <3>3, <3>4, <3>5
  <2> QED BY <2>4, <2>5
<1>18. Home' = Home
  BY <1>1 DEF Home
<1>19. IsMachine(mach)' /\ IsVirtual(virt)'
  BY <1>1, <1>6, <1>7 DEF IsMachine, IsVirtual, Registers
<1>20. \A i \in DOMAIN intervals :
         intervals[i].vreg \in virt'.defined /\ intervals[i].start < mach'.pc
           /\ mach'.pc <= intervals[i].end
         => LoadTo(mach', Home, intervals[i].vreg) = virt'.vregs[intervals[i].vreg]
  BY <1>17
<1>21. Forward(fn) => \A i \in DOMAIN intervals :
                         intervals[i].vreg \in virt'.defined => intervals[i].start < mach'.pc
  BY <1>16
<1>22. mach'.pc = virt'.pc /\ mach'.locals = virt'.locals
  BY <1>10
<1>23. fn' = fn /\ intervals' = intervals
  BY <1>1
<1> QED BY <1>13, <1>15, <1>18, <1>19, <1>20, <1>21, <1>22, <1>23 DEF InStep


\* The prologue: nothing is defined yet.
LEMMA EnterKeeps ==
  ASSUME JoltInv, NEW maxLocals \in Nat, Enter(maxLocals)
  PROVE  InStep'
<1>1. /\ mach' = Prologue(NumRegs, slots, maxLocals)
      /\ virt' = [vregs |-> [v \in 1 .. fn.vregs |-> Junk], defined |-> {},
                  locals |-> [s \in 0 .. maxLocals - 1 |-> 0], pc |-> 1]
      /\ UNCHANGED <<fn, intervals, next, active, used, reg, slot, slots>>
  BY DEF Enter, codeVars, scanVars
<1>2. IsMachine(mach)'
  <2> HIDE DEF FrameSize
  <2> QED BY <1>1 DEF IsMachine, Prologue, Registers
<1>3. IsVirtual(virt)'
  BY <1>1 DEF IsVirtual
<1>4. mach'.pc = 1 /\ virt'.pc = 1 /\ mach'.locals = virt'.locals /\ virt'.defined = {}
  BY <1>1 DEF Prologue
<1> QED BY <1>2, <1>3, <1>4 DEF InStep

LEMMA JoltInvInit ==
  ASSUME JoltInit
  PROVE  JoltInv
<1>1. PICK insts \in Seq(Instructions), vregs \in Nat : fn = Tier1Function(insts, vregs)
  BY DEF JoltInit
<1>2. IsFunction(fn)
  BY <1>1 DEF JoltInit, IsFunction, Tier1Function
<1>3. AreLives(fn, Intervals(fn))
  BY <1>2, IntervalsLive
<1>4. ScanInit
  BY <1>3 DEF JoltInit, ScanInit, AreLives
<1>5. ScanInv
  BY <1>4, ScanInvInit
<1>6. stage = "scan" /\ intervals = Intervals(fn) /\ (Forward(fn) \/ Enclosed(fn))
  BY DEF JoltInit, BeginScan
<1> QED BY <1>2, <1>5, <1>6 DEF JoltInv

LEMMA JoltInvStep ==
  ASSUME JoltInv, [JoltNext]_joltVars
  PROVE  JoltInv'
<1>1. CASE Place
  <2>1. ScanInv'
    BY <1>1, ScanInvStep DEF JoltInv, Place
  <2>2. stage' = "scan" /\ fn' = fn /\ intervals' = intervals
    BY <1>1 DEF Place, PlaceInterval, TakeRegister, StealRegister, Spill
  <2> QED BY <2>1, <2>2 DEF JoltInv
<1>2. CASE Reject
  <2>1. stage' = "done" /\ fn' = fn /\ UNCHANGED scanVars
    BY <1>2 DEF Reject, codeVars
  <2>2. ScanInv'
    BY <2>1, ScanInvStep DEF JoltInv
  <2>3. intervals' = intervals
    BY <2>1 DEF scanVars
  <2> QED BY <2>1, <2>2, <2>3 DEF JoltInv
<1>3. ASSUME NEW maxLocals \in Nat, Enter(maxLocals)
      PROVE  JoltInv'
  <2>1. fn' = fn /\ UNCHANGED scanVars /\ ~ Scanning /\ Bound(fn)
    BY <1>3 DEF Enter, codeVars, Scanned
  <2>2. ScanInv'
    BY <2>1, ScanInvStep DEF JoltInv
  <2>3. intervals' = intervals /\ next' = next
    BY <2>1 DEF scanVars
  <2>4. InStep'
    BY <1>3, EnterKeeps
  <2> QED BY <2>1, <2>2, <2>3, <2>4 DEF JoltInv, Scanning
<1>4. CASE Step
  <2>1. stage = "run" /\ stage' = stage /\ fn' = fn /\ UNCHANGED scanVars
    BY <1>4 DEF Step, codeVars
  <2>2. ScanInv'
    BY <2>1, ScanInvStep DEF JoltInv
  <2>3. intervals' = intervals /\ next' = next
    BY <2>1 DEF scanVars
  <2>4. AreLives(fn, intervals)
    BY IntervalsLive DEF JoltInv
  <2>5. Clean' => InStep'
    BY <1>4, <2>4, StepKeeps
  <2> QED BY <2>1, <2>2, <2>3, <2>5 DEF JoltInv, Scanning
<1>5. CASE UNCHANGED joltVars
  <2>1. /\ UNCHANGED <<stage, fn, mach, virt, deviations>>
        /\ UNCHANGED scanVars
    BY <1>5 DEF joltVars, codeVars, runVars
  <2>2. ScanInv'
    BY <2>1, ScanInvStep DEF JoltInv
  <2>3. UNCHANGED <<intervals, next, active, used, reg, slot, slots>>
    BY <2>1 DEF scanVars
  <2>4. Clean' = Clean /\ InStep' = InStep /\ Scanning' = Scanning
    BY <2>1, <2>3 DEF Clean, InStep, IsMachine, IsVirtual, Home, Scanning
  <2> QED BY <2>1, <2>2, <2>3, <2>4 DEF JoltInv
<1> QED BY <1>1, <1>2, <1>3, <1>4, <1>5 DEF JoltNext

\* For any function whose jumps either lead forward or enter no life from
\* outside, with any number of registers: while linear_scan and compile run it,
\* each home holds the value of its virtual register from its definition to its
\* last use, whatever was stolen or spilled (tier1.cpp:19-137 and the code of
\* each instruction), until a Pow calls libc or a register is read undefined.
THEOREM HomesHoldValuesSafe == JoltSpec => []HomesHoldValues
<1>1. JoltInit => JoltInv
  BY JoltInvInit
<1>2. JoltInv /\ [JoltNext]_joltVars => JoltInv'
  BY JoltInvStep
<1>3. JoltInv => HomesHoldValues
  BY DEF JoltInv, Clean, InStep, HomesHoldValues
<1> QED BY <1>1, <1>2, <1>3, PTL DEF JoltSpec

-----------------------------------------------------------------------------

\* Induction over the naturals, for a set: what holds 0 and, with a number, the
\* next one holds them all.
LEMMA Counting ==
  ASSUME NEW F, 0 \in F, \A n \in Nat : n \in F => n + 1 \in F
  PROVE  Nat \subseteq F
<1> SUFFICES ASSUME Nat \ F # {} PROVE FALSE
  OBVIOUS
<1>1. \E m \in Nat \ F : \A k \in Nat \ F : ~ (<<k, m>> \in OpToRel(<, Nat))
  BY NatLessThanWellFounded, WFMin
<1>2. \A k, m \in Nat : k < m => <<k, m>> \in OpToRel(<, Nat)
  BY DEF OpToRel
<1>3. PICK m \in Nat \ F : \A k \in Nat \ F : ~ (k < m)
  BY <1>1, <1>2
<1>4. m - 1 \in Nat /\ m - 1 < m
  BY <1>3
<1>5. m - 1 \in F
  BY <1>3, <1>4
<1> QED BY <1>3, <1>4, <1>5

\* One step of the loops of Spark, of run, of pop_vreg and of BuildList.
Walk(loop, x, s, k) ==
  CASE loop = "Spark" -> Visited(x, s, k)
    [] loop = "run" -> LowerAt(x, s, k)
    [] loop = "pops" -> Popped(s)
    [] loop = "list" -> Appended(s, x)

\* The states s, f[1], ... f[n] such a loop goes through.
IsWalk(loop, x, s, n, f) ==
  /\ f[0] = s
  /\ \A k \in 1 .. n : f[k] = Walk(loop, x, f[k - 1], k)

\* A loop of n steps has its states.
LEMMA WalkExists ==
  ASSUME NEW loop, NEW x, NEW s, NEW n \in Nat
  PROVE  \E f : IsWalk(loop, x, s, n, f)
<1> DEFINE Fits == {k \in Nat : \E f : IsWalk(loop, x, s, k, f)}
<1>1. 0 \in Fits
  <2>1. IsWalk(loop, x, s, 0, [k \in 0 .. 0 |-> s])
    BY DEF IsWalk
  <2> QED BY <2>1
<1>2. ASSUME NEW k \in Nat, k \in Fits
      PROVE  k + 1 \in Fits
  <2>1. PICK f : IsWalk(loop, x, s, k, f)
    BY <1>2
  <2> DEFINE last == Walk(loop, x, f[k], k + 1)
             h == [i \in 0 .. k + 1 |-> IF i <= k THEN f[i] ELSE last]
  <2>2. h[0] = s
    BY <2>1 DEF IsWalk
  <2>3. ASSUME NEW i \in 1 .. k + 1
        PROVE  h[i] = Walk(loop, x, h[i - 1], i)
    <3>1. i - 1 \in 0 .. k + 1 /\ h[i - 1] = f[i - 1]
      OBVIOUS
    <3>2. CASE i <= k
      BY <2>1, <3>1, <3>2 DEF IsWalk
    <3>3. CASE i = k + 1
      <4>1. i - 1 = k /\ h[i] = last
        BY <3>3
      <4> QED BY <3>1, <3>3, <4>1
    <3> QED BY <3>2, <3>3
  <2> HIDE DEF h
  <2>4. IsWalk(loop, x, s, k + 1, h)
    BY <2>2, <2>3 DEF IsWalk
  <2> QED BY <2>4
<1> HIDE DEF Fits
<1>3. Nat \subseteq Fits
  BY <1>1, <1>2, Counting
<1> QED BY <1>3 DEF Fits

\* The same as the function a Sweep defines.
Sweeps(loop, x, s, n, f) ==
  f = [k \in 0 .. n |-> IF k = 0 THEN s ELSE Walk(loop, x, f[k - 1], k)]

\* There is a function that satisfies the recursion of Sweep.
LEMMA WalkIsFunction ==
  ASSUME NEW loop, NEW x, NEW s, NEW n \in Nat
  PROVE  \E f : Sweeps(loop, x, s, n, f)
<1>1. PICK g : IsWalk(loop, x, s, n, g)
  BY WalkExists
<1> DEFINE h == [k \in 0 .. n |-> g[k]]
<1>2. ASSUME NEW k \in 0 .. n
      PROVE  h[k] = IF k = 0 THEN s ELSE Walk(loop, x, h[k - 1], k)
  <2>1. CASE k = 0
    BY <1>1, <2>1 DEF IsWalk
  <2>2. CASE k # 0
    <3>1. k \in 1 .. n /\ k - 1 \in 0 .. n
      BY <2>2
    <3>2. h[k] = g[k] /\ h[k - 1] = g[k - 1]
      BY <3>1
    <3> QED BY <1>1, <2>2, <3>1, <3>2 DEF IsWalk
  <2> QED BY <2>1, <2>2
<1>3. h = [k \in 0 .. n |-> h[k]]
  OBVIOUS
<1> HIDE DEF h
<1>4. h = [k \in 0 .. n |-> IF k = 0 THEN s ELSE Walk(loop, x, h[k - 1], k)]
  BY <1>2, <1>3
<1> QED BY <1>4 DEF Sweeps

\* It holds the states of the loop.
LEMMA WalkOf ==
  ASSUME NEW loop, NEW x, NEW s, NEW n \in Nat, NEW f, Sweeps(loop, x, s, n, f)
  PROVE  IsWalk(loop, x, s, n, f)
<1>1. \A k \in 0 .. n : f[k] = IF k = 0 THEN s ELSE Walk(loop, x, f[k - 1], k)
  BY DEF Sweeps
<1>2. 0 \in 0 .. n /\ \A k \in 1 .. n : k \in 0 .. n /\ k # 0
  OBVIOUS
<1> QED BY <1>1, <1>2 DEF IsWalk

\* Spark's states before and after each position of a chunk.
IsSpark(c, T) == IsWalk("Spark", c, SparkStart(c), Len(c.code), T)

\* What Spark makes of a chunk is the last of its states, ended if it still runs.
LEMMA SparkRunIs ==
  ASSUME NEW c, Len(c.code) \in Nat
  PROVE  \E T : /\ IsSpark(c, T)
                /\ SparkRun(c) = IF T[Len(c.code)].status = "running"
                                 THEN Ended(T[Len(c.code)]) ELSE T[Len(c.code)]
<1> DEFINE n == Len(c.code)
           s == SparkStart(c)
           Is(f) == f = [k \in 0 .. n |-> IF k = 0 THEN s ELSE Visited(c, f[k - 1], k)]
           T == CHOOSE f : Is(f)
<1>1. \A f : Is(f) <=> Sweeps("Spark", c, s, n, f)
  <2> TAKE f
  <2>1. \A k \in 0 .. n : Walk("Spark", c, f[k - 1], k) = Visited(c, f[k - 1], k)
    BY DEF Walk
  <2> QED BY ONLY <2>1 DEF Sweeps
<1>2. \E f : Sweeps("Spark", c, s, n, f)
  BY WalkIsFunction
<1>3. Is(T)
  BY ONLY <1>1, <1>2
<1>4. SparkRun(c) = IF T[n].status = "running" THEN Ended(T[n]) ELSE T[n]
  BY DEF SparkRun, Sweep
<1> HIDE DEF T
<1>5. IsSpark(c, T)
  BY <1>1, <1>3, WalkOf DEF IsSpark
<1> QED BY <1>4, <1>5

\* The lowerer before and after each position.
IsLowering(c, L) == IsWalk("run", c, LowererStart, Len(c.code), L)

\* The function of a chunk is what the lowerer holds after the last position.
LEMMA LoweringIs ==
  ASSUME NEW c, Len(c.code) \in Nat
  PROVE  \E L : /\ IsLowering(c, L)
                /\ lower_chunk_to_tier1(c) =
                     Tier1Function(L[Len(c.code)].insts, L[Len(c.code)].vregs)
<1> DEFINE n == Len(c.code)
           s == LowererStart
           Is(f) == f = [k \in 0 .. n |-> IF k = 0 THEN s ELSE LowerAt(c, f[k - 1], k)]
           L == CHOOSE f : Is(f)
<1>1. \A f : Is(f) <=> Sweeps("run", c, s, n, f)
  <2> TAKE f
  <2>1. \A k \in 0 .. n : Walk("run", c, f[k - 1], k) = LowerAt(c, f[k - 1], k)
    BY DEF Walk
  <2> QED BY ONLY <2>1 DEF Sweeps
<1>2. \E f : Sweeps("run", c, s, n, f)
  BY WalkIsFunction
<1>3. Is(L)
  BY ONLY <1>1, <1>2
<1>4. lower_chunk_to_tier1(c) = Tier1Function(L[n].insts, L[n].vregs)
  BY DEF lower_chunk_to_tier1, Sweep
<1> HIDE DEF L
<1>5. IsLowering(c, L)
  BY <1>1, <1>3, WalkOf DEF IsLowering
<1> QED BY <1>4, <1>5

\* pop_vreg n times, as a loop.
LEMMA PopsIs ==
  ASSUME NEW lo, NEW n \in Nat
  PROVE  \E f : /\ IsWalk("pops", 0, [lo EXCEPT !.popped = <<>>], n, f)
                /\ Pops(lo, n) = f[n]
<1> DEFINE s == [lo EXCEPT !.popped = <<>>]
           Is(f) == f = [k \in 0 .. n |-> IF k = 0 THEN s ELSE Popped(f[k - 1])]
           P == CHOOSE f : Is(f)
<1>1. \A f : Is(f) <=> Sweeps("pops", 0, s, n, f)
  <2> TAKE f
  <2>1. \A k \in 0 .. n : Walk("pops", 0, f[k - 1], k) = Popped(f[k - 1])
    BY DEF Walk
  <2> QED BY ONLY <2>1 DEF Sweeps
<1>2. \E f : Sweeps("pops", 0, s, n, f)
  BY WalkIsFunction
<1>3. Is(P)
  BY ONLY <1>1, <1>2
<1>4. Pops(lo, n) = P[n]
  BY DEF Pops, Sweep
<1> HIDE DEF P
<1>5. IsWalk("pops", 0, s, n, P)
  BY <1>1, <1>3, WalkOf
<1> QED BY <1>4, <1>5

\* The pushes of BuildList, as a loop.
LEMMA FilledIs ==
  ASSUME NEW lo, NEW list, NEW n \in Nat
  PROVE  \E f : IsWalk("list", list, lo, n, f) /\ Filled(lo, list, n) = f[n]
<1> DEFINE Is(f) == f = [k \in 0 .. n |-> IF k = 0 THEN lo ELSE Appended(f[k - 1], list)]
           P == CHOOSE f : Is(f)
<1>1. \A f : Is(f) <=> Sweeps("list", list, lo, n, f)
  <2> TAKE f
  <2>1. \A k \in 0 .. n : Walk("list", list, f[k - 1], k) = Appended(f[k - 1], list)
    BY DEF Walk
  <2> QED BY ONLY <2>1 DEF Sweeps
<1>2. \E f : Sweeps("list", list, lo, n, f)
  BY WalkIsFunction
<1>3. Is(P)
  BY ONLY <1>1, <1>2
<1>4. Filled(lo, list, n) = P[n]
  BY DEF Filled, Sweep
<1> HIDE DEF P
<1>5. IsWalk("list", list, lo, n, P)
  BY <1>1, <1>3, WalkOf
<1> QED BY <1>4, <1>5

-----------------------------------------------------------------------------

\* Virtual registers on the stack or popped.
Within(s, n) == s \in Seq(Nat) /\ \A i \in 1 .. Len(s) : s[i] \in 1 .. n

\* An instruction over n virtual registers.
Fits(inst, n) ==
  /\ inst \in Instructions
  /\ inst.dst \in 0 .. n /\ inst.src1 \in 0 .. n /\ inst.src2 \in 0 .. n
  /\ inst.op \in Silent => inst.dst = 0

\* A state of ChunkLowerer: what it has emitted and the registers it holds are
\* among those it has allocated.
IsLowerer(lo) ==
  /\ lo = [insts |-> lo.insts, vregs |-> lo.vregs, vstack |-> lo.vstack, popped |-> lo.popped]
  /\ lo.vregs \in Nat
  /\ lo.insts \in Seq(Instructions)
  /\ \A k \in 1 .. Len(lo.insts) : Fits(lo.insts[k], lo.vregs)
  /\ Within(lo.vstack, lo.vregs) /\ Within(lo.popped, lo.vregs)

\* What one opcode adds to a function: no label, no jump but to t.
Adds(inst, t) == inst.op # "Label" /\ (inst.op \in Transfers => inst.payload = t)

\* lo becomes l by emitting more and allocating more.
Grows(lo, l, t) ==
  /\ IsLowerer(lo) /\ IsLowerer(l)
  /\ lo.vregs <= l.vregs /\ Len(lo.insts) <= Len(l.insts)
  /\ \A k \in 1 .. Len(lo.insts) : l.insts[k] = lo.insts[k]
  /\ \A k \in Len(lo.insts) + 1 .. Len(l.insts) : Adds(l.insts[k], t)

\* The front and the last element of a sequence.
LEMMA FrontOf ==
  ASSUME NEW S, NEW s, s \in Seq(S), s # <<>>
  PROVE  /\ Front(s) \in Seq(S) /\ Len(Front(s)) = Len(s) - 1 /\ Len(s) \in Nat \ {0}
         /\ \A i \in 1 .. Len(s) - 1 : Front(s)[i] = s[i]
         /\ Last(s) = s[Len(s)] /\ Last(s) \in S
<1> DEFINE n == Len(s) - 1
<1>1. n \in Nat /\ Len(s) = n + 1 /\ Len(s) \in Nat \ {0}
  OBVIOUS
<1>2. \A i \in 1 .. n : s[i] \in S
  BY <1>1
<1> HIDE DEF n
<1>3. /\ SubSeq(s, 1, n) \in Seq(S)
      /\ Len(SubSeq(s, 1, n)) = IF 1 <= n THEN n - 1 + 1 ELSE 0
      /\ \A i \in 1 .. n - 1 + 1 : SubSeq(s, 1, n)[i] = s[1 + i - 1]
  BY <1>1, <1>2, SubSeqProperties
<1>4. Front(s) = SubSeq(s, 1, n)
  BY DEF Front, n
<1>5. \A i \in 1 .. n : Front(s)[i] = s[i]
  <2> TAKE i \in 1 .. n
  <2>1. i \in 1 .. n - 1 + 1 /\ 1 + i - 1 = i
    BY <1>1
  <2> QED BY <1>3, <1>4, <2>1
<1>6. Len(Front(s)) = n
  BY <1>1, <1>3, <1>4
<1> QED BY <1>1, <1>3, <1>4, <1>5, <1>6 DEF Last

\* What Within keeps: more registers, a push, a pop.
LEMMA WithinFacts ==
  ASSUME NEW s, NEW n \in Nat, Within(s, n)
  PROVE  /\ Len(s) \in Nat
         /\ \A m \in Nat : n <= m => Within(s, m)
         /\ \A v \in 1 .. n : Within(Append(s, v), n) /\ Within(<<v>> \o s, n)
         /\ s # <<>> => Within(Front(s), n) /\ Last(s) \in 1 .. n
         /\ Within(<<>>, n)
<1>1. Len(s) \in Nat /\ s \in Seq(Nat)
  BY DEF Within
<1>2. ASSUME NEW m \in Nat, n <= m PROVE Within(s, m)
  BY <1>1, <1>2 DEF Within
<1>3. ASSUME NEW v \in 1 .. n PROVE Within(Append(s, v), n)
  <2>1. Append(s, v) \in Seq(Nat) /\ Len(Append(s, v)) = Len(s) + 1
    BY <1>1
  <2>2. \A i \in 1 .. Len(s) + 1 : Append(s, v)[i] = IF i <= Len(s) THEN s[i] ELSE v
    BY <1>1
  <2> QED BY <1>1, <2>1, <2>2 DEF Within
<1>4. ASSUME NEW v \in 1 .. n PROVE Within(<<v>> \o s, n)
  <2>1. <<v>> \o s \in Seq(Nat) /\ Len(<<v>> \o s) = Len(s) + 1
    BY <1>1
  <2>2. \A i \in 1 .. Len(s) + 1 : (<<v>> \o s)[i] = IF i = 1 THEN v ELSE s[i - 1]
    BY <1>1
  <2> QED BY <1>1, <2>1, <2>2 DEF Within
<1>5. ASSUME s # <<>> PROVE Within(Front(s), n) /\ Last(s) \in 1 .. n
  <2>1. Len(s) >= 1
    BY <1>1, <1>5
  <2>2. Front(s) \in Seq(Nat) /\ Len(Front(s)) = Len(s) - 1
    BY <1>1, <1>5, FrontOf
  <2>3. \A i \in 1 .. Len(s) - 1 : Front(s)[i] = s[i]
    BY <1>1, <1>5, FrontOf
  <2> QED BY <1>1, <2>1, <2>2, <2>3 DEF Within, Last
<1>6. Within(<<>>, n)
  BY DEF Within
<1> QED BY <1>1, <1>2, <1>3, <1>4, <1>5, <1>6

\* Within for more registers.
LEMMA WithinMore ==
  ASSUME NEW s, NEW n \in Nat, Within(s, n), NEW m \in Nat, n <= m
  PROVE  Within(s, m)
BY WithinFacts

\* Within for a stack with one more register.
LEMMA WithinPush ==
  ASSUME NEW s, NEW n \in Nat, Within(s, n), NEW v, v \in 1 .. n
  PROVE  Within(Append(s, v), n) /\ Within(<<v>> \o s, n)
BY WithinFacts

\* Within for a stack with one less, and the register taken.
LEMMA WithinFront ==
  ASSUME NEW s, NEW n \in Nat, Within(s, n), s # <<>>
  PROVE  Within(Front(s), n) /\ Last(s) \in 1 .. n
BY WithinFacts

\* Growing twice is growing.
LEMMA GrowsTrans ==
  ASSUME NEW l1, NEW l2, NEW l3, NEW t, Grows(l1, l2, t), Grows(l2, l3, t)
  PROVE  Grows(l1, l3, t)
<1>1. /\ Len(l1.insts) \in Nat /\ Len(l2.insts) \in Nat /\ Len(l3.insts) \in Nat
      /\ l1.vregs \in Nat /\ l2.vregs \in Nat /\ l3.vregs \in Nat
  BY DEF Grows, IsLowerer
<1>2. /\ l1.vregs <= l2.vregs /\ Len(l1.insts) <= Len(l2.insts)
      /\ l2.vregs <= l3.vregs /\ Len(l2.insts) <= Len(l3.insts)
  BY DEF Grows
<1>3. ASSUME NEW k \in 1 .. Len(l1.insts)
      PROVE  l3.insts[k] = l1.insts[k]
  <2>1. k \in 1 .. Len(l2.insts)
    BY <1>1, <1>2
  <2> QED BY <2>1 DEF Grows
<1>4. ASSUME NEW k \in Len(l1.insts) + 1 .. Len(l3.insts)
      PROVE  Adds(l3.insts[k], t)
  <2>1. CASE k <= Len(l2.insts)
    <3>1. k \in 1 .. Len(l2.insts) /\ k \in Len(l1.insts) + 1 .. Len(l2.insts)
      BY <1>1, <1>2, <2>1
    <3> QED BY <3>1 DEF Grows
  <2>2. CASE k > Len(l2.insts)
    <3>1. k \in Len(l2.insts) + 1 .. Len(l3.insts)
      BY <1>1, <1>2, <2>2
    <3> QED BY <3>1 DEF Grows
  <2> QED BY <1>1, <2>1, <2>2
<1>5. IsLowerer(l1) /\ IsLowerer(l3)
  BY DEF Grows
<1> QED BY <1>1, <1>2, <1>3, <1>4, <1>5 DEF Grows

\* No instruction, but other registers or another stack.
LEMMA GrowsQuietly ==
  ASSUME NEW lo, NEW l, NEW t, IsLowerer(lo),
         l = [insts |-> l.insts, vregs |-> l.vregs, vstack |-> l.vstack, popped |-> l.popped],
         l.insts = lo.insts, l.vregs \in Nat, lo.vregs <= l.vregs,
         Within(l.vstack, l.vregs), Within(l.popped, l.vregs)
  PROVE  Grows(lo, l, t)
<1>1. Len(lo.insts) \in Nat /\ lo.vregs \in Nat
  BY DEF IsLowerer
<1>2. \A k \in 1 .. Len(l.insts) : Fits(l.insts[k], l.vregs)
  BY <1>1 DEF IsLowerer, Fits
<1>3. IsLowerer(l)
  BY <1>2 DEF IsLowerer
<1> QED BY <1>1, <1>3 DEF Grows

\* One instruction more, and nothing else.
Emitted(l, lo, inst) ==
  /\ l.insts = Append(lo.insts, inst)
  /\ l.vregs = lo.vregs /\ l.vstack = lo.vstack /\ l.popped = lo.popped

\* Emitting an instruction over allocated registers.
LEMMA EmitGrows ==
  ASSUME NEW lo, IsLowerer(lo), NEW t,
         NEW op, op \in Ops, NEW dst, dst \in 0 .. lo.vregs,
         NEW src1, src1 \in 0 .. lo.vregs, NEW src2, src2 \in 0 .. lo.vregs,
         NEW payload, payload \in Int,
         op \in Silent => dst = 0
  PROVE  /\ IsLowerer(Emit(lo, op, dst, src1, src2, payload))
         /\ Adds(Tier1Inst(op, dst, src1, src2, payload), t)
              => Grows(lo, Emit(lo, op, dst, src1, src2, payload), t)
         /\ Emitted(Emit(lo, op, dst, src1, src2, payload), lo,
                    Tier1Inst(op, dst, src1, src2, payload))
<1> DEFINE inst == Tier1Inst(op, dst, src1, src2, payload)
           l == Emit(lo, op, dst, src1, src2, payload)
<1>1. Len(lo.insts) \in Nat /\ lo.vregs \in Nat /\ lo.insts \in Seq(Instructions)
  BY DEF IsLowerer
<1>2. Fits(inst, lo.vregs)
  BY <1>1 DEF Fits, Instructions, Tier1Inst
<1>3. /\ l.insts = Append(lo.insts, inst) /\ l.vregs = lo.vregs /\ l.vstack = lo.vstack
      /\ l.popped = lo.popped
      /\ l = [insts |-> l.insts, vregs |-> l.vregs, vstack |-> l.vstack, popped |-> l.popped]
  <2>1. lo = [insts |-> lo.insts, vregs |-> lo.vregs, vstack |-> lo.vstack, popped |-> lo.popped]
    BY DEF IsLowerer
  <2>2. l = [lo EXCEPT !.insts = Append(lo.insts, inst)]
    BY DEF Emit
  <2> HIDE DEF l, inst
  <2> QED BY <2>1, <2>2
<1> HIDE DEF inst, l
<1>4. /\ Len(l.insts) = Len(lo.insts) + 1 /\ l.insts \in Seq(Instructions)
      /\ \A k \in 1 .. Len(lo.insts) : l.insts[k] = lo.insts[k]
      /\ l.insts[Len(lo.insts) + 1] = inst
  BY <1>1, <1>2, <1>3 DEF Fits
<1>5. \A k \in 1 .. Len(l.insts) : Fits(l.insts[k], l.vregs)
  <2> TAKE k \in 1 .. Len(l.insts)
  <2>1. k \in 1 .. Len(lo.insts) \/ k = Len(lo.insts) + 1
    BY <1>1, <1>4
  <2> QED BY <1>2, <1>3, <1>4, <2>1 DEF IsLowerer
<1>6. IsLowerer(l)
  BY <1>3, <1>4, <1>5 DEF IsLowerer
<1>7. ASSUME Adds(inst, t) PROVE Grows(lo, l, t)
  <2>1. \A k \in Len(lo.insts) + 1 .. Len(l.insts) : k = Len(lo.insts) + 1
    BY <1>1, <1>4
  <2>2. \A k \in Len(lo.insts) + 1 .. Len(l.insts) : Adds(l.insts[k], t)
    BY <1>4, <1>7, <2>1
  <2>3. Len(lo.insts) <= Len(l.insts) /\ lo.vregs <= l.vregs
    BY <1>1, <1>3, <1>4
  <2> QED BY <1>4, <1>6, <2>2, <2>3 DEF Grows
<1>8. Emitted(l, lo, inst)
  BY <1>3 DEF Emitted
<1> QED BY <1>6, <1>7, <1>8 DEF inst, l

\* Pushing an allocated register.
LEMMA PushGrows ==
  ASSUME NEW lo, IsLowerer(lo), NEW t, NEW v, v \in 1 .. lo.vregs
  PROVE  /\ Grows(lo, Push(lo, v), t)
         /\ Push(lo, v).insts = lo.insts /\ Push(lo, v).vregs = lo.vregs
         /\ Push(lo, v).popped = lo.popped
         /\ Push(lo, v).vstack = Append(lo.vstack, v)
<1> DEFINE l == Push(lo, v)
<1>1. lo = [insts |-> lo.insts, vregs |-> lo.vregs, vstack |-> lo.vstack, popped |-> lo.popped]
  BY DEF IsLowerer
<1>2. l = [lo EXCEPT !.vstack = Append(lo.vstack, v)]
  BY DEF Push
<1> HIDE DEF l
<1>3. /\ l = [insts |-> l.insts, vregs |-> l.vregs, vstack |-> l.vstack, popped |-> l.popped]
      /\ l.insts = lo.insts /\ l.vregs = lo.vregs /\ l.popped = lo.popped
      /\ l.vstack = Append(lo.vstack, v)
  BY <1>1, <1>2
<1>4. lo.vregs \in Nat /\ Within(lo.vstack, lo.vregs) /\ Within(lo.popped, lo.vregs)
  BY DEF IsLowerer
<1>5. Within(Append(lo.vstack, v), lo.vregs)
  BY <1>4, WithinPush
<1>7. Within(l.vstack, l.vregs) /\ Within(l.popped, l.vregs) /\ l.vregs \in Nat /\ lo.vregs <= l.vregs
  BY <1>3, <1>4, <1>5
<1>6. Grows(lo, l, t)
  BY <1>3, <1>7, GrowsQuietly
<1> QED BY <1>3, <1>6 DEF l

\* n registers were dropped at the front.
LEMMA DropGrows ==
  ASSUME NEW lo, IsLowerer(lo), NEW t
  PROVE  /\ Grows(lo, [lo EXCEPT !.popped = <<>>], t)
         /\ Grows(lo, Alloc(lo), t)
         /\ Alloc(lo).insts = lo.insts /\ Alloc(lo).vregs = lo.vregs + 1
         /\ Alloc(lo).popped = lo.popped /\ Alloc(lo).vstack = lo.vstack
<1> DEFINE l == [lo EXCEPT !.popped = <<>>]
           m == Alloc(lo)
<1>1. lo = [insts |-> lo.insts, vregs |-> lo.vregs, vstack |-> lo.vstack, popped |-> lo.popped]
  BY DEF IsLowerer
<1>2. m = [lo EXCEPT !.vregs = lo.vregs + 1]
  BY DEF Alloc
<1>3. /\ l = [insts |-> l.insts, vregs |-> l.vregs, vstack |-> l.vstack, popped |-> l.popped]
      /\ l.insts = lo.insts /\ l.vregs = lo.vregs /\ l.popped = <<>> /\ l.vstack = lo.vstack
  BY <1>1
<1> HIDE DEF l, m
<1>4. /\ m = [insts |-> m.insts, vregs |-> m.vregs, vstack |-> m.vstack, popped |-> m.popped]
      /\ m.insts = lo.insts /\ m.vregs = lo.vregs + 1 /\ m.popped = lo.popped
      /\ m.vstack = lo.vstack
  BY <1>1, <1>2
<1>5. lo.vregs \in Nat /\ Within(lo.vstack, lo.vregs) /\ Within(lo.popped, lo.vregs)
  BY DEF IsLowerer
<1>6. /\ Within(l.vstack, l.vregs) /\ Within(l.popped, l.vregs) /\ l.vregs \in Nat
      /\ lo.vregs <= l.vregs
  BY <1>3, <1>5, WithinFacts
<1>7. /\ Within(m.vstack, m.vregs) /\ Within(m.popped, m.vregs) /\ m.vregs \in Nat
      /\ lo.vregs <= m.vregs
  <2>1. lo.vregs + 1 \in Nat /\ lo.vregs <= lo.vregs + 1
    BY <1>5
  <2>2. Within(lo.vstack, lo.vregs + 1) /\ Within(lo.popped, lo.vregs + 1)
    BY <1>5, <2>1, WithinMore
  <2> QED BY <1>4, <2>1, <2>2
<1>8. Grows(lo, l, t)
  BY <1>3, <1>6, GrowsQuietly
<1>9. Grows(lo, m, t)
  BY <1>4, <1>7, GrowsQuietly
<1> QED BY <1>4, <1>8, <1>9 DEF l, m

\* A new register, defined by a new instruction, on top of the stack.
Defined(l, lo, op, src1, src2, payload) ==
  /\ l.insts = Append(lo.insts, Tier1Inst(op, lo.vregs + 1, src1, src2, payload))
  /\ l.vregs = lo.vregs + 1
  /\ l.vstack = Append(lo.vstack, lo.vregs + 1)
  /\ l.popped = lo.popped

\* Define does that.
LEMMA DefineGrows ==
  ASSUME NEW lo, IsLowerer(lo), NEW t, NEW op, op \in Ops \ Silent,
         NEW src1, src1 \in 0 .. lo.vregs, NEW src2, src2 \in 0 .. lo.vregs,
         NEW payload, payload \in Int
  PROVE  /\ Grows(lo, Define(lo, op, src1, src2, payload), t)
         /\ Defined(Define(lo, op, src1, src2, payload), lo, op, src1, src2, payload)
<1> DEFINE d == lo.vregs + 1
           a == Alloc(lo)
           e == Emit(a, op, d, src1, src2, payload)
           l == Push(e, d)
<1>1. lo.vregs \in Nat
  BY DEF IsLowerer
<1>2. /\ Grows(lo, a, t) /\ a.insts = lo.insts /\ a.vregs = lo.vregs + 1
      /\ a.popped = lo.popped /\ a.vstack = lo.vstack
  BY DropGrows
<1>3. IsLowerer(a)
  BY <1>2 DEF Grows
<1> HIDE DEF a
<1>4. /\ op \in Ops /\ d \in 0 .. a.vregs /\ src1 \in 0 .. a.vregs /\ src2 \in 0 .. a.vregs
      /\ (op \in Silent => d = 0)
  BY <1>1, <1>2
<1>5. Adds(Tier1Inst(op, d, src1, src2, payload), t)
  BY DEF Adds, Tier1Inst, Silent
<1> HIDE DEF d
<1>12. Grows(a, e, t) /\ Emitted(e, a, Tier1Inst(op, d, src1, src2, payload))
  BY <1>3, <1>4, <1>5, EmitGrows
<1>6. /\ Grows(a, e, t) /\ e.insts = Append(a.insts, Tier1Inst(op, d, src1, src2, payload))
      /\ e.vregs = a.vregs /\ e.vstack = a.vstack /\ e.popped = a.popped
  BY <1>12 DEF Emitted
<1>7. IsLowerer(e)
  BY <1>6 DEF Grows
<1> HIDE DEF e
<1>8. d \in 1 .. e.vregs
  BY <1>1, <1>2, <1>6 DEF d
<1>9. /\ Grows(e, l, t) /\ l.insts = e.insts /\ l.vregs = e.vregs /\ l.popped = e.popped
      /\ l.vstack = Append(e.vstack, d)
  BY <1>7, <1>8, PushGrows
<1>10. Grows(lo, l, t)
  BY <1>2, <1>6, <1>9, GrowsTrans
<1>11. l = Define(lo, op, src1, src2, payload)
  BY DEF Define, a, d, e
<1> HIDE DEF l
<1> QED BY <1>2, <1>6, <1>9, <1>10, <1>11 DEF d, Defined

\* pop_vreg: the top register, or a new LoadConst for an empty virtual stack.
LEMMA PoppedGrows ==
  ASSUME NEW lo, IsLowerer(lo), NEW t
  PROVE  /\ Grows(lo, Popped(lo), t)
         /\ \E v : Popped(lo).popped = <<v>> \o lo.popped /\ (lo.vstack # <<>> => v = Last(lo.vstack))
         /\ lo.vstack # <<>> =>
              /\ Popped(lo).insts = lo.insts /\ Popped(lo).vregs = lo.vregs
              /\ Popped(lo).vstack = Front(lo.vstack)
<1> DEFINE m == Popped(lo)
<1>1. lo = [insts |-> lo.insts, vregs |-> lo.vregs, vstack |-> lo.vstack, popped |-> lo.popped]
  BY DEF IsLowerer
<1>2. lo.vregs \in Nat /\ Within(lo.vstack, lo.vregs) /\ Within(lo.popped, lo.vregs)
  BY DEF IsLowerer
<1>3. CASE lo.vstack # <<>>
  <2> DEFINE v == Last(lo.vstack)
  <2>1. m = [lo EXCEPT !.vstack = Front(lo.vstack), !.popped = <<v>> \o lo.popped]
    BY <1>3 DEF Popped
  <2> HIDE DEF m, v
  <2>2. /\ m = [insts |-> m.insts, vregs |-> m.vregs, vstack |-> m.vstack, popped |-> m.popped]
        /\ m.insts = lo.insts /\ m.vregs = lo.vregs /\ m.popped = <<v>> \o lo.popped
        /\ m.vstack = Front(lo.vstack)
    BY <1>1, <2>1
  <2>3. v \in 1 .. lo.vregs /\ Within(Front(lo.vstack), lo.vregs)
    BY <1>2, <1>3, WithinFront DEF v
  <2>4. Within(<<v>> \o lo.popped, lo.vregs)
    BY <1>2, <2>3, WithinPush
  <2>6. Within(m.vstack, m.vregs) /\ Within(m.popped, m.vregs) /\ m.vregs \in Nat /\ lo.vregs <= m.vregs
    BY <1>2, <2>2, <2>3, <2>4
  <2>5. Grows(lo, m, t)
    BY <2>2, <2>6, GrowsQuietly
  <2> QED BY <2>2, <2>5 DEF m, v
<1>4. CASE lo.vstack = <<>>
  <2> DEFINE z == lo.vregs + 1
             a == Alloc(lo)
             e == Emit(a, "LoadConstImm", z, 0, 0, 0)
  <2>1. /\ Grows(lo, a, t) /\ a.insts = lo.insts /\ a.vregs = lo.vregs + 1
        /\ a.popped = lo.popped /\ a.vstack = lo.vstack
    BY DropGrows
  <2>2. IsLowerer(a)
    BY <2>1 DEF Grows
  <2>3. m = [e EXCEPT !.popped = <<z>> \o e.popped]
    BY <1>4 DEF Popped
  <2> HIDE DEF a
  <2>4. /\ "LoadConstImm" \in Ops /\ z \in 0 .. a.vregs /\ 0 \in 0 .. a.vregs
        /\ "LoadConstImm" \notin Silent /\ 0 \in Int
    BY <1>2, <2>1 DEF Ops, Silent, Transfers
  <2>5. Adds(Tier1Inst("LoadConstImm", z, 0, 0, 0), t)
    BY DEF Adds, Tier1Inst, Transfers
  <2> HIDE DEF z
  <2>14. Grows(a, e, t) /\ Emitted(e, a, Tier1Inst("LoadConstImm", z, 0, 0, 0))
    BY <2>2, <2>4, <2>5, EmitGrows
  <2>6. Grows(a, e, t) /\ e.vregs = a.vregs /\ e.popped = a.popped /\ e.vstack = a.vstack
    BY <2>14 DEF Emitted
  <2>7. /\ e = [insts |-> e.insts, vregs |-> e.vregs, vstack |-> e.vstack, popped |-> e.popped]
        /\ IsLowerer(e) /\ e.vregs \in Nat
        /\ Within(e.vstack, e.vregs) /\ Within(e.popped, e.vregs)
    BY <2>6 DEF Grows, IsLowerer
  <2> HIDE DEF e, m
  <2>8. /\ m = [insts |-> m.insts, vregs |-> m.vregs, vstack |-> m.vstack, popped |-> m.popped]
        /\ m.insts = e.insts /\ m.vregs = e.vregs /\ m.popped = <<z>> \o e.popped
        /\ m.vstack = e.vstack
    BY <2>3, <2>7
  <2>9. z \in 1 .. e.vregs
    BY <1>2, <2>1, <2>6 DEF z
  <2>10. Within(<<z>> \o e.popped, e.vregs)
    BY <2>7, <2>9, WithinPush
  <2>13. Within(m.vstack, m.vregs) /\ Within(m.popped, m.vregs) /\ m.vregs \in Nat /\ e.vregs <= m.vregs
    BY <2>7, <2>8, <2>10
  <2>11. Grows(e, m, t)
    BY <2>7, <2>8, <2>13, GrowsQuietly
  <2>12. Grows(lo, m, t)
    BY <2>1, <2>6, <2>11, GrowsTrans
  <2> QED BY <1>4, <2>1, <2>6, <2>8, <2>12 DEF m
<1> QED BY <1>3, <1>4

\* The registers popped are the n on top, deepest first.
Took(l, lo, n) ==
  /\ l.insts = lo.insts /\ l.vregs = lo.vregs
  /\ Len(l.vstack) = Len(lo.vstack) - n
  /\ \A i \in 1 .. Len(lo.vstack) - n : l.vstack[i] = lo.vstack[i]
  /\ \A i \in 1 .. n : l.popped[i] = lo.vstack[Len(lo.vstack) - n + i]

\* Taking one register more.
LEMMA TookMore ==
  ASSUME NEW lo, IsLowerer(lo), NEW n \in Nat, n + 1 <= Len(lo.vstack),
         NEW l, IsLowerer(l), Took(l, lo, n), Len(l.popped) = n
  PROVE  Took(Popped(l), lo, n + 1)
<1> DEFINE m == Popped(l)
           len == Len(lo.vstack)
<1>1. /\ len \in Nat /\ l.vstack \in Seq(Nat) /\ l.popped \in Seq(Nat)
      /\ Len(l.vstack) = len - n
  BY DEF IsLowerer, Within, Took
<1>2. l.vstack # <<>>
  BY <1>1
<1>3. \E v : m.popped = <<v>> \o l.popped /\ v = Last(l.vstack)
  BY <1>2, PoppedGrows
<1>4. m.insts = l.insts /\ m.vregs = l.vregs /\ m.vstack = Front(l.vstack)
  BY <1>2, PoppedGrows
<1> HIDE DEF m
<1>11. /\ Front(l.vstack) \in Seq(Nat) /\ Len(Front(l.vstack)) = Len(l.vstack) - 1
       /\ \A i \in 1 .. Len(l.vstack) - 1 : Front(l.vstack)[i] = l.vstack[i]
       /\ Last(l.vstack) = l.vstack[Len(l.vstack)] /\ Last(l.vstack) \in Nat
  BY <1>1, <1>2, FrontOf
<1>5. /\ Len(m.vstack) = len - n - 1
      /\ \A i \in 1 .. len - n - 1 : m.vstack[i] = l.vstack[i]
      /\ Last(l.vstack) = l.vstack[len - n] /\ Last(l.vstack) \in Nat
  BY <1>1, <1>4, <1>11
<1>6. \A i \in 1 .. n + 1 : m.popped[i] = IF i = 1 THEN Last(l.vstack) ELSE l.popped[i - 1]
  BY <1>1, <1>3, <1>5
<1> HIDE DEF len
<1>7. \A i \in 1 .. len - (n + 1) : m.vstack[i] = lo.vstack[i]
  <2> TAKE i \in 1 .. len - (n + 1)
  <2>1. i \in 1 .. len - n - 1 /\ i \in 1 .. len - n
    BY <1>1
  <2>2. \A j \in 1 .. len - n : l.vstack[j] = lo.vstack[j]
    BY DEF Took, len
  <2> QED BY <1>5, <2>1, <2>2
<1>8. \A i \in 1 .. n + 1 : m.popped[i] = lo.vstack[len - (n + 1) + i]
  <2> TAKE i \in 1 .. n + 1
  <2>1. \A j \in 1 .. n : l.popped[j] = lo.vstack[len - n + j]
    BY DEF Took, len
  <2>2. CASE i = 1
    <3>1. len - (n + 1) + i = len - n /\ len - n \in 1 .. len - n
      BY <1>1, <2>2 DEF len
    <3>2. l.vstack[len - n] = lo.vstack[len - n]
      BY <3>1 DEF Took, len
    <3> QED BY <1>5, <1>6, <2>2, <3>1, <3>2
  <2>3. CASE i # 1
    <3>1. i - 1 \in 1 .. n /\ len - n + (i - 1) = len - (n + 1) + i
      BY <1>1, <2>3
    <3>2. m.popped[i] = l.popped[i - 1]
      BY <1>6, <2>3
    <3> QED BY <2>1, <3>1, <3>2
  <2> QED BY <2>2, <2>3
<1>9. Len(m.vstack) = len - (n + 1)
  BY <1>1, <1>5
<1>10. m.insts = lo.insts /\ m.vregs = lo.vregs
  BY <1>4 DEF Took
<1> QED BY <1>7, <1>8, <1>9, <1>10 DEF Took, len, m

\* Taking n registers; a stack that has them loses just those.
LEMMA PopsGrows ==
  ASSUME NEW lo, IsLowerer(lo), NEW t, NEW n \in Nat
  PROVE  /\ Grows(lo, Pops(lo, n), t)
         /\ Len(Pops(lo, n).popped) = n
         /\ \A i \in 1 .. n : Pops(lo, n).popped[i] \in 1 .. Pops(lo, n).vregs
         /\ n <= Len(lo.vstack) => Took(Pops(lo, n), lo, n)
<1> DEFINE s == [lo EXCEPT !.popped = <<>>]
<1>1. PICK f : IsWalk("pops", 0, s, n, f) /\ Pops(lo, n) = f[n]
  BY PopsIs
<1>2. f[0] = s /\ \A k \in 1 .. n : f[k] = Popped(f[k - 1])
  BY <1>1 DEF IsWalk, Walk
<1>3. Grows(lo, s, t)
  BY DropGrows
<1>4. lo = [insts |-> lo.insts, vregs |-> lo.vregs, vstack |-> lo.vstack, popped |-> lo.popped]
  BY DEF IsLowerer
<1>5. s.insts = lo.insts /\ s.vregs = lo.vregs /\ s.vstack = lo.vstack /\ s.popped = <<>>
  BY <1>4
<1> HIDE DEF s
<1> DEFINE Good(k) == /\ Grows(lo, f[k], t) /\ Len(f[k].popped) = k
                      /\ k <= Len(lo.vstack) => Took(f[k], lo, k)
           Ks == {k \in Nat : k <= n => Good(k)}
<1>6. Len(lo.vstack) \in Nat
  BY DEF IsLowerer, Within
<1>7. 0 \in Ks
  <2>1. Took(s, lo, 0)
    BY <1>5, <1>6 DEF Took
  <2>2. Len(s.popped) = 0
    BY <1>5
  <2> QED BY <1>2, <1>3, <2>1, <2>2
<1>8. ASSUME NEW k \in Nat, k \in Ks
      PROVE  k + 1 \in Ks
  <2> SUFFICES ASSUME k + 1 <= n PROVE Good(k + 1)
    OBVIOUS
  <2>1. Good(k) /\ f[k + 1] = Popped(f[k])
    <3>1. k + 1 \in 1 .. n /\ k + 1 - 1 = k
      OBVIOUS
    <3> QED BY <1>2, <1>8, <3>1
  <2> DEFINE l == f[k]
  <2> HIDE DEF l
  <2>2. IsLowerer(l)
    BY <2>1 DEF Grows, l
  <2>3. Grows(l, Popped(l), t) /\ \E v : Popped(l).popped = <<v>> \o l.popped
    BY <2>2, PoppedGrows
  <2>4. Grows(lo, Popped(l), t)
    BY <2>1, <2>3, GrowsTrans DEF l
  <2>5. Len(Popped(l).popped) = k + 1
    <3>1. l.popped \in Seq(Nat) /\ Len(l.popped) = k
      BY <2>1, <2>2 DEF IsLowerer, Within, l
    <3> QED BY <2>3, <3>1
  <2>6. k + 1 <= Len(lo.vstack) => Took(Popped(l), lo, k + 1)
    BY <1>6, <2>1, <2>2, TookMore DEF l
  <2> QED BY <2>1, <2>4, <2>5, <2>6 DEF l
<1> HIDE DEF Ks
<1>9. Nat \subseteq Ks
  BY <1>7, <1>8, Counting
<1>10. Good(n)
  BY <1>9 DEF Ks
<1>11. \A i \in 1 .. n : f[n].popped[i] \in 1 .. f[n].vregs
  BY <1>10 DEF Grows, IsLowerer, Within
<1> QED BY <1>1, <1>10, <1>11

\* Looking at the top register.
LEMMA PeekedGrows ==
  ASSUME NEW lo, IsLowerer(lo), NEW t
  PROVE  /\ Grows(lo, Peeked(lo), t)
         /\ Peeked(lo).popped[1] \in 1 .. Peeked(lo).vregs
         /\ lo.vstack # <<>> =>
              /\ Peeked(lo).insts = lo.insts /\ Peeked(lo).vregs = lo.vregs
              /\ Peeked(lo).vstack = lo.vstack
              /\ Peeked(lo).popped[1] = lo.vstack[Len(lo.vstack)]
<1> DEFINE l == Pops(lo, 1)
           v == l.popped[1]
           m == Push(l, v)
<1>1. /\ Grows(lo, l, t) /\ v \in 1 .. l.vregs
      /\ 1 <= Len(lo.vstack) => Took(l, lo, 1)
  <2>1. /\ Grows(lo, l, t) /\ \A i \in 1 .. 1 : l.popped[i] \in 1 .. l.vregs
        /\ 1 <= Len(lo.vstack) => Took(l, lo, 1)
    BY PopsGrows
  <2> QED BY ONLY <2>1
<1>2. IsLowerer(l)
  BY <1>1 DEF Grows
<1> HIDE DEF l, v
<1>3. /\ Grows(l, m, t) /\ m.insts = l.insts /\ m.vregs = l.vregs /\ m.popped = l.popped
      /\ m.vstack = Append(l.vstack, v)
  BY <1>1, <1>2, PushGrows
<1>4. Peeked(lo) = m
  BY DEF Peeked, m, l, v
<1>5. Grows(lo, m, t)
  BY <1>1, <1>3, GrowsTrans
<1> HIDE DEF m
<1>6. ASSUME lo.vstack # <<>>
      PROVE  m.insts = lo.insts /\ m.vregs = lo.vregs /\ m.vstack = lo.vstack
             /\ v = lo.vstack[Len(lo.vstack)]
  <2>1. lo.vstack \in Seq(Nat) /\ l.vstack \in Seq(Nat)
    BY <1>2 DEF IsLowerer, Within
  <2>2. Took(l, lo, 1) /\ 1 <= Len(lo.vstack)
    BY <1>1, <1>6, <2>1
  <2>3. v = lo.vstack[Len(lo.vstack)] /\ v \in Nat
    BY <2>1, <2>2 DEF Took, v
  <2>4. Append(l.vstack, v) = lo.vstack
    <3>1. /\ Append(l.vstack, v) \in Seq(Nat) /\ Len(Append(l.vstack, v)) = Len(lo.vstack)
          /\ \A i \in 1 .. Len(lo.vstack) : Append(l.vstack, v)[i] = lo.vstack[i]
      BY <2>1, <2>2, <2>3 DEF Took
    <3> QED BY <2>1, <3>1, SeqEqual
  <2> QED BY <1>3, <2>2, <2>3, <2>4 DEF Took
<1> QED BY <1>1, <1>3, <1>4, <1>5, <1>6 DEF v

-----------------------------------------------------------------------------

\* An opcode with its operand.
IsIns(c, ins) ==
  /\ ins.op \in Opcodes /\ ins.arg \in Int
  /\ ins.op = "LoadConst" => c.constants[ins.arg].i \in Int
  /\ ins.op \in {"BuildList", "Call"} => ins.arg \in Nat

\* Doing nothing is growing.
LEMMA GrowsRefl ==
  ASSUME NEW lo, IsLowerer(lo), NEW t
  PROVE  Grows(lo, lo, t)
BY DEF Grows, IsLowerer

\* An instruction that defines nothing.
LEMMA SilentGrows ==
  ASSUME NEW lo, IsLowerer(lo), NEW t, NEW op, op \in Ops, op # "Label",
         NEW src1, src1 \in 0 .. lo.vregs, NEW src2, src2 \in 0 .. lo.vregs,
         NEW payload, payload \in Int, op \in Transfers => payload = t
  PROVE  /\ Grows(lo, Emit(lo, op, 0, src1, src2, payload), t)
         /\ Emitted(Emit(lo, op, 0, src1, src2, payload), lo,
                    Tier1Inst(op, 0, src1, src2, payload))
<1>1. Adds(Tier1Inst(op, 0, src1, src2, payload), t)
  BY DEF Adds, Tier1Inst
<1>2. 0 \in 0 .. lo.vregs
  BY DEF IsLowerer
<1> QED BY <1>1, <1>2, EmitGrows

\* Loads, stores and Pop grow the function.
LEMMA LoadGrows ==
  ASSUME NEW lo, IsLowerer(lo), NEW c, NEW ins, IsIns(c, ins),
         ins.op \in {"LoadConst", "LoadLocal", "LoadVar", "StoreLocal", "StoreVar", "Pop"}
  PROVE  Grows(lo, LowerLoad(c, lo, ins), ins.arg)
<1> DEFINE m == LowerLoad(c, lo, ins)
           t == ins.arg
<1>1. lo.vregs \in Nat /\ 0 \in 0 .. lo.vregs /\ t \in Int
  BY DEF IsLowerer, IsIns
<1>2. CASE ins.op = "LoadConst"
  <2> DEFINE k == c.constants[ins.arg]
  <2>1. k.i \in Int
    BY <1>2 DEF IsIns
  <2>2. "LoadConstImm" \in Ops \ Silent /\ "LoadConst" \in Ops \ Silent
    BY DEF Ops, Silent, Transfers
  <2>3. m = IF k.type = "NumberInt" THEN Define(lo, "LoadConstImm", 0, 0, k.i)
            ELSE Define(lo, "LoadConst", 0, 0, ins.arg)
    BY <1>2 DEF LowerLoad
  <2> HIDE DEF m, k
  <2>4. Grows(lo, Define(lo, "LoadConstImm", 0, 0, k.i), t)
    BY <1>1, <2>1, <2>2, DefineGrows
  <2>5. Grows(lo, Define(lo, "LoadConst", 0, 0, ins.arg), t)
    BY <1>1, <2>2, DefineGrows
  <2> QED BY <2>3, <2>4, <2>5 DEF m
<1>3. CASE ins.op \in {"LoadLocal", "LoadVar"}
  <2>1. m = Define(lo, ins.op, 0, 0, ins.arg)
    BY <1>3 DEF LowerLoad
  <2>2. ins.op \in Ops \ Silent
    BY <1>3 DEF Ops, Silent, Transfers
  <2>3. Grows(lo, Define(lo, ins.op, 0, 0, t), t)
    BY <1>1, <2>2, DefineGrows
  <2> QED BY <2>1, <2>3
<1>4. CASE ins.op \in {"StoreLocal", "StoreVar"}
  <2> DEFINE l == Peeked(lo)
             v == l.popped[1]
             op == ins.op
  <2>1. m = Emit(l, op, 0, v, 0, ins.arg)
    BY <1>4 DEF LowerLoad
  <2>2. Grows(lo, l, t) /\ v \in 1 .. l.vregs
    BY PeekedGrows
  <2>3. op \in Ops /\ op # "Label" /\ op \notin Transfers
    BY <1>4 DEF Ops, Silent, Transfers
  <2> HIDE DEF l, v, op
  <2>4. IsLowerer(l)
    BY <2>2 DEF Grows
  <2>5. v \in 0 .. l.vregs /\ 0 \in 0 .. l.vregs
    BY <2>2, <2>4 DEF IsLowerer
  <2>6. Grows(l, Emit(l, op, 0, v, 0, ins.arg), t)
    BY <1>1, <2>3, <2>4, <2>5, SilentGrows
  <2> QED BY <2>1, <2>2, <2>6, GrowsTrans
<1>5. CASE ins.op = "Pop"
  <2>1. m = [lo EXCEPT !.vstack = IF lo.vstack = <<>> THEN lo.vstack ELSE Front(lo.vstack)]
    BY <1>5 DEF LowerLoad
  <2> HIDE DEF m
  <2>2. lo = [insts |-> lo.insts, vregs |-> lo.vregs, vstack |-> lo.vstack, popped |-> lo.popped]
    BY DEF IsLowerer
  <2>3. /\ m = [insts |-> m.insts, vregs |-> m.vregs, vstack |-> m.vstack, popped |-> m.popped]
        /\ m.insts = lo.insts /\ m.vregs = lo.vregs /\ m.popped = lo.popped
        /\ m.vstack = IF lo.vstack = <<>> THEN lo.vstack ELSE Front(lo.vstack)
    BY <2>1, <2>2
  <2>4. Within(lo.vstack, lo.vregs) /\ Within(lo.popped, lo.vregs)
    BY DEF IsLowerer
  <2>5. lo.vstack # <<>> => Within(Front(lo.vstack), lo.vregs)
    BY <1>1, <2>4, WithinFront
  <2>6. /\ Within(m.vstack, m.vregs) /\ Within(m.popped, m.vregs)
        /\ m.vregs \in Nat /\ lo.vregs <= m.vregs
    BY <1>1, <2>3, <2>4, <2>5
  <2> QED BY <2>3, <2>6, GrowsQuietly DEF m
<1> QED BY <1>2, <1>3, <1>4, <1>5

\* Arithmetic and comparisons do.
LEMMA ArithmeticGrows ==
  ASSUME NEW lo, IsLowerer(lo), NEW ins,
         ins.op \in Binary \cup {"Div", "Pow", "Neg", "Not"}
  PROVE  Grows(lo, LowerArithmetic(lo, ins), ins.arg)
<1> DEFINE t == ins.arg
           op == ins.op
           n == IF op \in {"Neg", "Not"} THEN 1 ELSE 2
           l == Pops(lo, n)
           a == l.popped[1]
           b == IF op \in {"Neg", "Not"} THEN 0 ELSE l.popped[2]
<1>1. op \in Ops \ Silent
  BY DEF Ops, AluOps, Silent, Transfers, Binary, Arithmetic, Comparisons, Logical
<1>2. LowerArithmetic(lo, ins) = Define(l, op, a, b, 0)
  BY DEF LowerArithmetic
<1>3. Grows(lo, l, t) /\ \A i \in 1 .. n : l.popped[i] \in 1 .. l.vregs
  BY PopsGrows
<1>4. IsLowerer(l) /\ l.vregs \in Nat
  BY <1>3 DEF Grows, IsLowerer
<1>5. a \in 0 .. l.vregs /\ b \in 0 .. l.vregs
  <2> HIDE DEF l
  <2>1. 1 \in 1 .. n /\ (op \notin {"Neg", "Not"} => 2 \in 1 .. n)
    OBVIOUS
  <2> QED BY <1>3, <1>4, <2>1
<1> HIDE DEF l, a, b, op
<1>6. Grows(l, Define(l, op, a, b, 0), t)
  BY <1>1, <1>4, <1>5, DefineGrows
<1> QED BY <1>2, <1>3, <1>6, GrowsTrans

\* ForPrep and ForIter do: ForIter jumps to its operand only.
LEMMA LoopGrows ==
  ASSUME NEW lo, IsLowerer(lo), NEW ins, ins.op \in {"ForPrep", "ForIter"}, ins.arg \in Int
  PROVE  Grows(lo, LowerLoop(lo, ins), ins.arg)
<1> DEFINE t == ins.arg
<1>1. CASE ins.op = "ForPrep"
  <2> DEFINE l == Peeked(lo)
             v == l.popped[1]
             m == Define(l, "Mov", v, 0, 0)
  <2>1. Grows(lo, l, t) /\ v \in 1 .. l.vregs
    BY PeekedGrows
  <2>2. LowerLoop(lo, ins) = Define(m, "LoadConstImm", 0, 0, 0)
    BY <1>1 DEF LowerLoop
  <2>3. "Mov" \in Ops \ Silent /\ "LoadConstImm" \in Ops \ Silent
    BY DEF Ops, Silent, Transfers, AluOps
  <2> HIDE DEF l, v
  <2>4. IsLowerer(l) /\ v \in 0 .. l.vregs /\ 0 \in 0 .. l.vregs
    BY <2>1 DEF Grows, IsLowerer
  <2>5. Grows(l, m, t)
    BY <2>3, <2>4, DefineGrows
  <2> HIDE DEF m
  <2>6. IsLowerer(m) /\ 0 \in 0 .. m.vregs
    BY <2>5 DEF Grows, IsLowerer
  <2>7. Grows(m, Define(m, "LoadConstImm", 0, 0, 0), t)
    BY <2>3, <2>6, DefineGrows
  <2> QED BY <2>1, <2>2, <2>5, <2>7, GrowsTrans
<1>2. CASE ins.op = "ForIter"
  <2> DEFINE taken == Pops(lo, 2)
             len == taken.popped[1]
             idx == taken.popped[2]
             n == taken.vregs
             l1 == Alloc(taken)
             l2 == Alloc(l1)
             l3 == Alloc(l2)
             cmp == n + 1
             inc == n + 2
             one == n + 3
             e1 == Emit(l3, "Gte", cmp, idx, len, 0)
             e2 == Emit(e1, "BranchIfTrue", 0, cmp, 0, t)
             e3 == Emit(e2, "LoadConstImm", one, 0, 0, 1)
             e4 == Emit(e3, "Add", inc, idx, one, 0)
             p1 == Push(e4, idx)
             p2 == Push(p1, inc)
             p3 == Push(p2, len)
             p4 == Push(p3, inc)
  <2>1. LowerLoop(lo, ins) = p4
    BY <1>2 DEF LowerLoop
  <2>2. Grows(lo, taken, t) /\ len \in 1 .. n /\ idx \in 1 .. n
    <3>1. Grows(lo, Pops(lo, 2), t) /\ \A i \in 1 .. 2 : Pops(lo, 2).popped[i] \in 1 .. Pops(lo, 2).vregs
      BY PopsGrows
    <3>2. 1 \in 1 .. 2 /\ 2 \in 1 .. 2
      OBVIOUS
    <3> QED BY <3>1, <3>2
  <2>3. IsLowerer(taken) /\ n \in Nat
    BY <2>2 DEF Grows, IsLowerer
  <2> HIDE DEF taken, len, idx
  <2>4. Grows(taken, l1, t) /\ l1.vregs = taken.vregs + 1
    BY <2>3, DropGrows
  <2> HIDE DEF l1
  <2>5. IsLowerer(l1)
    BY <2>4 DEF Grows
  <2>6. Grows(l1, l2, t) /\ l2.vregs = l1.vregs + 1
    BY <2>5, DropGrows
  <2> HIDE DEF l2
  <2>7. IsLowerer(l2)
    BY <2>6 DEF Grows
  <2>8. Grows(l2, l3, t) /\ l3.vregs = l2.vregs + 1
    BY <2>7, DropGrows
  <2>9. Grows(lo, l3, t)
    BY <2>2, <2>4, <2>6, <2>8, GrowsTrans
  <2> HIDE DEF l3
  <2>10. IsLowerer(l3)
    BY <2>8 DEF Grows
  <2>11. l3.vregs = n + 3
    BY <2>3, <2>4, <2>6, <2>8
  <2>12. /\ cmp \in 1 .. n + 3 /\ inc \in 1 .. n + 3 /\ one \in 1 .. n + 3 /\ idx \in 1 .. n + 3
         /\ len \in 1 .. n + 3 /\ \A v \in 1 .. n + 3 : v \in 0 .. n + 3
    BY <2>2, <2>3
  <2>13. 0 \in 0 .. n + 3
    BY <2>3
  <2> HIDE DEF n, cmp, inc, one
  <2>14. /\ "Gte" \in Ops \ Silent /\ "BranchIfTrue" \in Ops /\ "BranchIfTrue" # "Label"
         /\ "LoadConstImm" \in Ops \ Silent /\ "Add" \in Ops \ Silent
    BY DEF Ops, Silent, Transfers, AluOps, Binary, Arithmetic, Comparisons
  <2>15. /\ Adds(Tier1Inst("Gte", cmp, idx, len, 0), t)
         /\ Adds(Tier1Inst("LoadConstImm", one, 0, 0, 1), t)
         /\ Adds(Tier1Inst("Add", inc, idx, one, 0), t)
    BY DEF Adds, Tier1Inst, Transfers
  <2>16. Grows(l3, e1, t) /\ e1.vregs = n + 3
    <3>1. Grows(l3, e1, t) /\ Emitted(e1, l3, Tier1Inst("Gte", cmp, idx, len, 0))
      BY <2>10, <2>11, <2>12, <2>14, <2>15, EmitGrows
    <3> QED BY <2>11, <3>1 DEF Emitted
  <2> HIDE DEF e1
  <2>17. IsLowerer(e1)
    BY <2>16 DEF Grows
  <2>18. Grows(e1, e2, t) /\ e2.vregs = n + 3
    <3>1. Grows(e1, e2, t) /\ Emitted(e2, e1, Tier1Inst("BranchIfTrue", 0, cmp, 0, t))
      BY <2>12, <2>13, <2>14, <2>16, <2>17, SilentGrows
    <3> QED BY <2>16, <3>1 DEF Emitted
  <2> HIDE DEF e2
  <2>19. IsLowerer(e2)
    BY <2>18 DEF Grows
  <2>20. Grows(e2, e3, t) /\ e3.vregs = n + 3
    <3>1. Grows(e2, e3, t) /\ Emitted(e3, e2, Tier1Inst("LoadConstImm", one, 0, 0, 1))
      BY <2>12, <2>13, <2>14, <2>15, <2>18, <2>19, EmitGrows
    <3> QED BY <2>18, <3>1 DEF Emitted
  <2> HIDE DEF e3
  <2>21. IsLowerer(e3)
    BY <2>20 DEF Grows
  <2>22. Grows(e3, e4, t) /\ e4.vregs = n + 3
    <3>1. Grows(e3, e4, t) /\ Emitted(e4, e3, Tier1Inst("Add", inc, idx, one, 0))
      BY <2>12, <2>14, <2>15, <2>20, <2>21, EmitGrows
    <3> QED BY <2>20, <3>1 DEF Emitted
  <2> HIDE DEF e4
  <2>23. IsLowerer(e4)
    BY <2>22 DEF Grows
  <2>24. Grows(e4, p1, t) /\ p1.vregs = n + 3
    BY <2>12, <2>22, <2>23, PushGrows
  <2> HIDE DEF p1
  <2>25. IsLowerer(p1)
    BY <2>24 DEF Grows
  <2>26. Grows(p1, p2, t) /\ p2.vregs = n + 3
    BY <2>12, <2>24, <2>25, PushGrows
  <2> HIDE DEF p2
  <2>27. IsLowerer(p2)
    BY <2>26 DEF Grows
  <2>28. Grows(p2, p3, t) /\ p3.vregs = n + 3
    BY <2>12, <2>26, <2>27, PushGrows
  <2> HIDE DEF p3
  <2>29. IsLowerer(p3)
    BY <2>28 DEF Grows
  <2>30. Grows(p3, p4, t)
    BY <2>12, <2>28, <2>29, PushGrows
  <2> HIDE DEF p4
  <2>31. Grows(lo, e2, t)
    BY <2>9, <2>16, <2>18, GrowsTrans
  <2>32. Grows(lo, e4, t)
    BY <2>20, <2>22, <2>31, GrowsTrans
  <2>33. Grows(lo, p2, t)
    BY <2>24, <2>26, <2>32, GrowsTrans
  <2> QED BY <2>1, <2>28, <2>30, <2>33, GrowsTrans
<1> QED BY <1>1, <1>2

\* One push into a list does.
LEMMA AppendedGrows ==
  ASSUME NEW lo, IsLowerer(lo), NEW t, NEW list, list \in 1 .. lo.vregs
  PROVE  Grows(lo, Appended(lo, list), t)
<1> DEFINE l == Pops(lo, 1)
           v == l.popped[1]
           m == Emit(l, "ListAppend", 0, list, v, 0)
<1>1. Grows(lo, l, t) /\ v \in 1 .. l.vregs
  <2>1. Grows(lo, Pops(lo, 1), t) /\ \A i \in 1 .. 1 : Pops(lo, 1).popped[i] \in 1 .. Pops(lo, 1).vregs
    BY PopsGrows
  <2> QED BY ONLY <2>1
<1>2. Appended(lo, list) = m
  BY DEF Appended
<1> HIDE DEF l, v
<1>3. IsLowerer(l) /\ l.vregs \in Nat /\ lo.vregs \in Nat /\ lo.vregs <= l.vregs
  BY <1>1 DEF Grows, IsLowerer
<1>4. list \in 0 .. l.vregs /\ v \in 0 .. l.vregs
  BY <1>1, <1>3
<1>5. "ListAppend" \in Ops /\ "ListAppend" # "Label" /\ "ListAppend" \notin Transfers /\ 0 \in Int
  BY DEF Ops, HeapOps, Transfers
<1>6. Grows(l, m, t)
  BY <1>3, <1>4, <1>5, SilentGrows
<1> QED BY <1>1, <1>2, <1>6, GrowsTrans

\* All the pushes of BuildList do.
LEMMA FilledGrows ==
  ASSUME NEW lo, IsLowerer(lo), NEW t, NEW list, list \in 1 .. lo.vregs, NEW n \in Nat
  PROVE  Grows(lo, Filled(lo, list, n), t)
<1>1. PICK f : IsWalk("list", list, lo, n, f) /\ Filled(lo, list, n) = f[n]
  BY FilledIs
<1>2. f[0] = lo /\ \A k \in 1 .. n : f[k] = Appended(f[k - 1], list)
  BY <1>1 DEF IsWalk, Walk
<1> DEFINE Ks == {k \in Nat : k <= n => Grows(lo, f[k], t)}
<1>3. 0 \in Ks
  BY <1>2, GrowsRefl
<1>4. ASSUME NEW k \in Nat, k \in Ks
      PROVE  k + 1 \in Ks
  <2> SUFFICES ASSUME k + 1 <= n PROVE Grows(lo, f[k + 1], t)
    OBVIOUS
  <2>1. Grows(lo, f[k], t) /\ f[k + 1] = Appended(f[k], list)
    <3>1. k + 1 \in 1 .. n /\ k + 1 - 1 = k
      OBVIOUS
    <3> QED BY <1>2, <1>4, <3>1
  <2>2. IsLowerer(f[k]) /\ list \in 1 .. f[k].vregs
    BY <2>1 DEF Grows, IsLowerer
  <2>3. Grows(f[k], Appended(f[k], list), t)
    BY <2>2, AppendedGrows
  <2> QED BY <2>1, <2>3, GrowsTrans
<1> HIDE DEF Ks
<1>5. Nat \subseteq Ks
  BY <1>3, <1>4, Counting
<1>6. Grows(lo, f[n], t)
  BY <1>5 DEF Ks
<1> QED BY <1>1, <1>6

\* Lists, indices, calls and properties do.
LEMMA HeapGrows ==
  ASSUME NEW lo, IsLowerer(lo), NEW c, NEW ins, IsIns(c, ins),
         ins.op \in {"BuildList", "IndexGet", "IndexSet", "Call", "PropertyAccess", "PropertySet"}
  PROVE  Grows(lo, LowerHeap(lo, ins), ins.arg)
<1> DEFINE t == ins.arg
           m == LowerHeap(lo, ins)
<1>1. t \in Int
  BY DEF IsIns
<1>2. /\ "AllocList" \in Ops \ Silent /\ "ListGet" \in Ops \ Silent
      /\ "LoadConstImm" \in Ops \ Silent /\ "Call" \in Ops \ Silent /\ "GetField" \in Ops \ Silent
      /\ "ListSet" \in Ops /\ "ListSet" # "Label" /\ "ListSet" \notin Transfers
      /\ "SetField" \in Ops /\ "SetField" # "Label" /\ "SetField" \notin Transfers
  BY DEF Ops, HeapOps, Silent, Transfers
<1>3. ASSUME NEW n \in Nat
      PROVE  /\ Grows(lo, Pops(lo, n), t) /\ IsLowerer(Pops(lo, n)) /\ 0 \in 0 .. Pops(lo, n).vregs
             /\ \A i \in 1 .. n : /\ Pops(lo, n).popped[i] \in 1 .. Pops(lo, n).vregs
                                  /\ Pops(lo, n).popped[i] \in 0 .. Pops(lo, n).vregs
  <2> DEFINE l == Pops(lo, n)
  <2>1. Grows(lo, l, t) /\ \A i \in 1 .. n : l.popped[i] \in 1 .. l.vregs
    BY PopsGrows
  <2> HIDE DEF l
  <2>2. IsLowerer(l) /\ l.vregs \in Nat
    BY <2>1 DEF Grows, IsLowerer
  <2> QED BY <2>1, <2>2 DEF l
<1>4. CASE ins.op = "BuildList"
  <2> DEFINE list == lo.vregs + 1
             a == Alloc(lo)
             l == Emit(a, "AllocList", list, 0, 0, t)
             f == Filled(l, list, t)
  <2>1. m = Push(f, list)
    BY <1>4 DEF LowerHeap
  <2>2. Grows(lo, a, t) /\ a.vregs = list /\ lo.vregs \in Nat
    BY DropGrows DEF IsLowerer
  <2> HIDE DEF a
  <2>3. IsLowerer(a) /\ list \in 1 .. a.vregs /\ list \in 0 .. a.vregs /\ 0 \in 0 .. a.vregs
    BY <2>2 DEF Grows
  <2> HIDE DEF list
  <2>4. Adds(Tier1Inst("AllocList", list, 0, 0, t), t)
    BY DEF Adds, Tier1Inst, Transfers
  <2>5. Grows(a, l, t) /\ Emitted(l, a, Tier1Inst("AllocList", list, 0, 0, t))
    BY <1>1, <1>2, <2>3, <2>4, EmitGrows
  <2> HIDE DEF l
  <2>6. IsLowerer(l) /\ list \in 1 .. l.vregs
    BY <2>3, <2>5 DEF Grows, Emitted
  <2>7. t \in Nat
    BY <1>4 DEF IsIns
  <2>8. Grows(l, f, t)
    BY <2>6, <2>7, FilledGrows
  <2> HIDE DEF f
  <2>9. IsLowerer(f) /\ list \in 1 .. f.vregs
    BY <2>6, <2>8 DEF Grows, IsLowerer
  <2>10. Grows(f, Push(f, list), t)
    BY <2>9, PushGrows
  <2>11. Grows(lo, f, t)
    BY <2>2, <2>5, <2>8, GrowsTrans
  <2> QED BY <2>1, <2>10, <2>11, GrowsTrans
<1>5. CASE ins.op = "IndexGet"
  <2> DEFINE l == Pops(lo, 2)
             a == l.popped[1]
             b == l.popped[2]
  <2>1. m = Define(l, "ListGet", a, b, 0)
    BY <1>5 DEF LowerHeap
  <2>2. Grows(lo, l, t) /\ IsLowerer(l) /\ a \in 0 .. l.vregs /\ b \in 0 .. l.vregs
    BY <1>3
  <2> HIDE DEF l, a, b, m
  <2>3. Grows(l, Define(l, "ListGet", a, b, 0), t)
    BY <1>2, <2>2, DefineGrows
  <2>4. Grows(lo, m, t)
    BY <2>1, <2>2, <2>3, GrowsTrans
  <2> QED BY <2>4 DEF m
<1>6. CASE ins.op = "IndexSet"
  <2> DEFINE l == Pops(lo, 3)
             a == l.popped[1]
             b == l.popped[3]
             e == Emit(l, "ListSet", 0, a, b, 0)
  <2>1. m = Define(e, "LoadConstImm", 0, 0, 1)
    BY <1>6 DEF LowerHeap
  <2>2. Grows(lo, l, t) /\ IsLowerer(l) /\ a \in 0 .. l.vregs /\ b \in 0 .. l.vregs
    BY <1>3
  <2> HIDE DEF l, a, b, m
  <2>3. Grows(l, e, t)
    BY <1>2, <2>2, SilentGrows
  <2> HIDE DEF e
  <2>4. IsLowerer(e) /\ 0 \in 0 .. e.vregs
    BY <2>3 DEF Grows, IsLowerer
  <2>5. Grows(e, Define(e, "LoadConstImm", 0, 0, 1), t)
    BY <1>2, <2>4, DefineGrows
  <2>6. Grows(lo, e, t)
    BY <2>2, <2>3, GrowsTrans
  <2>7. Grows(lo, m, t)
    BY <2>1, <2>5, <2>6, GrowsTrans
  <2> QED BY <2>7 DEF m
<1>7. CASE ins.op = "Call"
  <2>1. t \in Nat /\ t + 1 \in Nat /\ 1 \in 1 .. t + 1
    BY <1>7 DEF IsIns
  <2> DEFINE l == Pops(lo, t + 1)
             a == l.popped[1]
  <2>2. m = Define(l, "Call", a, 0, t)
    BY <1>7 DEF LowerHeap
  <2>3. Grows(lo, l, t) /\ IsLowerer(l) /\ a \in 0 .. l.vregs /\ 0 \in 0 .. l.vregs
    BY <1>3, <2>1
  <2> HIDE DEF l, a, m
  <2>4. Grows(l, Define(l, "Call", a, 0, t), t)
    BY <1>1, <1>2, <2>3, DefineGrows
  <2>5. Grows(lo, m, t)
    BY <2>2, <2>3, <2>4, GrowsTrans
  <2> QED BY <2>5 DEF m
<1>8. CASE ins.op = "PropertyAccess"
  <2> DEFINE l == Pops(lo, 1)
             a == l.popped[1]
  <2>1. m = Define(l, "GetField", a, 0, t)
    BY <1>8 DEF LowerHeap
  <2>2. Grows(lo, l, t) /\ IsLowerer(l) /\ a \in 0 .. l.vregs /\ 0 \in 0 .. l.vregs
    BY <1>3
  <2> HIDE DEF l, a, m
  <2>3. Grows(l, Define(l, "GetField", a, 0, t), t)
    BY <1>1, <1>2, <2>2, DefineGrows
  <2>4. Grows(lo, m, t)
    BY <2>1, <2>2, <2>3, GrowsTrans
  <2> QED BY <2>4 DEF m
<1>9. CASE ins.op = "PropertySet"
  <2> DEFINE l == Pops(lo, 2)
             a == l.popped[1]
             b == l.popped[2]
             e == Emit(l, "SetField", 0, a, b, t)
  <2>1. m = Push(e, b)
    BY <1>9 DEF LowerHeap
  <2>2. /\ Grows(lo, l, t) /\ IsLowerer(l) /\ a \in 0 .. l.vregs /\ b \in 0 .. l.vregs
        /\ b \in 1 .. l.vregs
    BY <1>3
  <2> HIDE DEF l, a, b, m
  <2>3. Grows(l, e, t) /\ Emitted(e, l, Tier1Inst("SetField", 0, a, b, t))
    BY <1>1, <1>2, <2>2, SilentGrows
  <2> HIDE DEF e
  <2>4. IsLowerer(e) /\ b \in 1 .. e.vregs
    BY <2>2, <2>3 DEF Grows, Emitted
  <2>5. Grows(e, Push(e, b), t)
    BY <2>4, PushGrows
  <2>6. Grows(lo, e, t)
    BY <2>2, <2>3, GrowsTrans
  <2>7. Grows(lo, m, t)
    BY <2>1, <2>5, <2>6, GrowsTrans
  <2> QED BY <2>7 DEF m
<1> QED BY <1>4, <1>5, <1>6, <1>7, <1>8, <1>9

\* Jumps and ends do, and jump to their operand only.
LEMMA JumpGrows ==
  ASSUME NEW lo, IsLowerer(lo), NEW c, NEW ins, IsIns(c, ins),
         ins.op \in {"Jump", "JumpIfFalse", "Break", "Continue", "Halt", "Return",
                     "TryPush", "TryPop", "Import"}
  PROVE  Grows(lo, LowerJump(lo, ins), ins.arg)
<1> DEFINE t == ins.arg
           m == LowerJump(lo, ins)
<1>1. t \in Int /\ 0 \in 0 .. lo.vregs /\ 0 \in Int
  BY DEF IsIns, IsLowerer
<1>2. /\ "Jump" \in Ops /\ "Jump" # "Label" /\ "BranchIfFalse" \in Ops /\ "BranchIfFalse" # "Label"
      /\ "Halt" \in Ops /\ "Halt" # "Label" /\ "Halt" \notin Transfers
      /\ "Return" \in Ops /\ "Return" # "Label" /\ "Return" \notin Transfers
  BY DEF Ops, Silent, Transfers
<1>3. CASE ins.op = "Jump"
  <2>1. m = Emit(lo, "Jump", 0, 0, 0, t)
    BY <1>3 DEF LowerJump
  <2> HIDE DEF m
  <2>2. Grows(lo, m, t)
    BY <1>1, <1>2, <2>1, SilentGrows
  <2> QED BY <2>2 DEF m
<1>4. CASE ins.op \in {"Break", "Continue", "Halt"}
  <2>1. m = Emit(lo, "Halt", 0, 0, 0, 0)
    BY <1>4 DEF LowerJump
  <2> HIDE DEF m
  <2>2. Grows(lo, m, t)
    BY <1>1, <1>2, <2>1, SilentGrows
  <2> QED BY <2>2 DEF m
<1>5. CASE ins.op \in {"TryPush", "TryPop", "Import"}
  BY <1>5, GrowsRefl DEF LowerJump
<1>6. CASE ins.op \in {"JumpIfFalse", "Return"}
  <2> DEFINE l == Pops(lo, 1)
             v == l.popped[1]
             op == IF ins.op = "Return" THEN "Return" ELSE "BranchIfFalse"
             p == IF ins.op = "Return" THEN 0 ELSE t
  <2>1. m = Emit(l, op, 0, v, 0, p)
    BY <1>6 DEF LowerJump
  <2>2. Grows(lo, l, t) /\ v \in 1 .. l.vregs
    <3>1. Grows(lo, Pops(lo, 1), t) /\ \A i \in 1 .. 1 : Pops(lo, 1).popped[i] \in 1 .. Pops(lo, 1).vregs
      BY PopsGrows
    <3> QED BY ONLY <3>1
  <2>3. op \in Ops /\ op # "Label" /\ p \in Int /\ (op \in Transfers => p = t)
    BY <1>1, <1>2
  <2> HIDE DEF l, v, op, p, m
  <2>4. IsLowerer(l) /\ 0 \in 0 .. l.vregs /\ v \in 0 .. l.vregs
    BY <2>2 DEF Grows, IsLowerer
  <2>5. Grows(l, Emit(l, op, 0, v, 0, p), t)
    BY <2>3, <2>4, SilentGrows
  <2>6. Grows(lo, m, t)
    BY <2>1, <2>2, <2>5, GrowsTrans
  <2> QED BY <2>6 DEF m
<1> QED BY <1>3, <1>4, <1>5, <1>6

\* So any opcode grows the function, emits no label and jumps to its operand only.
LEMMA OpGrows ==
  ASSUME NEW lo, IsLowerer(lo), NEW c, NEW ins, IsIns(c, ins)
  PROVE  Grows(lo, LowerOp(c, lo, ins), ins.arg)
<1> DEFINE Loads == {"LoadConst", "LoadLocal", "LoadVar", "StoreLocal", "StoreVar", "Pop"}
           Sums == Binary \cup {"Div", "Pow", "Neg", "Not"}
           Loops == {"ForPrep", "ForIter"}
           Heap == {"BuildList", "IndexGet", "IndexSet", "Call", "PropertyAccess", "PropertySet"}
           Leaps == {"Jump", "JumpIfFalse", "Break", "Continue", "Halt", "Return",
                     "TryPush", "TryPop", "Import"}
<1>1. ins.op \in Loads \cup Sums \cup Loops \cup Heap \cup Leaps
  BY DEF IsIns, Opcodes, Jumps
<1>2. /\ \A op \in Loads : op \notin Sums \cup Loops \cup Heap \cup Leaps
      /\ \A op \in Sums : op \notin Loads \cup Loops \cup Heap \cup Leaps
      /\ \A op \in Loops : op \notin Loads \cup Sums \cup Heap \cup Leaps
      /\ \A op \in Heap : op \notin Loads \cup Sums \cup Loops \cup Leaps
      /\ \A op \in Leaps : op \notin Loads \cup Sums \cup Loops \cup Heap
  BY DEF Binary, Arithmetic, Comparisons, Logical
<1>3. LowerOp(c, lo, ins) =
        CASE ins.op \in Loads -> LowerLoad(c, lo, ins)
          [] ins.op \in Sums -> LowerArithmetic(lo, ins)
          [] ins.op \in Loops -> LowerLoop(lo, ins)
          [] ins.op \in Heap -> LowerHeap(lo, ins)
          [] OTHER -> LowerJump(lo, ins)
  BY DEF LowerOp
<1>4. CASE ins.op \in Loads
  <2>1. LowerOp(c, lo, ins) = LowerLoad(c, lo, ins)
    <3> HIDE DEF Loads, Sums, Loops, Heap, Leaps
    <3> QED BY <1>2, <1>3, <1>4
  <2> QED BY <1>4, <2>1, LoadGrows
<1>5. CASE ins.op \in Sums
  <2>1. LowerOp(c, lo, ins) = LowerArithmetic(lo, ins)
    <3> HIDE DEF Loads, Sums, Loops, Heap, Leaps
    <3> QED BY <1>2, <1>3, <1>5
  <2> QED BY <1>5, <2>1, ArithmeticGrows
<1>6. CASE ins.op \in Loops
  <2>1. LowerOp(c, lo, ins) = LowerLoop(lo, ins)
    <3> HIDE DEF Loads, Sums, Loops, Heap, Leaps
    <3> QED BY <1>2, <1>3, <1>6
  <2> QED BY <1>6, <2>1, LoopGrows DEF IsIns
<1>7. CASE ins.op \in Heap
  <2>1. LowerOp(c, lo, ins) = LowerHeap(lo, ins)
    <3> HIDE DEF Loads, Sums, Loops, Heap, Leaps
    <3> QED BY <1>2, <1>3, <1>7
  <2> QED BY <1>7, <2>1, HeapGrows
<1>8. CASE ins.op \in Leaps
  <2>1. LowerOp(c, lo, ins) = LowerJump(lo, ins)
    <3> HIDE DEF Loads, Sums, Loops, Heap, Leaps
    <3> QED BY <1>2, <1>3, <1>8
  <2> QED BY <1>8, <2>1, JumpGrows
<1> HIDE DEF Loads, Sums, Loops, Heap, Leaps
<1> QED BY <1>1, <1>4, <1>5, <1>6, <1>7, <1>8

-----------------------------------------------------------------------------

\* The lowerer when it has dealt with the label of position k.
Labelled(c, L, k) ==
  IF k \in Targets(c) THEN Emit(L[k - 1], "Label", 0, 0, 0, k) ELSE L[k - 1]

\* The label of position k.
Mark(k) == Tier1Inst("Label", 0, 0, 0, k)

\* The instruction position k begins with.
Start(L, k) == Len(L[k - 1].insts) + 1

\* What IsChunk says of each position.
LEMMA CodeOf ==
  ASSUME NEW c, IsChunk(c)
  PROVE  /\ Len(c.code) \in Nat /\ DOMAIN c.code = 1 .. Len(c.code)
         /\ \A k \in 1 .. Len(c.code) : IsIns(c, c.code[k])
<1> DEFINE s == c.code
           R == [op : Opcodes, arg : Int]
<1>1. s \in Seq(R)
  BY DEF IsChunk
<1> HIDE DEF s, R
<1>4. Len(s) \in Nat /\ DOMAIN s = 1 .. Len(s) /\ \A k \in 1 .. Len(s) : s[k] \in R
  BY <1>1
<1>5. \A r \in R : r.op \in Opcodes /\ r.arg \in Int
  BY DEF R
<1>2. /\ Len(s) \in Nat /\ DOMAIN s = 1 .. Len(s)
      /\ \A k \in 1 .. Len(s) : s[k].op \in Opcodes /\ s[k].arg \in Int
  BY <1>4, <1>5
<1>3. ASSUME NEW k \in 1 .. Len(s) PROVE IsIns(c, s[k])
  <2>1. k \in DOMAIN s
    BY <1>2
  <2>2. /\ s[k].op = "LoadConst" => c.constants[s[k].arg].i \in Int
        /\ s[k].op \in {"BuildList", "Call"} => s[k].arg \in Nat
    BY <2>1 DEF IsChunk, s
  <2> QED BY <1>2, <2>2 DEF IsIns
<1> QED BY <1>2, <1>3 DEF s

\* The lowerer begins well.
LEMMA StartIsLowerer == IsLowerer(LowererStart)
<1> DEFINE l == LowererStart
<1>1. /\ l.insts = <<>> /\ l.vregs = 0 /\ l.vstack = <<>> /\ l.popped = <<>>
      /\ l = [insts |-> l.insts, vregs |-> l.vregs, vstack |-> l.vstack, popped |-> l.popped]
  BY DEF LowererStart
<1>2. Within(<<>>, 0)
  BY DEF Within
<1> HIDE DEF l
<1>3. l.insts \in Seq(Instructions) /\ Len(l.insts) = 0
  BY <1>1
<1> QED BY <1>1, <1>2, <1>3 DEF IsLowerer, l

\* One position, from any lowerer.
LEMMA LabelGrows ==
  ASSUME NEW lo, IsLowerer(lo), NEW k \in Nat
  PROVE  /\ IsLowerer(Emit(lo, "Label", 0, 0, 0, k))
         /\ Emitted(Emit(lo, "Label", 0, 0, 0, k), lo, Mark(k))
<1>1. "Label" \in Ops /\ 0 \in 0 .. lo.vregs /\ k \in Int
  BY DEF Ops, Silent, IsLowerer
<1> QED BY <1>1, EmitGrows DEF Mark

\* A position of a chunk: its label, if it has one, and its opcode.
LEMMA PositionGrows ==
  ASSUME NEW c, IsChunk(c), NEW L, IsLowering(c, L), NEW k \in 1 .. Len(c.code),
         IsLowerer(L[k - 1])
  PROVE  /\ IsLowerer(Labelled(c, L, k))
         /\ k \in Targets(c) => Emitted(Labelled(c, L, k), L[k - 1], Mark(k))
         /\ L[k] = LowerOp(c, Labelled(c, L, k), c.code[k])
         /\ Grows(Labelled(c, L, k), L[k], c.code[k].arg)
<1>1. L[k] = LowerOp(c, Labelled(c, L, k), c.code[k])
  BY DEF IsLowering, IsWalk, Walk, LowerAt, Labelled
<1>2. k \in Nat /\ IsIns(c, c.code[k])
  BY CodeOf
<1>3. CASE k \in Targets(c)
  <2>1. Labelled(c, L, k) = Emit(L[k - 1], "Label", 0, 0, 0, k)
    BY <1>3 DEF Labelled
  <2>2. IsLowerer(Labelled(c, L, k)) /\ Emitted(Labelled(c, L, k), L[k - 1], Mark(k))
    BY <1>2, <2>1, LabelGrows
  <2> QED BY <1>1, <1>2, <2>2, OpGrows
<1>4. CASE k \notin Targets(c)
  <2>1. Labelled(c, L, k) = L[k - 1]
    BY <1>4 DEF Labelled
  <2> QED BY <1>1, <1>2, <1>4, <2>1, OpGrows
<1> QED BY <1>3, <1>4

\* Every position finds and leaves a well-formed lowerer.
LEMMA LowerersOf ==
  ASSUME NEW c, IsChunk(c), NEW L, IsLowering(c, L)
  PROVE  \A k \in 0 .. Len(c.code) : IsLowerer(L[k])
<1> DEFINE n == Len(c.code)
           Ks == {k \in Nat : k <= n => IsLowerer(L[k])}
<1>1. n \in Nat
  BY CodeOf
<1>2. 0 \in Ks
  BY StartIsLowerer DEF IsLowering, IsWalk
<1>3. ASSUME NEW k \in Nat, k \in Ks
      PROVE  k + 1 \in Ks
  <2> SUFFICES ASSUME k + 1 <= n PROVE IsLowerer(L[k + 1])
    OBVIOUS
  <2>1. k + 1 \in 1 .. n /\ k + 1 - 1 = k /\ IsLowerer(L[k])
    BY <1>1, <1>3
  <2>2. Grows(Labelled(c, L, k + 1), L[k + 1], c.code[k + 1].arg)
    BY <2>1, PositionGrows
  <2> QED BY <2>2 DEF Grows
<1> HIDE DEF Ks
<1>4. Nat \subseteq Ks
  BY <1>2, <1>3, Counting
<1> QED BY <1>1, <1>4 DEF Ks

\* What position k finds is what the positions before it left.
Keeps(l1, l2) ==
  /\ Len(l1.insts) \in Nat /\ Len(l2.insts) \in Nat
  /\ Len(l1.insts) <= Len(l2.insts)
  /\ \A p \in 1 .. Len(l1.insts) : l2.insts[p] = l1.insts[p]
  /\ l1.vregs \in Nat /\ l2.vregs \in Nat /\ l1.vregs <= l2.vregs

\* Keeping twice is keeping.
LEMMA KeepsTrans ==
  ASSUME NEW l1, NEW l2, NEW l3, Keeps(l1, l2), Keeps(l2, l3)
  PROVE  Keeps(l1, l3)
<1>1. /\ Len(l1.insts) \in Nat /\ Len(l2.insts) \in Nat /\ Len(l3.insts) \in Nat
      /\ Len(l1.insts) <= Len(l2.insts) /\ Len(l2.insts) <= Len(l3.insts)
      /\ l1.vregs \in Nat /\ l2.vregs \in Nat /\ l3.vregs \in Nat
      /\ l1.vregs <= l2.vregs /\ l2.vregs <= l3.vregs
  BY DEF Keeps
<1>2. \A p \in 1 .. Len(l1.insts) : l3.insts[p] = l1.insts[p]
  <2> TAKE p \in 1 .. Len(l1.insts)
  <2>1. p \in 1 .. Len(l2.insts)
    BY <1>1
  <2> QED BY <2>1 DEF Keeps
<1>3. Len(l1.insts) <= Len(l3.insts) /\ l1.vregs <= l3.vregs
  BY <1>1
<1> QED BY <1>1, <1>2, <1>3 DEF Keeps

\* A position keeps what was emitted before.
LEMMA PositionKeeps ==
  ASSUME NEW c, IsChunk(c), NEW L, IsLowering(c, L), NEW k \in 1 .. Len(c.code)
  PROVE  /\ Keeps(L[k - 1], Labelled(c, L, k)) /\ Keeps(Labelled(c, L, k), L[k])
         /\ Keeps(L[k - 1], L[k])
<1>1. k \in Nat \ {0} /\ k - 1 \in 0 .. Len(c.code) /\ k \in 0 .. Len(c.code)
  BY CodeOf
<1>2. IsLowerer(L[k - 1])
  BY <1>1, LowerersOf
<1>3. /\ IsLowerer(Labelled(c, L, k)) /\ Grows(Labelled(c, L, k), L[k], c.code[k].arg)
      /\ k \in Targets(c) => Emitted(Labelled(c, L, k), L[k - 1], Mark(k))
  BY <1>2, PositionGrows
<1>4. Keeps(Labelled(c, L, k), L[k])
  BY <1>3 DEF Grows, IsLowerer, Keeps
<1>5. Keeps(L[k - 1], Labelled(c, L, k))
  <2>1. CASE k \in Targets(c)
    <3> DEFINE s == L[k - 1].insts
               m == Labelled(c, L, k)
    <3>1. s \in Seq(Instructions) /\ L[k - 1].vregs \in Nat
      BY <1>2 DEF IsLowerer
    <3>2. m.insts = Append(s, Mark(k)) /\ m.vregs = L[k - 1].vregs
      BY <1>3, <2>1 DEF Emitted
    <3>3. m.insts \in Seq(Instructions)
      BY <1>3 DEF IsLowerer
    <3> HIDE DEF m, s
    <3>4. /\ Len(s) \in Nat /\ Len(m.insts) = Len(s) + 1
          /\ \A p \in 1 .. Len(s) : m.insts[p] = s[p]
      BY <3>1, <3>2
    <3> QED BY <3>1, <3>2, <3>4 DEF Keeps, m, s
  <2>2. CASE k \notin Targets(c)
    <3>1. Labelled(c, L, k) = L[k - 1]
      BY <2>2 DEF Labelled
    <3> QED BY <1>2, <3>1 DEF IsLowerer, Keeps
  <2> QED BY <2>1, <2>2
<1> QED BY <1>4, <1>5, KeepsTrans

\* So do all that follow.
LEMMA LoweringKeeps ==
  ASSUME NEW c, IsChunk(c), NEW L, IsLowering(c, L), NEW j \in 0 .. Len(c.code)
  PROVE  \A k \in j .. Len(c.code) : Keeps(L[j], L[k])
<1> DEFINE n == Len(c.code)
           Ks == {d \in Nat : j + d <= n => Keeps(L[j], L[j + d])}
<1>1. n \in Nat /\ j \in Nat
  BY CodeOf
<1>2. 0 \in Ks
  <2>1. IsLowerer(L[j])
    BY LowerersOf
  <2>2. Keeps(L[j], L[j])
    BY <2>1 DEF IsLowerer, Keeps
  <2> QED BY <1>1, <2>2
<1>3. ASSUME NEW d \in Nat, d \in Ks
      PROVE  d + 1 \in Ks
  <2> SUFFICES ASSUME j + (d + 1) <= n PROVE Keeps(L[j], L[j + (d + 1)])
    OBVIOUS
  <2>1. j + (d + 1) \in 1 .. n /\ j + (d + 1) - 1 = j + d /\ Keeps(L[j], L[j + d])
    BY <1>1, <1>3
  <2>2. Keeps(L[j + d], L[j + (d + 1)])
    BY <2>1, PositionKeeps
  <2> QED BY <2>1, <2>2, KeepsTrans
<1> HIDE DEF Ks
<1>4. Nat \subseteq Ks
  BY <1>2, <1>3, Counting
<1>5. ASSUME NEW k \in j .. n
      PROVE  Keeps(L[j], L[k])
  <2>1. k - j \in Nat /\ j + (k - j) = k /\ k <= n
    BY <1>1
  <2> QED BY <1>4, <2>1 DEF Ks
<1> QED BY <1>5

\* The labels are where their positions begin.
LEMMA LabelsOf ==
  ASSUME NEW c, IsChunk(c), NEW L, IsLowering(c, L)
  PROVE  \A k \in 0 .. Len(c.code) : \A p \in 1 .. Len(L[k].insts) :
           L[k].insts[p].op = "Label" =>
             L[k].insts[p].payload \in 1 .. k /\ p = Start(L, L[k].insts[p].payload)
<1> DEFINE n == Len(c.code)
           Good(k) == \A p \in 1 .. Len(L[k].insts) :
                        L[k].insts[p].op = "Label" =>
                          L[k].insts[p].payload \in 1 .. k /\ p = Start(L, L[k].insts[p].payload)
           Ks == {k \in Nat : k <= n => Good(k)}
<1>1. n \in Nat
  BY CodeOf
<1>2. 0 \in Ks
  <2>1. L[0].insts = <<>>
    BY DEF IsLowering, IsWalk, LowererStart
  <2> QED BY <2>1
<1>3. ASSUME NEW k \in Nat, k \in Ks
      PROVE  k + 1 \in Ks
  <2> DEFINE i == k + 1
             m == Labelled(c, L, i)
  <2> SUFFICES ASSUME i <= n PROVE Good(i)
    OBVIOUS
  <2>1. i \in 1 .. n /\ i - 1 = k /\ Good(k) /\ k \in 0 .. n
    BY <1>1, <1>3
  <2>2. Keeps(L[k], m) /\ Keeps(m, L[i]) /\ IsLowerer(L[k])
    BY <2>1, PositionKeeps, LowerersOf
  <2>3. /\ Grows(m, L[i], c.code[i].arg)
        /\ i \in Targets(c) => Emitted(m, L[k], Mark(i))
    BY <2>1, <2>2, PositionGrows
  <2>4. i \notin Targets(c) => m = L[k]
    BY <2>1 DEF Labelled
  <2>5. Start(L, i) = Len(L[k].insts) + 1
    BY <2>1 DEF Start
  <2> HIDE DEF m
  <2> SUFFICES ASSUME NEW p \in 1 .. Len(L[i].insts), L[i].insts[p].op = "Label"
               PROVE  L[i].insts[p].payload \in 1 .. i /\ p = Start(L, L[i].insts[p].payload)
    OBVIOUS
  <2>6. Len(m.insts) \in Nat /\ Len(L[i].insts) \in Nat /\ Len(L[k].insts) \in Nat /\ p \in Nat
    BY <2>2 DEF Keeps
  <2>7. p \in 1 .. Len(m.insts)
    <3>1. CASE p > Len(m.insts)
      <4>1. p \in Len(m.insts) + 1 .. Len(L[i].insts)
        BY <2>6, <3>1
      <4>2. Adds(L[i].insts[p], c.code[i].arg)
        BY <2>3, <4>1 DEF Grows
      <4> QED BY <4>2 DEF Adds
    <3> QED BY <2>6, <3>1
  <2>8. L[i].insts[p] = m.insts[p]
    BY <2>2, <2>7 DEF Keeps
  <2>9. CASE p \in 1 .. Len(L[k].insts)
    <3>1. m.insts[p] = L[k].insts[p]
      BY <2>2, <2>9 DEF Keeps
    <3>2. L[k].insts[p].payload \in 1 .. k /\ p = Start(L, L[k].insts[p].payload)
      BY <2>1, <2>8, <2>9, <3>1
    <3> QED BY <2>1, <2>8, <3>1, <3>2
  <2>10. CASE p \notin 1 .. Len(L[k].insts)
    <3>1. i \in Targets(c)
      BY <2>4, <2>7, <2>10
    <3>2. m.insts = Append(L[k].insts, Mark(i)) /\ L[k].insts \in Seq(Instructions)
      BY <2>2, <2>3, <3>1 DEF Emitted, IsLowerer
    <3>3. Len(m.insts) = Len(L[k].insts) + 1 /\ m.insts[Len(L[k].insts) + 1] = Mark(i)
      BY <3>2
    <3>4. p = Len(L[k].insts) + 1
      BY <2>6, <2>7, <2>10, <3>3
    <3>5. m.insts[p].payload = i
      BY <3>3, <3>4 DEF Mark, Tier1Inst
    <3> QED BY <2>1, <2>5, <2>8, <3>4, <3>5
  <2> QED BY <2>9, <2>10
<1> HIDE DEF Ks
<1>4. Nat \subseteq Ks
  BY <1>2, <1>3, Counting
<1> QED BY <1>1, <1>4 DEF Ks

\* The function of a chunk.
LEMMA FunctionOf ==
  ASSUME NEW c, IsChunk(c), NEW L, IsLowering(c, L), NEW f,
         f = Tier1Function(L[Len(c.code)].insts, L[Len(c.code)].vregs)
  PROVE  /\ IsFunction(f)
         /\ \A k \in 0 .. Len(c.code) :
              /\ Len(L[k].insts) \in Nat /\ Len(L[k].insts) <= Len(f.insts)
              /\ L[k].vregs \in Nat /\ L[k].vregs <= f.vregs
              /\ \A p \in 1 .. Len(L[k].insts) : f.insts[p] = L[k].insts[p]
         /\ \A k \in 1 .. Len(c.code) : k \in Targets(c) =>
              LabelIndex(f, k) = Start(L, k) /\ f.insts[Start(L, k)] = Mark(k)
<1> DEFINE n == Len(c.code)
<1>1. n \in Nat /\ n \in 0 .. n
  BY CodeOf
<1>2. f.insts = L[n].insts /\ f.vregs = L[n].vregs
  BY DEF Tier1Function
<1>3. IsLowerer(L[n])
  BY <1>1, LowerersOf
<1>4. IsFunction(f)
  <2>1. f.insts \in Seq(Instructions) /\ f.vregs \in Nat
    BY <1>2, <1>3 DEF IsLowerer
  <2>2. \A k \in DOMAIN f.insts : Fits(f.insts[k], f.vregs)
    <3>1. DOMAIN f.insts = 1 .. Len(f.insts)
      BY <2>1
    <3> QED BY <1>2, <1>3, <3>1 DEF IsLowerer
  <2>3. WellFormed(f)
    BY <2>2 DEF WellFormed, Fits
  <2> QED BY <2>1, <2>3 DEF IsFunction
<1>5. \A k \in 0 .. n : Keeps(L[k], L[n])
  <2> TAKE k \in 0 .. n
  <2>1. n \in k .. n
    BY <1>1
  <2> QED BY <2>1, LoweringKeeps
<1>6. ASSUME NEW k \in 1 .. n, k \in Targets(c)
      PROVE  LabelIndex(f, k) = Start(L, k) /\ f.insts[Start(L, k)] = Mark(k)
  <2> DEFINE m == Labelled(c, L, k)
             p == Start(L, k)
  <2>1. k \in 0 .. n /\ k - 1 \in 0 .. n
    BY <1>1
  <2>2. IsLowerer(L[k - 1]) /\ Keeps(m, L[k]) /\ Keeps(L[k], L[n])
    BY <1>5, <2>1, PositionKeeps, LowerersOf
  <2>3. Emitted(m, L[k - 1], Mark(k))
    BY <1>6, <2>2, PositionGrows
  <2> HIDE DEF m
  <2>4. m.insts = Append(L[k - 1].insts, Mark(k)) /\ L[k - 1].insts \in Seq(Instructions)
    BY <2>2, <2>3 DEF Emitted, IsLowerer
  <2>5. Len(m.insts) = p /\ m.insts[p] = Mark(k) /\ p \in Nat \ {0}
    BY <2>4 DEF Start
  <2> HIDE DEF p
  <2>6. Keeps(m, L[n]) /\ p \in 1 .. Len(m.insts)
    BY <2>2, <2>5, KeepsTrans
  <2>7. L[n].insts[p] = Mark(k) /\ p \in 1 .. Len(L[n].insts)
    BY <2>5, <2>6 DEF Keeps
  <2>8. f.insts[p] = Mark(k) /\ p \in DOMAIN f.insts
    BY <1>2, <1>4, <2>7, InstructionsOf
  <2>9. f.insts[p].op = "Label" /\ f.insts[p].payload = k
    BY <2>8 DEF Mark, Tier1Inst
  <2>10. ASSUME NEW q \in DOMAIN f.insts, f.insts[q].op = "Label", f.insts[q].payload = k
         PROVE  q = p
    <3>1. q \in 1 .. Len(L[n].insts)
      BY <1>2, <1>4, InstructionsOf
    <3> QED BY <1>1, <1>2, <2>10, <3>1, LabelsOf DEF p
  <2>11. LabelIndex(f, k) = p
    BY <2>8, <2>9, <2>10 DEF LabelIndex
  <2> QED BY <2>8, <2>11 DEF p
<1>7. \A k \in 0 .. n : /\ Len(L[k].insts) \in Nat /\ Len(L[k].insts) <= Len(f.insts)
                        /\ L[k].vregs \in Nat /\ L[k].vregs <= f.vregs
                        /\ \A p \in 1 .. Len(L[k].insts) : f.insts[p] = L[k].insts[p]
  BY <1>2, <1>5 DEF Keeps
<1> QED BY <1>4, <1>6, <1>7

-----------------------------------------------------------------------------

\* n registers leave the virtual stack, and a new one comes that an
\* instruction defines, or none.
Computes(l, lo, n, op, src1, src2, payload) ==
  /\ l.insts = Append(lo.insts, Tier1Inst(op, lo.vregs + 1, src1, src2, payload))
  /\ l.vregs = lo.vregs + 1
  /\ Len(l.vstack) = Len(lo.vstack) - n + 1
  /\ l.vstack[Len(lo.vstack) - n + 1] = lo.vregs + 1
  /\ \A i \in 1 .. Len(lo.vstack) - n : l.vstack[i] = lo.vstack[i]

\* n registers leave, and an instruction comes that defines nothing.
Does(l, lo, n, op, src1, payload) ==
  /\ l.insts = Append(lo.insts, Tier1Inst(op, 0, src1, 0, payload))
  /\ l.vregs = lo.vregs
  /\ Len(l.vstack) = Len(lo.vstack) - n
  /\ \A i \in 1 .. Len(lo.vstack) - n : l.vstack[i] = lo.vstack[i]

\* Taking n registers, then defining one.
LEMMA DefinedComputes ==
  ASSUME NEW lo, IsLowerer(lo), NEW n \in Nat, n <= Len(lo.vstack),
         NEW l, IsLowerer(l), Took(l, lo, n),
         NEW m, NEW op, NEW src1, NEW src2, NEW payload, Defined(m, l, op, src1, src2, payload)
  PROVE  Computes(m, lo, n, op, src1, src2, payload)
<1>1. l.vstack \in Seq(Nat) /\ l.vregs \in Nat /\ Len(lo.vstack) \in Nat
  BY DEF IsLowerer, Within
<1>2. l.insts = lo.insts /\ l.vregs = lo.vregs /\ Len(l.vstack) = Len(lo.vstack) - n
  BY DEF Took
<1>3. /\ m.insts = Append(lo.insts, Tier1Inst(op, lo.vregs + 1, src1, src2, payload))
      /\ m.vregs = lo.vregs + 1 /\ m.vstack = Append(l.vstack, l.vregs + 1)
  BY <1>2 DEF Defined
<1>4. /\ Len(m.vstack) = Len(l.vstack) + 1 /\ m.vstack[Len(l.vstack) + 1] = l.vregs + 1
      /\ \A i \in 1 .. Len(l.vstack) : m.vstack[i] = l.vstack[i]
  BY <1>1, <1>3
<1>5. \A i \in 1 .. Len(lo.vstack) - n : m.vstack[i] = lo.vstack[i]
  BY <1>2, <1>4 DEF Took
<1> QED BY <1>2, <1>3, <1>4, <1>5 DEF Computes

\* Taking n registers, then emitting an instruction.
LEMMA EmittedDoes ==
  ASSUME NEW lo, NEW n, NEW l, Took(l, lo, n),
         NEW m, NEW op, NEW src1, NEW payload, Emitted(m, l, Tier1Inst(op, 0, src1, 0, payload))
  PROVE  Does(m, lo, n, op, src1, payload)
BY DEF Emitted, Took, Does

\* Taking none.
LEMMA TookNone ==
  ASSUME NEW lo, IsLowerer(lo)
  PROVE  Took(lo, lo, 0)
BY DEF Took, IsLowerer, Within

\* Which arm of the switch an opcode takes.
LEMMA ArmOf ==
  ASSUME NEW c, NEW lo, NEW ins
  PROVE  /\ ins.op \in {"LoadConst", "LoadLocal", "StoreLocal", "Pop"} =>
              LowerOp(c, lo, ins) = LowerLoad(c, lo, ins)
         /\ ins.op \in Binary \cup {"Neg", "Not"} => LowerOp(c, lo, ins) = LowerArithmetic(lo, ins)
         /\ ins.op \in {"Jump", "JumpIfFalse", "Return", "Halt"} =>
              LowerOp(c, lo, ins) = LowerJump(lo, ins)
<1> DEFINE op == ins.op
           Loads == {"LoadConst", "LoadLocal", "LoadVar", "StoreLocal", "StoreVar", "Pop"}
           Sums == Binary \cup {"Div", "Pow", "Neg", "Not"}
           Rounds == {"ForPrep", "ForIter"}
           Heap == {"BuildList", "IndexGet", "IndexSet", "Call", "PropertyAccess", "PropertySet"}
<1>1. LowerOp(c, lo, ins) =
        CASE op \in Loads -> LowerLoad(c, lo, ins)
          [] op \in Sums -> LowerArithmetic(lo, ins)
          [] op \in Rounds -> LowerLoop(lo, ins)
          [] op \in Heap -> LowerHeap(lo, ins)
          [] OTHER -> LowerJump(lo, ins)
  BY DEF LowerOp
<1>2. /\ op \in {"LoadConst", "LoadLocal", "StoreLocal", "Pop"} =>
           op \in Loads /\ op \notin Sums \cup Rounds \cup Heap
      /\ op \in Binary \cup {"Neg", "Not"} => op \in Sums /\ op \notin Loads \cup Rounds \cup Heap
      /\ op \in {"Jump", "JumpIfFalse", "Return", "Halt"} =>
           op \notin Loads \cup Sums \cup Rounds \cup Heap
  BY DEF Binary, Arithmetic, Comparisons, Logical
<1> HIDE DEF Loads, Sums, Rounds, Heap
<1> QED BY <1>1, <1>2

\* What Spark's operations become.
LEMMA LowersLoad ==
  ASSUME NEW c, NEW lo, IsLowerer(lo), NEW ins, IsIns(c, ins)
  PROVE  /\ ins.op = "LoadConst" /\ c.constants[ins.arg].type = "NumberInt" =>
              Computes(LowerOp(c, lo, ins), lo, 0, "LoadConstImm", 0, 0, c.constants[ins.arg].i)
         /\ ins.op = "LoadLocal" =>
              Computes(LowerOp(c, lo, ins), lo, 0, "LoadLocal", 0, 0, ins.arg)
<1>1. lo.vregs \in Nat /\ 0 \in 0 .. lo.vregs /\ Took(lo, lo, 0) /\ 0 <= Len(lo.vstack)
  BY TookNone DEF IsLowerer, Within
<1>2. "LoadConstImm" \in Ops \ Silent /\ "LoadLocal" \in Ops \ Silent
  BY DEF Ops, Silent, Transfers
<1>3. ASSUME ins.op = "LoadConst", c.constants[ins.arg].type = "NumberInt"
      PROVE  Computes(LowerOp(c, lo, ins), lo, 0, "LoadConstImm", 0, 0, c.constants[ins.arg].i)
  <2> DEFINE i == c.constants[ins.arg].i
             m == Define(lo, "LoadConstImm", 0, 0, i)
  <2>1. LowerOp(c, lo, ins) = m
    BY <1>3, ArmOf DEF LowerLoad
  <2>2. i \in Int
    BY <1>3 DEF IsIns
  <2> HIDE DEF i
  <2>3. Defined(m, lo, "LoadConstImm", 0, 0, i)
    BY <1>1, <1>2, <2>2, DefineGrows
  <2> HIDE DEF m
  <2>4. Computes(m, lo, 0, "LoadConstImm", 0, 0, i)
    BY <1>1, <2>3, DefinedComputes
  <2> QED BY <2>1, <2>4 DEF i
<1>4. ASSUME ins.op = "LoadLocal"
      PROVE  Computes(LowerOp(c, lo, ins), lo, 0, "LoadLocal", 0, 0, ins.arg)
  <2> DEFINE i == ins.arg
             m == Define(lo, "LoadLocal", 0, 0, i)
  <2>1. LowerOp(c, lo, ins) = m
    BY <1>4, ArmOf DEF LowerLoad
  <2>2. i \in Int
    BY DEF IsIns
  <2> HIDE DEF i
  <2>3. Defined(m, lo, "LoadLocal", 0, 0, i)
    BY <1>1, <1>2, <2>2, DefineGrows
  <2> HIDE DEF m
  <2>4. Computes(m, lo, 0, "LoadLocal", 0, 0, i)
    BY <1>1, <2>3, DefinedComputes
  <2> QED BY <2>1, <2>4 DEF i
<1> QED BY <1>3, <1>4

\* Arithmetic and comparisons become the instruction of the same name over the
\* registers of their operands.
LEMMA LowersSum ==
  ASSUME NEW c, NEW lo, IsLowerer(lo), NEW ins, IsIns(c, ins),
         ins.op \in Binary \cup {"Neg", "Not"}, Needs(ins.op) <= Len(lo.vstack)
  PROVE  Computes(LowerOp(c, lo, ins), lo, Needs(ins.op), ins.op,
                  lo.vstack[Len(lo.vstack) - Needs(ins.op) + 1],
                  IF ins.op \in Binary THEN lo.vstack[Len(lo.vstack)] ELSE 0, 0)
<1> DEFINE op == ins.op
           n == Needs(op)
           len == Len(lo.vstack)
           l == Pops(lo, n)
           a == lo.vstack[len - n + 1]
           b == IF op \in Binary THEN lo.vstack[len] ELSE 0
           m == Define(l, op, a, b, 0)
<1>1. op \in Ops \ Silent
  BY DEF Ops, AluOps, Silent, Transfers, Binary, Arithmetic, Comparisons, Logical
<1>2. n = IF op \in Binary THEN 2 ELSE 1
  BY DEF Needs
<1>3. /\ IsLowerer(l) /\ l.vregs \in Nat /\ \A i \in 1 .. n : l.popped[i] \in 1 .. l.vregs
      /\ Took(l, lo, n)
  <2>1. n \in Nat /\ n <= len
    BY <1>2
  <2> HIDE DEF n
  <2>2. /\ Grows(lo, l, 0) /\ \A i \in 1 .. n : l.popped[i] \in 1 .. l.vregs
        /\ Took(l, lo, n)
    BY <2>1, PopsGrows
  <2> HIDE DEF l
  <2> QED BY <2>2 DEF Grows, IsLowerer
<1>4. len \in Nat
  BY DEF IsLowerer, Within
<1>5. LowerOp(c, lo, ins) = LowerArithmetic(lo, ins)
  BY ArmOf
<1>6. op \in Binary <=> op \notin {"Neg", "Not"}
  BY DEF Binary, Arithmetic, Comparisons, Logical
<1>7. l.popped[1] = a /\ (op \in Binary => l.popped[2] = b)
  <2> HIDE DEF l, n, len
  <2>1. \A i \in 1 .. n : l.popped[i] = lo.vstack[len - n + i]
    BY <1>3 DEF Took, len
  <2>2. 1 \in 1 .. n /\ (op \in Binary => 2 \in 1 .. n /\ len - n + 2 = len)
    BY <1>2, <1>4
  <2>3. l.popped[1] = a
    BY <2>1, <2>2
  <2>4. op \in Binary => l.popped[2] = lo.vstack[len]
    BY <2>1, <2>2
  <2> QED BY <2>3, <2>4
<1>8. LowerArithmetic(lo, ins) = m
  <2>1. CASE op \in Binary
    <3>1. LowerArithmetic(lo, ins) = Define(l, op, l.popped[1], l.popped[2], 0)
      BY <1>2, <1>6, <2>1 DEF LowerArithmetic
    <3> QED BY <1>7, <2>1, <3>1
  <2>2. CASE op \notin Binary
    <3>1. LowerArithmetic(lo, ins) = Define(l, op, l.popped[1], 0, 0)
      BY <1>2, <1>6, <2>2 DEF LowerArithmetic
    <3> QED BY <1>7, <2>2, <3>1
  <2> QED BY <2>1, <2>2
<1>9. a \in 0 .. l.vregs /\ b \in 0 .. l.vregs
  <2> HIDE DEF l, a, b, n
  <2>1. 1 \in 1 .. n /\ (op \in Binary => 2 \in 1 .. n)
    BY <1>2
  <2>2. a \in 1 .. l.vregs /\ (op \in Binary => b \in 1 .. l.vregs)
    BY <1>3, <1>7, <2>1
  <2>3. op \notin Binary => b = 0
    BY DEF b
  <2> QED BY <1>3, <2>2, <2>3
<1> HIDE DEF l, a, b, n, op
<1>10. Defined(m, l, op, a, b, 0)
  <2>1. 0 \in Int /\ op \in Ops \ Silent
    BY <1>1 DEF op
  <2> QED BY <1>3, <1>9, <2>1, DefineGrows
<1> HIDE DEF m
<1>11. Computes(m, lo, n, op, a, b, 0)
  <2>1. n \in Nat /\ n <= Len(lo.vstack)
    BY <1>2 DEF n, op
  <2> QED BY <1>3, <1>10, <2>1, DefinedComputes
<1> QED BY <1>5, <1>8, <1>11 DEF a, b, n, op

\* StoreLocal, the jumps and the ends become one instruction that defines nothing.
LEMMA LowersQuiet ==
  ASSUME NEW c, NEW lo, IsLowerer(lo), NEW ins, IsIns(c, ins), Needs(ins.op) <= Len(lo.vstack)
  PROVE  /\ ins.op = "StoreLocal" =>
              Does(LowerOp(c, lo, ins), lo, 0, "StoreLocal", lo.vstack[Len(lo.vstack)], ins.arg)
         /\ ins.op = "Jump" => Does(LowerOp(c, lo, ins), lo, 0, "Jump", 0, ins.arg)
         /\ ins.op = "JumpIfFalse" =>
              Does(LowerOp(c, lo, ins), lo, 1, "BranchIfFalse", lo.vstack[Len(lo.vstack)], ins.arg)
         /\ ins.op = "Return" =>
              Does(LowerOp(c, lo, ins), lo, 1, "Return", lo.vstack[Len(lo.vstack)], 0)
         /\ ins.op = "Halt" => Does(LowerOp(c, lo, ins), lo, 0, "Halt", 0, 0)
<1> DEFINE t == ins.arg
           top == lo.vstack[Len(lo.vstack)]
<1>1. /\ lo.vregs \in Nat /\ 0 \in 0 .. lo.vregs /\ Took(lo, lo, 0) /\ t \in Int
      /\ Len(lo.vstack) \in Nat /\ lo.vstack \in Seq(Nat)
      /\ \A i \in 1 .. Len(lo.vstack) : lo.vstack[i] \in 1 .. lo.vregs
  BY TookNone DEF IsLowerer, Within, IsIns
<1>2. /\ \A op \in {"StoreLocal", "Jump", "BranchIfFalse", "Return", "Halt"} : op \in Ops /\ op # "Label"
      /\ \A op \in {"StoreLocal", "Return", "Halt"} : op \notin Transfers
  BY DEF Ops, Silent, Transfers
<1>3. ASSUME ins.op = "StoreLocal"
      PROVE  Does(LowerOp(c, lo, ins), lo, 0, "StoreLocal", top, t)
  <2> DEFINE l == Peeked(lo)
             m == Emit(l, "StoreLocal", 0, l.popped[1], 0, t)
  <2>1. LowerOp(c, lo, ins) = m
    BY <1>3, ArmOf DEF LowerLoad
  <2>2. 1 <= Len(lo.vstack)
    BY <1>3 DEF Needs, Binary, Arithmetic, Comparisons, Logical
  <2>3. /\ IsLowerer(l) /\ l.insts = lo.insts /\ l.vregs = lo.vregs /\ l.vstack = lo.vstack
        /\ l.popped[1] = top
    BY <1>1, <2>2, PeekedGrows DEF Grows
  <2>4. top \in 0 .. l.vregs /\ 0 \in 0 .. l.vregs
    <3>1. Len(lo.vstack) \in 1 .. Len(lo.vstack)
      BY <1>1, <2>2
    <3>2. top \in 1 .. lo.vregs
      BY <1>1, <3>1
    <3> QED BY <1>1, <2>3, <3>2
  <2> HIDE DEF l, top, t
  <2>5. Emitted(m, l, Tier1Inst("StoreLocal", 0, top, 0, t))
    BY <1>1, <1>2, <2>3, <2>4, SilentGrows
  <2>6. Took(l, lo, 0)
    BY <1>1, <2>3 DEF Took
  <2> HIDE DEF m
  <2> QED BY <2>1, <2>5, <2>6, EmittedDoes
<1>4. ASSUME ins.op = "Jump"
      PROVE  Does(LowerOp(c, lo, ins), lo, 0, "Jump", 0, t)
  <2> DEFINE m == Emit(lo, "Jump", 0, 0, 0, t)
  <2>1. LowerOp(c, lo, ins) = m
    BY <1>4, ArmOf DEF LowerJump
  <2> HIDE DEF t
  <2>2. Emitted(m, lo, Tier1Inst("Jump", 0, 0, 0, t))
    BY <1>1, <1>2, SilentGrows
  <2> HIDE DEF m
  <2> QED BY <1>1, <2>1, <2>2, EmittedDoes
<1>5. ASSUME ins.op = "Halt"
      PROVE  Does(LowerOp(c, lo, ins), lo, 0, "Halt", 0, 0)
  <2> DEFINE m == Emit(lo, "Halt", 0, 0, 0, 0)
  <2>1. LowerOp(c, lo, ins) = m
    BY <1>5, ArmOf DEF LowerJump
  <2>3. "Halt" \in Ops /\ "Halt" # "Label" /\ "Halt" \notin Transfers /\ 0 \in Int
    BY <1>2
  <2>2. Emitted(m, lo, Tier1Inst("Halt", 0, 0, 0, 0))
    BY <1>1, <2>3, SilentGrows
  <2> HIDE DEF m
  <2> QED BY <1>1, <2>1, <2>2, EmittedDoes
<1>6. ASSUME ins.op \in {"JumpIfFalse", "Return"}
      PROVE  /\ ins.op = "JumpIfFalse" => Does(LowerOp(c, lo, ins), lo, 1, "BranchIfFalse", top, t)
             /\ ins.op = "Return" => Does(LowerOp(c, lo, ins), lo, 1, "Return", top, 0)
  <2> DEFINE l == Pops(lo, 1)
             op == IF ins.op = "Return" THEN "Return" ELSE "BranchIfFalse"
             p == IF ins.op = "Return" THEN 0 ELSE t
             m == Emit(l, op, 0, l.popped[1], 0, p)
  <2>1. LowerOp(c, lo, ins) = m
    BY <1>6, ArmOf DEF LowerJump
  <2>2. 1 <= Len(lo.vstack)
    BY <1>6 DEF Needs, Binary, Arithmetic, Comparisons, Logical
  <2>3. IsLowerer(l) /\ Took(l, lo, 1)
    BY <2>2, PopsGrows DEF Grows
  <2>4. l.popped[1] = top
    <3> HIDE DEF l
    <3>1. \A i \in 1 .. 1 : l.popped[i] = lo.vstack[Len(lo.vstack) - 1 + i]
      BY <2>3 DEF Took
    <3>2. 1 \in 1 .. 1 /\ Len(lo.vstack) - 1 + 1 = Len(lo.vstack)
      BY <1>1
    <3>3. l.popped[1] = lo.vstack[Len(lo.vstack) - 1 + 1]
      BY <3>1, <3>2
    <3> QED BY <3>2, <3>3
  <2>5. l.vregs = lo.vregs
    BY <2>3 DEF Took
  <2>6. top \in 0 .. l.vregs /\ 0 \in 0 .. l.vregs
    <3>1. Len(lo.vstack) \in 1 .. Len(lo.vstack)
      BY <1>1, <2>2
    <3>2. top \in 1 .. lo.vregs
      BY <1>1, <3>1
    <3> QED BY <1>1, <2>5, <3>2
  <2>7. op \in Ops /\ op # "Label" /\ p \in Int
    BY <1>1, <1>2
  <2>8. op \in Transfers => p = t
    BY <1>2
  <2> HIDE DEF l, top, t, op, p
  <2>9. Emitted(m, l, Tier1Inst(op, 0, top, 0, p))
    BY <2>3, <2>4, <2>6, <2>7, <2>8, SilentGrows
  <2> HIDE DEF m
  <2>10. Does(m, lo, 1, op, top, p)
    BY <2>3, <2>9, EmittedDoes
  <2> QED BY <2>1, <2>10 DEF op, p
<1> QED BY <1>3, <1>4, <1>5, <1>6

\* Pop becomes no instruction.
LEMMA LowersPop ==
  ASSUME NEW c, NEW lo, IsLowerer(lo), NEW ins, ins.op = "Pop", 1 <= Len(lo.vstack)
  PROVE  /\ LowerOp(c, lo, ins).insts = lo.insts
         /\ Len(LowerOp(c, lo, ins).vstack) = Len(lo.vstack) - 1
         /\ \A i \in 1 .. Len(lo.vstack) - 1 : LowerOp(c, lo, ins).vstack[i] = lo.vstack[i]
<1> DEFINE m == LowerOp(c, lo, ins)
<1>1. lo.vstack \in Seq(Nat) /\ lo.vstack # <<>>
  BY DEF IsLowerer, Within
<1>2. m = [lo EXCEPT !.vstack = Front(lo.vstack)]
  BY <1>1, ArmOf DEF LowerLoad
<1>3. lo = [insts |-> lo.insts, vregs |-> lo.vregs, vstack |-> lo.vstack, popped |-> lo.popped]
  BY DEF IsLowerer
<1> HIDE DEF m
<1>4. m.insts = lo.insts /\ m.vstack = Front(lo.vstack)
  BY <1>2, <1>3
<1> DEFINE s == lo.vstack
<1> HIDE DEF s
<1>5. Len(Front(s)) = Len(s) - 1 /\ \A i \in 1 .. Len(s) - 1 : Front(s)[i] = s[i]
  <2>1. s \in Seq(Nat) /\ s # <<>>
    BY <1>1 DEF s
  <2> QED BY <2>1, FrontOf
<1> QED BY <1>4, <1>5 DEF m, s

-----------------------------------------------------------------------------

\* A sequence of anything: Spark's stack may hold any value.
IsStack(s) == \E S : s \in Seq(S)

\* A state of Spark on chunk c.
IsState(c, st) ==
  /\ st = [ip |-> st.ip, stack |-> st.stack, locals |-> st.locals, status |-> st.status,
           value |-> st.value, carried |-> st.carried, fresh |-> st.fresh]
  /\ st.ip \in Int /\ IsStack(st.stack)
  /\ DOMAIN st.locals = 0 .. c.maxLocals - 1
  /\ \A s \in DOMAIN st.locals : st.locals[s] # <<>> => \E v : st.locals[s] = <<v>>

\* The first m values of s.
LEMMA PrefixOf ==
  ASSUME NEW s, IsStack(s), NEW m \in Nat, m <= Len(s), NEW x
  PROVE  /\ IsStack(SubSeq(s, 1, m) \o <<>>) /\ Len(SubSeq(s, 1, m) \o <<>>) = m
         /\ \A i \in 1 .. m : (SubSeq(s, 1, m) \o <<>>)[i] = s[i]
         /\ IsStack(SubSeq(s, 1, m) \o <<x>>) /\ Len(SubSeq(s, 1, m) \o <<x>>) = m + 1
         /\ \A i \in 1 .. m : (SubSeq(s, 1, m) \o <<x>>)[i] = s[i]
         /\ (SubSeq(s, 1, m) \o <<x>>)[m + 1] = x
<1>1. PICK S : s \in Seq(S)
  BY DEF IsStack
<1> DEFINE p == SubSeq(s, 1, m)
<1>2. \A i \in 1 .. m : s[i] \in S
  BY <1>1
<1>3. /\ p \in Seq(S)
      /\ Len(p) = IF 1 <= m THEN m - 1 + 1 ELSE 0
      /\ \A i \in 1 .. m - 1 + 1 : p[i] = s[1 + i - 1]
  BY <1>2, SubSeqProperties
<1> HIDE DEF p
<1>4. Len(p) = m /\ \A i \in 1 .. m : p[i] = s[i]
  <2>1. Len(p) = m
    BY <1>3
  <2>2. ASSUME NEW i \in 1 .. m PROVE p[i] = s[i]
    <3>1. i \in 1 .. m - 1 + 1 /\ 1 + i - 1 = i
      OBVIOUS
    <3> QED BY <1>3, <3>1
  <2> QED BY <2>1, <2>2
<1>5. p \o <<>> = p
  BY <1>3
<1> DEFINE R == S \cup {x}
           q == p \o <<x>>
<1>6. p \in Seq(R) /\ <<x>> \in Seq(R)
  <2>1. \A i \in 1 .. Len(p) : p[i] \in R
    BY <1>3
  <2>2. x \in R
    OBVIOUS
  <2> HIDE DEF R
  <2>3. Len(p) \in Nat /\ p = [i \in 1 .. Len(p) |-> p[i]]
    BY <1>3
  <2> QED BY <2>1, <2>2, <2>3
<1> HIDE DEF R
<1>7. /\ q \in Seq(R) /\ Len(q) = m + 1 /\ \A i \in 1 .. m : q[i] = s[i]
      /\ q[m + 1] = x
  BY <1>4, <1>6
<1>8. IsStack(p) /\ IsStack(q)
  BY <1>3, <1>7 DEF IsStack
<1> QED BY <1>4, <1>5, <1>7, <1>8 DEF p

\* n values leave the stack.
Drops(c, r, st, n) ==
  /\ IsState(c, r) /\ r.status = "running" /\ r.locals = st.locals
  /\ Len(r.stack) = Len(st.stack) - n
  /\ \A i \in 1 .. Len(st.stack) - n : r.stack[i] = st.stack[i]

\* n values are replaced by x.
Computed(c, r, st, n, x) ==
  /\ IsState(c, r) /\ r.status = "running" /\ r.ip = st.ip + 1
  /\ r.carried = st.carried
  /\ Len(r.stack) = Len(st.stack) - n + 1
  /\ r.stack[Len(st.stack) - n + 1] = x
  /\ \A i \in 1 .. Len(st.stack) - n : r.stack[i] = st.stack[i]

\* What position ip makes of a running state.
SparkLoads(c, r, st, ins) ==
  \/ /\ ins.op = "LoadConst" /\ c.constants[ins.arg].type = "NumberInt"
     /\ Computed(c, r, st, 0, c.constants[ins.arg].i) /\ r.locals = st.locals
  \/ /\ ins.op = "LoadLocal"
     /\ \E v : st.locals[ins.arg] = <<v>> /\ Computed(c, r, st, 0, v)
     /\ r.locals = st.locals
  \/ /\ ins.op = "StoreLocal"
     /\ Computed(c, r, st, 1, st.stack[Len(st.stack)])
     /\ r.locals = [st.locals EXCEPT ![ins.arg] = <<st.stack[Len(st.stack)]>>]

\* Arithmetic, comparisons and negations.
SparkSums(c, r, st, ins) ==
  /\ r.locals = st.locals
  /\ \/ /\ ins.op \in Binary
        /\ Computed(c, r, st, 2, BinaryValue(ins.op, st.stack[Len(st.stack) - 1],
                                             st.stack[Len(st.stack)]))
     \/ /\ ins.op \in {"Neg", "Not"}
        /\ Computed(c, r, st, 1, UnaryValue(ins.op, st.stack[Len(st.stack)]))

\* Pop and the jumps.
SparkMoves(c, r, st, ins) ==
  \/ /\ ins.op = "Pop" /\ Drops(c, r, st, 1) /\ r.ip = st.ip + 1
     /\ r.carried = st.carried /\ ~ r.fresh
  \/ /\ ins.op = "Jump" /\ Drops(c, r, st, 0) /\ r.ip = ins.arg
     /\ r.carried = (st.carried \/ r.stack # <<>>)
  \/ /\ ins.op = "JumpIfFalse" /\ Drops(c, r, st, 1)
     /\ IF st.stack[Len(st.stack)] = 0
        THEN r.ip = ins.arg /\ r.carried = (st.carried \/ r.stack # <<>>)
        ELSE r.ip = st.ip + 1 /\ r.carried = st.carried /\ ~ r.fresh

\* A return, or whatever ends the comparison with Jolt.
SparkEnds(c, r, st, ins) ==
  /\ IsState(c, r) /\ r.carried = st.carried
  /\ \/ r.status = "other"
     \/ /\ ins.op \in {"Return", "Halt"} /\ r.status = "int"
        /\ Len(st.stack) > 0 /\ r.value = st.stack[Len(st.stack)]
        /\ ins.op = "Halt" => r.fresh = st.fresh

\* All that position ip can make of a running state.
SparkDoes(c, r, st, ins) ==
  \/ Needs(ins.op) <= Len(st.stack)
     /\ (SparkLoads(c, r, st, ins) \/ SparkSums(c, r, st, ins) \/ SparkMoves(c, r, st, ins))
  \/ SparkEnds(c, r, st, ins)

\* A state that ends otherwise than with an integer.
LEMMA StoppedOf ==
  ASSUME NEW c, NEW st, IsState(c, st), NEW status
  PROVE  /\ IsState(c, Stopped(st, status)) /\ Stopped(st, status).carried = st.carried
         /\ Stopped(st, status).status = status
<1> DEFINE r == Stopped(st, status)
<1>1. st = [ip |-> st.ip, stack |-> st.stack, locals |-> st.locals, status |-> st.status,
            value |-> st.value, carried |-> st.carried, fresh |-> st.fresh]
  BY DEF IsState
<1>2. r = [st EXCEPT !.status = status]
  BY DEF Stopped
<1> HIDE DEF r
<1>3. /\ r = [ip |-> r.ip, stack |-> r.stack, locals |-> r.locals, status |-> r.status,
              value |-> r.value, carried |-> r.carried, fresh |-> r.fresh]
      /\ r.ip = st.ip /\ r.stack = st.stack /\ r.locals = st.locals /\ r.status = status
      /\ r.carried = st.carried
  BY <1>1, <1>2
<1> QED BY <1>3 DEF IsState, r

\* Replacing n values by one or none.
LEMMA ReplaceOf ==
  ASSUME NEW c, NEW st, IsState(c, st), st.status = "running", NEW n \in Nat,
         n <= Len(st.stack), NEW x
  PROVE  /\ Computed(c, Replace(st, n, <<x>>), st, n, x)
         /\ Replace(st, n, <<x>>).locals = st.locals
         /\ Drops(c, Replace(st, n, <<>>), st, n)
         /\ Replace(st, n, <<>>).ip = st.ip + 1
         /\ Replace(st, n, <<>>).carried = st.carried
         /\ ~ Replace(st, n, <<>>).fresh
<1> DEFINE m == Len(st.stack) - n
           one == SubSeq(st.stack, 1, m) \o <<x>>
           none == SubSeq(st.stack, 1, m) \o <<>>
           r == Replace(st, n, <<x>>)
           q == Replace(st, n, <<>>)
<1>1. st = [ip |-> st.ip, stack |-> st.stack, locals |-> st.locals, status |-> st.status,
            value |-> st.value, carried |-> st.carried, fresh |-> st.fresh]
  BY DEF IsState
<1>2. IsStack(st.stack) /\ st.ip \in Int /\ Len(st.stack) \in Nat
  BY DEF IsState, IsStack
<1>3. m \in Nat /\ m <= Len(st.stack)
  BY <1>2
<1>4. /\ r = [st EXCEPT !.stack = one, !.ip = st.ip + 1, !.fresh = (<<x>> # <<>>)]
      /\ q = [st EXCEPT !.stack = none, !.ip = st.ip + 1, !.fresh = (<<>> # <<>>)]
  BY DEF Replace
<1> HIDE DEF m
<1>5. /\ IsStack(none) /\ Len(none) = m /\ \A i \in 1 .. m : none[i] = st.stack[i]
      /\ IsStack(one) /\ Len(one) = m + 1 /\ \A i \in 1 .. m : one[i] = st.stack[i]
      /\ one[m + 1] = x
  BY <1>2, <1>3, PrefixOf
<1> HIDE DEF r, q, one, none
<1>6. /\ r = [ip |-> r.ip, stack |-> r.stack, locals |-> r.locals, status |-> r.status,
              value |-> r.value, carried |-> r.carried, fresh |-> r.fresh]
      /\ r.ip = st.ip + 1 /\ r.stack = one /\ r.locals = st.locals /\ r.status = st.status
      /\ r.carried = st.carried
  BY <1>1, <1>4
<1>7. /\ q = [ip |-> q.ip, stack |-> q.stack, locals |-> q.locals, status |-> q.status,
              value |-> q.value, carried |-> q.carried, fresh |-> q.fresh]
      /\ q.ip = st.ip + 1 /\ q.stack = none /\ q.locals = st.locals /\ q.status = st.status
      /\ q.carried = st.carried /\ q.fresh = FALSE
  BY <1>1, <1>4
<1>8. IsState(c, r) /\ IsState(c, q)
  <2>1. /\ DOMAIN st.locals = 0 .. c.maxLocals - 1
        /\ \A s \in DOMAIN st.locals : st.locals[s] # <<>> => \E v : st.locals[s] = <<v>>
    BY DEF IsState
  <2>2. st.ip + 1 \in Int
    BY <1>2
  <2>3. IsState(c, r)
    BY <1>5, <1>6, <2>1, <2>2 DEF IsState
  <2>4. IsState(c, q)
    BY <1>5, <1>7, <2>1, <2>2 DEF IsState
  <2> QED BY <2>3, <2>4
<1>9. Computed(c, r, st, n, x)
  BY <1>5, <1>6, <1>8 DEF Computed, m
<1>10. Drops(c, q, st, n)
  BY <1>5, <1>7, <1>8 DEF Drops, m
<1> QED BY <1>6, <1>7, <1>9, <1>10 DEF r, q

\* A jump to t.
Went(c, r, st, t) ==
  /\ IsState(c, r) /\ r.ip = t /\ r.stack = st.stack /\ r.locals = st.locals
  /\ r.status = st.status /\ r.carried = (st.carried \/ st.stack # <<>>)

\* Goto is such a jump.
LEMMA GotoOf ==
  ASSUME NEW c, NEW st, IsState(c, st), NEW t \in Int
  PROVE  Went(c, Goto(st, t), st, t)
<1> DEFINE r == Goto(st, t)
           b == st.carried \/ st.stack # <<>>
<1>1. st = [ip |-> st.ip, stack |-> st.stack, locals |-> st.locals, status |-> st.status,
            value |-> st.value, carried |-> st.carried, fresh |-> st.fresh]
  BY DEF IsState
<1>2. r = [st EXCEPT !.ip = t, !.carried = b]
  BY DEF Goto
<1> HIDE DEF r, b
<1>3. /\ r = [ip |-> r.ip, stack |-> r.stack, locals |-> r.locals, status |-> r.status,
              value |-> r.value, carried |-> r.carried, fresh |-> r.fresh]
      /\ r.ip = t /\ r.stack = st.stack /\ r.locals = st.locals /\ r.status = st.status
      /\ r.carried = b
  BY <1>1, <1>2
<1>4. IsState(c, r)
  BY <1>3 DEF IsState
<1> QED BY <1>3, <1>4 DEF r, b, Went

\* What a chunk that runs off its end or halts returns.
LEMMA EndedOf ==
  ASSUME NEW c, NEW st, IsState(c, st)
  PROVE  /\ IsState(c, Ended(st)) /\ Ended(st).carried = st.carried
         /\ Ended(st).fresh = st.fresh
         /\ \/ Ended(st).status = "other" /\ st.stack = <<>>
            \/ /\ Ended(st).status = "int" /\ Len(st.stack) > 0
               /\ Ended(st).value = st.stack[Len(st.stack)]
<1> DEFINE r == Ended(st)
<1>1. st = [ip |-> st.ip, stack |-> st.stack, locals |-> st.locals, status |-> st.status,
            value |-> st.value, carried |-> st.carried, fresh |-> st.fresh]
  BY DEF IsState
<1>2. CASE st.stack = <<>>
  <2>1. r = [st EXCEPT !.status = "other"]
    BY <1>2 DEF Ended, Stopped
  <2> HIDE DEF r
  <2>2. /\ r = [ip |-> r.ip, stack |-> r.stack, locals |-> r.locals, status |-> r.status,
                value |-> r.value, carried |-> r.carried, fresh |-> r.fresh]
        /\ r.ip = st.ip /\ r.stack = st.stack /\ r.locals = st.locals /\ r.status = "other"
        /\ r.carried = st.carried /\ r.fresh = st.fresh
    BY <1>1, <2>1
  <2>3. IsState(c, r)
    BY <2>2 DEF IsState
  <2> QED BY <1>2, <2>2, <2>3 DEF r
<1>3. CASE st.stack # <<>>
  <2> DEFINE v == Last(st.stack)
  <2>1. r = [st EXCEPT !.status = "int", !.value = v]
    BY <1>3 DEF Ended
  <2>2. Len(st.stack) > 0
    BY <1>3 DEF IsState, IsStack
  <2>3. v = st.stack[Len(st.stack)]
    BY DEF Last
  <2> HIDE DEF r, v
  <2>4. /\ r = [ip |-> r.ip, stack |-> r.stack, locals |-> r.locals, status |-> r.status,
                value |-> r.value, carried |-> r.carried, fresh |-> r.fresh]
        /\ r.ip = st.ip /\ r.stack = st.stack /\ r.locals = st.locals /\ r.status = "int"
        /\ r.value = v /\ r.carried = st.carried /\ r.fresh = st.fresh
    BY <1>1, <2>1
  <2>5. IsState(c, r)
    BY <2>4 DEF IsState
  <2> QED BY <2>2, <2>3, <2>4, <2>5 DEF r
<1> QED BY <1>2, <1>3

\* The stack the operand count lets an operation read.
LEMMA NeedsOf ==
  /\ \A op \in Binary : Needs(op) = 2
  /\ \A op \in {"Neg", "Not", "StoreLocal", "Pop", "JumpIfFalse", "Return"} : Needs(op) = 1
  /\ \A op \in {"LoadConst", "LoadLocal", "Jump", "Halt"} : Needs(op) = 0
BY DEF Needs, Binary, Arithmetic, Comparisons, Logical

\* SparkLoad does what SparkLoads says, or ends.
LEMMA SparkLoadOf ==
  ASSUME NEW c, NEW st, IsState(c, st), st.status = "running",
         NEW ins, ins.op \in {"LoadConst", "LoadLocal", "StoreLocal"},
         ins.op # "LoadConst" => ins.arg \in 0 .. c.maxLocals - 1,
         Needs(ins.op) <= Len(st.stack)
  PROVE  SparkDoes(c, SparkLoad(c, st, ins), st, ins)
<1> DEFINE r == SparkLoad(c, st, ins)
<1>1. /\ IsStack(st.stack) /\ Len(st.stack) \in Nat /\ DOMAIN st.locals = 0 .. c.maxLocals - 1
      /\ \A s \in DOMAIN st.locals : st.locals[s] # <<>> => \E v : st.locals[s] = <<v>>
  BY DEF IsState, IsStack
<1>2. CASE ins.op = "LoadConst"
  <2> DEFINE k == c.constants[ins.arg]
  <2>1. CASE k.type = "NumberInt"
    <3>1. r = Replace(st, 0, <<k.i>>)
      BY <1>2, <2>1 DEF SparkLoad
    <3>2. Computed(c, r, st, 0, k.i) /\ r.locals = st.locals
      BY <1>1, <3>1, ReplaceOf
    <3>3. SparkLoads(c, r, st, ins)
      BY <1>2, <2>1, <3>2 DEF SparkLoads
    <3> QED BY <3>3 DEF SparkDoes
  <2>2. CASE k.type # "NumberInt"
    <3>1. r = Stopped(st, "other")
      BY <1>2, <2>2 DEF SparkLoad
    <3>2. SparkEnds(c, r, st, ins)
      BY <3>1, StoppedOf DEF SparkEnds
    <3> QED BY <3>2 DEF SparkDoes
  <2> QED BY <2>1, <2>2
<1>3. CASE ins.op = "LoadLocal"
  <2>1. CASE st.locals[ins.arg] = <<>>
    <3>1. r = Stopped(st, "other")
      BY <1>3, <2>1 DEF SparkLoad
    <3>2. SparkEnds(c, r, st, ins)
      BY <3>1, StoppedOf DEF SparkEnds
    <3> QED BY <3>2 DEF SparkDoes
  <2>2. CASE st.locals[ins.arg] # <<>>
    <3>1. PICK v : st.locals[ins.arg] = <<v>>
      BY <1>1, <1>3, <2>2
    <3>2. r = Replace(st, 0, <<v>>)
      BY <1>3, <2>2, <3>1 DEF SparkLoad
    <3>3. Computed(c, r, st, 0, v) /\ r.locals = st.locals
      BY <1>1, <3>2, ReplaceOf
    <3>4. SparkLoads(c, r, st, ins)
      BY <1>3, <3>1, <3>3 DEF SparkLoads
    <3> QED BY <3>4 DEF SparkDoes
  <2> QED BY <2>1, <2>2
<1>4. CASE ins.op = "StoreLocal"
  <2> DEFINE top == st.stack[Len(st.stack)]
             q == Replace(st, 1, <<top>>)
             new == [st.locals EXCEPT ![ins.arg] = <<top>>]
  <2>1. 1 <= Len(st.stack)
    BY <1>4, NeedsOf
  <2>2. Computed(c, q, st, 1, top) /\ q.locals = st.locals
    BY <1>1, <2>1, ReplaceOf
  <2>3. r = [q EXCEPT !.locals[ins.arg] = <<top>>]
    BY <1>4 DEF SparkLoad, Last
  <2>4. q = [ip |-> q.ip, stack |-> q.stack, locals |-> q.locals, status |-> q.status,
             value |-> q.value, carried |-> q.carried, fresh |-> q.fresh]
    BY <2>2 DEF Computed, IsState
  <2> HIDE DEF r, q, top
  <2>5. r = [q EXCEPT !.locals = new]
    BY <2>2, <2>3, <2>4
  <2> HIDE DEF new
  <2>6. /\ r = [ip |-> r.ip, stack |-> r.stack, locals |-> r.locals, status |-> r.status,
                value |-> r.value, carried |-> r.carried, fresh |-> r.fresh]
        /\ r.ip = q.ip /\ r.stack = q.stack /\ r.locals = new /\ r.status = q.status
        /\ r.carried = q.carried
    BY <2>4, <2>5
  <2>7. /\ DOMAIN new = 0 .. c.maxLocals - 1
        /\ \A s \in DOMAIN new : new[s] # <<>> => \E v : new[s] = <<v>>
    BY <1>1 DEF new
  <2>8. IsState(c, r)
    BY <2>2, <2>6, <2>7 DEF IsState, Computed
  <2>9. Computed(c, r, st, 1, top)
    BY <2>2, <2>6, <2>8 DEF Computed
  <2>10. SparkLoads(c, r, st, ins)
    BY <1>4, <2>6, <2>9 DEF SparkLoads, top, new
  <2> QED BY <2>10 DEF SparkDoes, r
<1> QED BY <1>2, <1>3, <1>4

\* A step of Spark does what SparkDoes says.
LEMMA SparkStepOf ==
  ASSUME NEW c, NEW st, IsState(c, st), st.status = "running",
         NEW ins, ins = c.code[st.ip], IsIns(c, ins),
         ins.op \in {"LoadLocal", "StoreLocal"} => ins.arg \in 0 .. c.maxLocals - 1
  PROVE  SparkDoes(c, SparkStep(c, st), st, ins)
<1> DEFINE r == SparkStep(c, st)
           op == ins.op
           len == Len(st.stack)
           top == Last(st.stack)
           below == st.stack[len - 1]
<1>1. len \in Nat /\ top = st.stack[len] /\ ins.arg \in Int
  BY DEF IsState, IsStack, IsIns, Last
<1>2. CASE len < Needs(op)
  <2>1. r = Stopped(st, "other")
    BY <1>2 DEF SparkStep
  <2>2. SparkEnds(c, r, st, ins)
    BY <2>1, StoppedOf DEF SparkEnds
  <2> QED BY <2>2 DEF SparkDoes
<1>3. CASE ~ (len < Needs(op))
  <2>1. Needs(op) <= len
    BY <1>1, <1>3 DEF Needs
  <2>2. r = CASE op \in {"LoadConst", "LoadLocal", "StoreLocal"} -> SparkLoad(c, st, ins)
              [] op \in Binary -> Replace(st, 2, <<BinaryValue(op, below, top)>>)
              [] op \in {"Neg", "Not"} -> Replace(st, 1, <<UnaryValue(op, top)>>)
              [] op = "Pop" -> Replace(st, 1, <<>>)
              [] op = "Jump" -> Goto(st, ins.arg)
              [] op = "JumpIfFalse" -> IF top = 0 THEN Goto(Replace(st, 1, <<>>), ins.arg)
                                       ELSE Replace(st, 1, <<>>)
              [] op = "Return" -> [Ended(st) EXCEPT !.fresh = TRUE]
              [] op = "Halt" -> Ended(st)
              [] OTHER -> Stopped(st, "other")
    BY <1>3 DEF SparkStep
  <2>3. op \in Binary => op \notin {"LoadConst", "LoadLocal", "StoreLocal", "Neg", "Not", "Pop",
                                    "Jump", "JumpIfFalse", "Return", "Halt"}
    BY DEF Binary, Arithmetic, Comparisons, Logical
  <2> HIDE DEF r, op, top, below
  <2>4. CASE op \in {"LoadConst", "LoadLocal", "StoreLocal"}
    <3>1. r = SparkLoad(c, st, ins)
      BY <2>2, <2>3, <2>4
    <3>2. ins.op # "LoadConst" => ins.arg \in 0 .. c.maxLocals - 1
      BY <2>4 DEF op
    <3> QED BY <2>1, <2>4, <3>1, <3>2, SparkLoadOf DEF r, op
  <2>5. CASE op \in Binary
    <3> DEFINE x == BinaryValue(op, below, top)
    <3>1. r = Replace(st, 2, <<x>>)
      BY <2>2, <2>3, <2>5
    <3>2. 2 <= len
      BY <2>1, <2>5, NeedsOf
    <3> HIDE DEF x
    <3>3. Computed(c, r, st, 2, x) /\ r.locals = st.locals
      BY <3>1, <3>2, ReplaceOf
    <3>4. SparkSums(c, r, st, ins)
      BY <1>1, <2>5, <3>3 DEF SparkSums, x, below, top, op
    <3> QED BY <2>1, <3>4 DEF SparkDoes, op, r
  <2>6. CASE op \in {"Neg", "Not"}
    <3> DEFINE x == UnaryValue(op, top)
    <3>1. r = Replace(st, 1, <<x>>)
      BY <2>2, <2>3, <2>6
    <3>2. 1 <= len
      BY <2>1, <2>6, NeedsOf
    <3> HIDE DEF x
    <3>3. Computed(c, r, st, 1, x) /\ r.locals = st.locals
      BY <3>1, <3>2, ReplaceOf
    <3>4. SparkSums(c, r, st, ins)
      BY <1>1, <2>6, <3>3 DEF SparkSums, x, top, op
    <3> QED BY <2>1, <3>4 DEF SparkDoes, op, r
  <2>7. CASE op = "Pop"
    <3>1. r = Replace(st, 1, <<>>)
      BY <2>2, <2>3, <2>7
    <3>2. 1 <= len
      BY <2>1, <2>7, NeedsOf
    <3>3. Drops(c, r, st, 1) /\ r.ip = st.ip + 1 /\ r.carried = st.carried /\ ~ r.fresh
      BY <3>1, <3>2, ReplaceOf
    <3>4. SparkMoves(c, r, st, ins)
      BY <2>7, <3>3 DEF SparkMoves, op
    <3> QED BY <2>1, <3>4 DEF SparkDoes, op, r
  <2>8. CASE op = "Jump"
    <3>1. r = Goto(st, ins.arg)
      BY <2>2, <2>3, <2>8
    <3>2. Went(c, r, st, ins.arg)
      BY <1>1, <3>1, GotoOf
    <3>3. Drops(c, r, st, 0)
      BY <1>1, <3>2 DEF Drops, Went
    <3>4. SparkMoves(c, r, st, ins)
      BY <2>8, <3>2, <3>3 DEF SparkMoves, op, Went
    <3> QED BY <2>1, <3>4 DEF SparkDoes, op, r
  <2>9. CASE op = "JumpIfFalse"
    <3> DEFINE q == Replace(st, 1, <<>>)
    <3>1. r = IF top = 0 THEN Goto(q, ins.arg) ELSE q
      BY <2>2, <2>3, <2>9
    <3>2. 1 <= len
      BY <2>1, <2>9, NeedsOf
    <3>3. Drops(c, q, st, 1) /\ q.ip = st.ip + 1 /\ q.carried = st.carried /\ ~ q.fresh
      BY <3>2, ReplaceOf
    <3> HIDE DEF q
    <3>4. CASE top = 0
      <4>0. IsState(c, q)
        BY <3>3 DEF Drops
      <4>1. Went(c, r, q, ins.arg)
        BY <1>1, <3>1, <3>4, <4>0, GotoOf
      <4>2. Drops(c, r, st, 1)
        BY <3>3, <4>1 DEF Drops, Went
      <4>3. SparkMoves(c, r, st, ins)
        BY <1>1, <2>9, <3>3, <3>4, <4>1, <4>2 DEF SparkMoves, op, Went
      <4> QED BY <2>1, <4>3 DEF SparkDoes, op, r
    <3>5. CASE top # 0
      <4>1. SparkMoves(c, r, st, ins)
        BY <1>1, <2>9, <3>1, <3>3, <3>5 DEF SparkMoves, op
      <4> QED BY <2>1, <4>1 DEF SparkDoes, op, r
    <3> QED BY <3>4, <3>5
  <2>10. CASE op = "Halt"
    <3>1. r = Ended(st)
      BY <2>2, <2>3, <2>10
    <3>2. SparkEnds(c, r, st, ins)
      BY <2>10, <3>1, EndedOf DEF SparkEnds, op
    <3> QED BY <3>2 DEF SparkDoes, r
  <2>11. CASE op = "Return"
    <3> DEFINE e == Ended(st)
    <3>1. r = [e EXCEPT !.fresh = TRUE]
      BY <2>2, <2>3, <2>11
    <3>2. /\ IsState(c, e) /\ e.carried = st.carried
          /\ \/ e.status = "other"
             \/ e.status = "int" /\ Len(st.stack) > 0 /\ e.value = st.stack[Len(st.stack)]
      BY EndedOf
    <3>3. e = [ip |-> e.ip, stack |-> e.stack, locals |-> e.locals, status |-> e.status,
               value |-> e.value, carried |-> e.carried, fresh |-> e.fresh]
      BY <3>2 DEF IsState
    <3> HIDE DEF e
    <3>4. /\ r = [ip |-> r.ip, stack |-> r.stack, locals |-> r.locals, status |-> r.status,
                  value |-> r.value, carried |-> r.carried, fresh |-> r.fresh]
          /\ r.ip = e.ip /\ r.stack = e.stack /\ r.locals = e.locals /\ r.status = e.status
          /\ r.value = e.value /\ r.carried = e.carried
      BY <3>1, <3>3
    <3>5. IsState(c, r)
      BY <3>2, <3>4 DEF IsState
    <3>6. SparkEnds(c, r, st, ins)
      BY <2>11, <3>2, <3>4, <3>5 DEF SparkEnds, op
    <3> QED BY <3>6 DEF SparkDoes, r
  <2>12. CASE op \notin {"LoadConst", "LoadLocal", "StoreLocal", "Neg", "Not", "Pop", "Jump",
                         "JumpIfFalse", "Return", "Halt"} \cup Binary
    <3>1. r = Stopped(st, "other")
      BY <2>2, <2>12
    <3>2. SparkEnds(c, r, st, ins)
      BY <3>1, StoppedOf DEF SparkEnds
    <3> QED BY <3>2 DEF SparkDoes, r
  <2> QED BY <2>4, <2>5, <2>6, <2>7, <2>8, <2>9, <2>10, <2>11, <2>12
<1> QED BY <1>2, <1>3

\* One position of Spark's pass.
LEMMA SparkVisits ==
  ASSUME NEW c, IsChunk(c), NEW T, IsSpark(c, T), NEW k \in 1 .. Len(c.code), IsState(c, T[k - 1])
  PROVE  /\ T[k - 1].status = "running" /\ T[k - 1].ip = k =>
              SparkDoes(c, T[k], T[k - 1], c.code[k])
         /\ ~ (T[k - 1].status = "running" /\ T[k - 1].ip = k) => T[k] = T[k - 1]
<1> DEFINE st == T[k - 1]
<1>1. T[k] = Walk("Spark", c, st, k)
  BY DEF IsSpark, IsWalk
<1>2. T[k] = Visited(c, st, k)
  BY <1>1 DEF Walk
<1>3. IsIns(c, c.code[k])
  BY CodeOf
<1>4. c.code[k].op \in {"LoadLocal", "StoreLocal"} => c.code[k].arg \in 0 .. c.maxLocals - 1
  BY CodeOf DEF IsChunk
<1>5. CASE st.status = "running" /\ st.ip = k
  <2>1. T[k] = SparkStep(c, st)
    BY <1>2, <1>5 DEF Visited
  <2>2. c.code[k] = c.code[st.ip]
    BY <1>5
  <2> HIDE DEF st
  <2>3. SparkDoes(c, SparkStep(c, st), st, c.code[k])
    BY <1>3, <1>4, <1>5, <2>2, SparkStepOf DEF st
  <2> QED BY <1>5, <2>1, <2>3 DEF st
<1>6. CASE ~ (st.status = "running" /\ st.ip = k)
  BY <1>2, <1>6 DEF Visited
<1> QED BY <1>5, <1>6

\* What an operation never undoes.
LEMMA DoesKeeps ==
  ASSUME NEW c, NEW r, NEW st, NEW ins, SparkDoes(c, r, st, ins)
  PROVE  IsState(c, r) /\ (st.carried => r.carried)
<1>1. CASE SparkLoads(c, r, st, ins)
  BY <1>1 DEF SparkLoads, Computed
<1>2. CASE SparkSums(c, r, st, ins)
  BY <1>2 DEF SparkSums, Computed
<1>3. CASE SparkMoves(c, r, st, ins)
  BY <1>3 DEF SparkMoves, Drops
<1>4. CASE SparkEnds(c, r, st, ins)
  BY <1>4 DEF SparkEnds
<1> QED BY <1>1, <1>2, <1>3, <1>4 DEF SparkDoes

\* Every state of the pass is one.
LEMMA SparkStates ==
  ASSUME NEW c, IsChunk(c), NEW T, IsSpark(c, T)
  PROVE  \A k \in 0 .. Len(c.code) : IsState(c, T[k])
<1> DEFINE n == Len(c.code)
           F == {k \in Nat : k <= n => IsState(c, T[k])}
<1>1. n \in Nat
  BY CodeOf
<1>2. 0 \in F
  <2>1. T[0] = SparkStart(c)
    BY DEF IsSpark, IsWalk
  <2>2. IsStack(<<>>)
    BY DEF IsStack
  <2>3. IsState(c, SparkStart(c))
    BY <2>2 DEF IsState, SparkStart
  <2> QED BY <2>1, <2>3
<1>3. \A k \in Nat : k \in F => k + 1 \in F
  <2> SUFFICES ASSUME NEW k \in Nat, k \in F, k + 1 <= n
               PROVE  IsState(c, T[k + 1])
    OBVIOUS
  <2>1. IsState(c, T[k]) /\ k + 1 \in 1 .. n /\ (k + 1) - 1 = k
    BY <1>1
  <2> DEFINE j == k + 1
  <2>2. j \in 1 .. Len(c.code) /\ IsState(c, T[j - 1])
    BY <2>1
  <2> HIDE DEF j
  <2>3. \/ SparkDoes(c, T[j], T[j - 1], c.code[j])
        \/ T[j] = T[j - 1]
    BY <2>2, SparkVisits
  <2>4. IsState(c, T[j])
    BY <2>2, <2>3, DoesKeeps
  <2> QED BY <2>4 DEF j
<1> HIDE DEF F
<1>4. Nat \subseteq F
  BY <1>2, <1>3, Counting
<1> QED BY <1>1, <1>4 DEF F

\* A jump with operands on the stack is remembered, and an end is final.
Stays(st, r) ==
  /\ st.carried => r.carried
  /\ st.status # "running" => r = st

\* Both from any position to any later one.
LEMMA SparkStays ==
  ASSUME NEW c, IsChunk(c), NEW T, IsSpark(c, T), NEW j \in 0 .. Len(c.code)
  PROVE  \A k \in j .. Len(c.code) : Stays(T[j], T[k])
<1> DEFINE n == Len(c.code)
           F == {i \in Nat : j + i <= n => Stays(T[j], T[j + i])}
<1>1. n \in Nat
  BY CodeOf
<1>2. 0 \in F
  BY DEF Stays
<1>3. \A i \in Nat : i \in F => i + 1 \in F
  <2> SUFFICES ASSUME NEW i \in Nat, i \in F, j + (i + 1) <= n
               PROVE  Stays(T[j], T[j + (i + 1)])
    OBVIOUS
  <2> DEFINE k == j + (i + 1)
  <2>1. k \in 1 .. Len(c.code) /\ k - 1 = j + i /\ j + i <= n
    BY <1>1
  <2>2. Stays(T[j], T[k - 1])
    BY <2>1
  <2> HIDE DEF k, F
  <2>3. IsState(c, T[k - 1])
    BY <2>1, SparkStates
  <2>4. /\ T[k - 1].status = "running" /\ T[k - 1].ip = k =>
              SparkDoes(c, T[k], T[k - 1], c.code[k])
        /\ ~ (T[k - 1].status = "running" /\ T[k - 1].ip = k) => T[k] = T[k - 1]
    BY <2>1, <2>3, SparkVisits
  <2>5. T[k - 1].carried => T[k].carried
    BY <2>4, DoesKeeps
  <2>6. T[k - 1].status # "running" => T[k] = T[k - 1]
    BY <2>4
  <2>7. Stays(T[j], T[k])
    BY <2>2, <2>5, <2>6 DEF Stays
  <2> QED BY <2>7 DEF k
<1> HIDE DEF F
<1>4. Nat \subseteq F
  BY <1>2, <1>3, Counting
<1>5. ASSUME NEW k \in j .. Len(c.code) PROVE Stays(T[j], T[k])
  <2> DEFINE i == k - j
  <2>1. i \in Nat /\ j + i = k /\ j + i <= n
    BY <1>1
  <2> HIDE DEF i
  <2>2. Stays(T[j], T[j + i])
    BY <1>4, <2>1 DEF F
  <2> QED BY <2>1, <2>2
<1> QED BY <1>5

\* Positions control does not go to change nothing.
LEMMA SparkSkips ==
  ASSUME NEW c, IsChunk(c), NEW T, IsSpark(c, T), NEW j \in 0 .. Len(c.code),
         NEW m \in j .. Len(c.code), T[j].ip \notin j + 1 .. m
  PROVE  T[m] = T[j]
<1> DEFINE n == Len(c.code)
           F == {i \in Nat : j + i <= m => T[j + i] = T[j]}
<1>1. n \in Nat
  BY CodeOf
<1>2. 0 \in F
  OBVIOUS
<1>3. \A i \in Nat : i \in F => i + 1 \in F
  <2> SUFFICES ASSUME NEW i \in Nat, i \in F, j + (i + 1) <= m
               PROVE  T[j + (i + 1)] = T[j]
    OBVIOUS
  <2> DEFINE k == j + (i + 1)
  <2>1. k \in 1 .. Len(c.code) /\ k - 1 = j + i /\ j + i <= m /\ k \in j + 1 .. m
    BY <1>1
  <2>2. T[k - 1] = T[j]
    BY <2>1
  <2> HIDE DEF k, F
  <2>3. IsState(c, T[k - 1])
    BY <2>1, SparkStates
  <2>4. T[k - 1].ip # k
    BY <2>1, <2>2
  <2>5. T[k] = T[k - 1]
    BY <2>1, <2>3, <2>4, SparkVisits
  <2> QED BY <2>2, <2>5 DEF k
<1> HIDE DEF F
<1>4. Nat \subseteq F
  BY <1>2, <1>3, Counting
<1>5. m - j \in Nat /\ j + (m - j) = m
  BY <1>1
<1> QED BY <1>4, <1>5 DEF F

\* What Spark returns, and whether it is compared.
Outcome(c, T) ==
  IF T[Len(c.code)].status = "running" THEN Ended(T[Len(c.code)]) ELSE T[Len(c.code)]

\* JoltAgreesWithSpark speaks of this result.
Compared(r) == r.status = "int" /\ ~ r.carried /\ r.fresh

\* When the result is compared, Spark never jumped with operands on the stack and
\* never failed, and what it ended with is the result.
LEMMA SparkCompared ==
  ASSUME NEW c, IsChunk(c), NEW T, IsSpark(c, T), Compared(Outcome(c, T)),
         NEW k \in 0 .. Len(c.code)
  PROVE  /\ ~ T[k].carried /\ T[k].status \in {"running", "int"}
         /\ T[k].status = "int" => T[k] = Outcome(c, T)
         /\ k = Len(c.code) /\ T[k].status = "running" =>
              /\ Len(T[k].stack) > 0 /\ T[k].fresh
              /\ Outcome(c, T).value = T[k].stack[Len(T[k].stack)]
<1> DEFINE n == Len(c.code)
           last == T[n]
           F == Outcome(c, T)
<1>1. n \in Nat /\ n \in k .. Len(c.code) /\ n \in 0 .. Len(c.code)
  BY CodeOf
<1>2. IsState(c, last) /\ Stays(T[k], last)
  BY <1>1, SparkStates, SparkStays
<1>3. F = IF last.status = "running" THEN Ended(last) ELSE last
  BY DEF Outcome
<1>4. F.status = "int" /\ ~ F.carried /\ F.fresh
  BY DEF Compared
<1> HIDE DEF last, F
<1>5. CASE last.status = "running"
  <2>1. F = Ended(last)
    BY <1>3, <1>5
  <2>2. /\ F.carried = last.carried /\ F.fresh = last.fresh
        /\ Len(last.stack) > 0 /\ F.value = last.stack[Len(last.stack)]
    BY <1>2, <1>4, <2>1, EndedOf
  <2>3. T[k].status = "running"
    BY <1>2, <1>5 DEF Stays
  <2>4. ~ T[k].carried
    BY <1>2, <1>4, <2>2 DEF Stays
  <2> QED BY <1>4, <2>2, <2>3, <2>4 DEF last, F
<1>6. CASE last.status # "running"
  <2>1. F = last
    BY <1>3, <1>6
  <2>2. ~ T[k].carried
    BY <1>2, <1>4, <2>1 DEF Stays
  <2>3. T[k].status = "running" \/ T[k] = F
    BY <1>2, <2>1 DEF Stays
  <2>4. k = n => T[k].status # "running"
    BY <1>6 DEF last
  <2> QED BY <1>4, <2>2, <2>3, <2>4 DEF F
<1> QED BY <1>5, <1>6

\* Whatever a position does while Spark's result is compared, it is not an
\* error, and it goes to the next position or over a jump that leads forward
\* and carries nothing.
Taken(st, ins) ==
  \/ ins.op = "Jump"
  \/ ins.op = "JumpIfFalse" /\ st.stack[Len(st.stack)] = 0

\* Position k, reached while the result is compared.
SparkGoes(c, T, k) ==
  LET st == T[k - 1]
      r == T[k]
      ins == c.code[k]
  IN \/ /\ r.status = "running"
        /\ Needs(ins.op) <= Len(st.stack)
        /\ SparkLoads(c, r, st, ins) \/ SparkSums(c, r, st, ins) \/ SparkMoves(c, r, st, ins)
        /\ \/ ~ Taken(st, ins) /\ r.ip = k + 1
           \/ r.ip = ins.arg /\ r.ip \in k + 1 .. Len(c.code) /\ r.stack = <<>>
        /\ T[r.ip - 1] = r
     \/ /\ r.status = "int" /\ r = Outcome(c, T)
        /\ SparkEnds(c, r, st, ins)

\* Spark goes on like this from every position it reaches.
LEMMA SparkGoesOn ==
  ASSUME NEW c, IsChunk(c), NEW T, IsSpark(c, T), Compared(Outcome(c, T)),
         NEW k \in 1 .. Len(c.code), T[k - 1].status = "running", T[k - 1].ip = k
  PROVE  SparkGoes(c, T, k)
<1> DEFINE n == Len(c.code)
           st == T[k - 1]
           r == T[k]
           ins == c.code[k]
           t == r.ip
<1>1. n \in Nat /\ k \in 0 .. n /\ k - 1 \in 0 .. n /\ k \in Int
  BY CodeOf
<1>2. SparkDoes(c, r, st, ins)
  BY <1>1, SparkStates, SparkVisits
<1>3. IsState(c, r) /\ ~ r.carried /\ r.status \in {"running", "int"}
  BY <1>1, SparkStates, SparkCompared
<1>4. r.status = "int" => r = Outcome(c, T)
  BY <1>1, SparkCompared
<1>5. st.status = "running" /\ st.ip = k
  OBVIOUS
<1>6. n \in k .. Len(c.code) /\ n \in 0 .. Len(c.code) /\ k \in 0 .. Len(c.code)
  BY <1>1
<1>7. r.status = "running" /\ t \notin k + 1 .. n => r.stack # <<>>
  <2> SUFFICES ASSUME r.status = "running", t \notin k + 1 .. n PROVE r.stack # <<>>
    OBVIOUS
  <2>1. T[n] = T[k]
    BY <1>6, SparkSkips
  <2>2. Len(T[n].stack) > 0
    BY <1>6, <2>1, SparkCompared
  <2> QED BY <2>1, <2>2
<1>8. t \in k + 1 .. n => T[t - 1] = r
  <2> SUFFICES ASSUME t \in k + 1 .. n PROVE T[t - 1] = r
    OBVIOUS
  <2> DEFINE m == t - 1
  <2>1. m \in k .. Len(c.code) /\ t \notin k + 1 .. m
    BY <1>1
  <2> HIDE DEF m
  <2>2. T[m] = T[k]
    BY <1>6, <2>1, SparkSkips
  <2> QED BY <2>2 DEF m
<1>9. t = k + 1 => t - 1 = k
  BY <1>1
<1> HIDE DEF r, st, ins, t, n
<1>10. CASE SparkEnds(c, r, st, ins) /\ r.status = "int"
  BY <1>4, <1>10 DEF SparkGoes, r, st, ins
<1>11. CASE /\ Needs(ins.op) <= Len(st.stack)
            /\ SparkLoads(c, r, st, ins) \/ SparkSums(c, r, st, ins) \/ SparkMoves(c, r, st, ins)
  <2>1. r.status = "running"
    BY <1>11 DEF SparkLoads, SparkSums, SparkMoves, Computed, Drops
  <2>2. \/ ~ Taken(st, ins) /\ t = k + 1
        \/ t = ins.arg /\ (r.carried = (st.carried \/ r.stack # <<>>))
    <3>1. CASE SparkLoads(c, r, st, ins)
      BY <1>5, <3>1 DEF SparkLoads, Computed, t, Taken
    <3>2. CASE SparkSums(c, r, st, ins)
      BY <1>5, <3>2 DEF SparkSums, Computed, t, Taken, Binary, Arithmetic, Comparisons, Logical
    <3>3. CASE SparkMoves(c, r, st, ins)
      BY <1>5, <3>3 DEF SparkMoves, Drops, t, Taken
    <3> QED BY <1>11, <3>1, <3>2, <3>3
  <2>3. \/ ~ Taken(st, ins) /\ t = k + 1
        \/ t = ins.arg /\ t \in k + 1 .. n /\ r.stack = <<>>
    BY <1>3, <1>7, <2>1, <2>2
  <2>4. T[t - 1] = r
    BY <1>8, <1>9, <2>3 DEF r
  <2> QED BY <1>11, <2>1, <2>3, <2>4 DEF SparkGoes, r, st, ins, t, n
<1>12. ~ (SparkEnds(c, r, st, ins) /\ r.status = "other")
  BY <1>3
<1>13. SparkEnds(c, r, st, ins) => r.status \in {"other", "int"}
  BY DEF SparkEnds
<1> QED BY <1>2, <1>10, <1>11, <1>12, <1>13 DEF SparkDoes

\* What an instruction that calls nothing leaves in rax, and whether it ends.
Yields(m2, m, inst, a, b) ==
  /\ inst.op \in {"Label", "Jump"} => m2.rax = m.rax /\ m2.status = m.status
  /\ inst.op = "BranchIfFalse" => m2.status = m.status
  /\ inst.op = "Halt" => m2.rax = m.rax /\ m2.status = "halted"
  /\ inst.op = "Return" => m2.rax = a /\ m2.status = "returned"
  /\ inst.op = "StoreLocal" => m2.rax = a /\ m2.status = m.status
  /\ inst.op \notin Silent /\ inst.dst # 0 =>
       m2.rax = Result(inst, a, b, m.locals) /\ m2.status = m.status

\* An instruction that runs yields it.
LEMMA YieldsOf ==
  ASSUME NEW m, IsMachine(m), NEW f, NEW home, ~ Clobbers(f, home, m)
  PROVE  Yields(Execute(f, home, m), m, f.insts[m.pc],
                Operand(m, home, f.insts[m.pc].src1), Operand(m, home, f.insts[m.pc].src2))
<1> DEFINE inst == f.insts[m.pc]
           op == inst.op
           dst == inst.dst
           a == Operand(m, home, inst.src1)
           b == Operand(m, home, inst.src2)
           value == Result(inst, a, b, m.locals)
           target == NextPc(f, m.pc, a)
           at == [m EXCEPT !.pc = target]
           new == Execute(f, home, m)
           h == home[dst]
<1>1. Clobbered(m, inst, b) = m
  BY DEF Clobbers, Clobbered
<1>2. new = CASE op \in {"Label", "Jump", "StoreVar"} -> at
              [] op = "Halt" -> [at EXCEPT !.status = "halted"]
              [] op = "Return" -> [at EXCEPT !.rax = a, !.status = "returned"]
              [] op \in {"BranchIfFalse", "BranchIfTrue"} -> [at EXCEPT !.rax = a]
              [] op = "StoreLocal" -> [at EXCEPT !.rax = a, !.locals[inst.payload] = a]
              [] dst = 0 /\ op \notin Silent -> [at EXCEPT !.rax = 0]
              [] OTHER -> StoreFrom(at, home, dst, value)
  BY <1>1 DEF Execute
<1>3. m = [rax |-> m.rax, regs |-> m.regs, frame |-> m.frame, locals |-> m.locals,
           pc |-> m.pc, status |-> m.status]
  BY DEF IsMachine
<1>4. StoreFrom(at, home, dst, value) =
        IF h.reg >= 0 THEN [at EXCEPT !.rax = value, !.regs[h.reg] = value]
        ELSE [at EXCEPT !.rax = value, !.frame[h.slot + 1] = value]
  BY DEF StoreFrom
<1> HIDE DEF new, value, target, a, b, h, op, dst
<1>5. at = [rax |-> m.rax, regs |-> m.regs, frame |-> m.frame, locals |-> m.locals,
            pc |-> target, status |-> m.status]
  BY <1>3
<1> HIDE DEF at
<1>6. op \in {"Label", "Jump"} => new.rax = m.rax /\ new.status = m.status
  BY <1>2, <1>5 DEF Silent, Transfers
<1>7. op = "BranchIfFalse" => new.status = m.status
  BY <1>2, <1>5 DEF Silent, Transfers
<1>8. op = "Halt" => new.rax = m.rax /\ new.status = "halted"
  BY <1>2, <1>5 DEF Silent, Transfers
<1>9. op = "Return" => new.rax = a /\ new.status = "returned"
  BY <1>2, <1>5 DEF Silent, Transfers
<1>10. op = "StoreLocal" => new.rax = a /\ new.status = m.status
  BY <1>2, <1>5 DEF Silent, Transfers
<1>11. op \notin Silent /\ dst # 0 => new.rax = value /\ new.status = m.status
  <2> SUFFICES ASSUME op \notin Silent, dst # 0
               PROVE  new.rax = value /\ new.status = m.status
    OBVIOUS
  <2>1. new = StoreFrom(at, home, dst, value)
    BY <1>2 DEF Silent, Transfers
  <2> QED BY <1>4, <1>5, <2>1
<1> QED BY <1>6, <1>7, <1>8, <1>9, <1>10, <1>11 DEF Yields, new, a, b, op, dst, value

\* The value an operand of an instruction has.
Read(v, r) == IF r = 0 THEN Junk ELSE v.vregs[r]

\* What the run over virtual registers becomes.
Became(v2, v, inst, a, b) ==
  /\ v2.locals = IF inst.op = "StoreLocal" THEN [v.locals EXCEPT ![inst.payload] = a]
                 ELSE v.locals
  /\ inst.dst = 0 => v2.vregs = v.vregs /\ v2.defined = v.defined
  /\ inst.dst # 0 =>
       /\ v2.vregs = [v.vregs EXCEPT ![inst.dst] = Result(inst, a, b, v.locals)]
       /\ v2.defined = v.defined \cup {inst.dst}

\* A step that meets no deviation, in terms of the virtual registers alone.
LEMMA StepTo ==
  ASSUME JoltInv, Clean, Step, NEW inst, inst = fn.insts[mach.pc], inst.op # "Pow",
         {inst.src1, inst.src2} \ {0} \subseteq virt.defined
  PROVE  /\ Clean' /\ mach.pc \in DOMAIN fn.insts
         /\ mach'.pc = NextPc(fn, mach.pc, Read(virt, inst.src1))
         /\ Yields(mach', mach, inst, Read(virt, inst.src1), Read(virt, inst.src2))
         /\ Became(virt', virt, inst, Read(virt, inst.src1), Read(virt, inst.src2))
         /\ mach.locals = virt.locals /\ DOMAIN virt.vregs = 1 .. fn.vregs
<1> DEFINE a == Operand(mach, Home, inst.src1)
           b == Operand(mach, Home, inst.src2)
<1>1. /\ stage = "run" /\ ~ Ends(fn, mach)
      /\ mach' = Execute(fn, Home, mach) /\ virt' = ExecuteVirtual(fn, virt)
      /\ deviations' = deviations \cup
           (IF Clobbers(fn, Home, mach) THEN {"clobbered"} ELSE {}) \cup
           (IF ReadsUndefined(fn, virt) THEN {"undefined"} ELSE {})
  BY DEF Step
<1>2. /\ IsFunction(fn) /\ intervals = Intervals(fn) /\ (Forward(fn) \/ Enclosed(fn))
      /\ ScanInv /\ ~ Scanning /\ Bound(fn) /\ InStep
  BY <1>1 DEF JoltInv
<1>3. AreLives(fn, intervals)
  BY <1>2, IntervalsLive
<1>4. /\ virt.pc = mach.pc /\ virt.locals = mach.locals
      /\ IsVirtual(virt) /\ IsMachine(mach)
  BY <1>2 DEF InStep
<1>5. ~ Clobbers(fn, Home, mach)
  BY DEF Clobbers, SlowPow
<1>6. ~ ReadsUndefined(fn, virt)
  BY <1>4 DEF ReadsUndefined
<1>7. Clean'
  BY <1>1, <1>5, <1>6 DEF Clean
<1>8. mach.pc \in DOMAIN fn.insts
  <2>1. Len(fn.insts) \in Nat /\ DOMAIN fn.insts = 1 .. Len(fn.insts)
    BY <1>2, InstructionsOf
  <2>2. mach.pc \in Nat \ {0} /\ ~ (mach.pc > Len(fn.insts))
    BY <1>1, <1>2 DEF InStep, Ends
  <2> QED BY <2>1, <2>2
<1>9. fn.insts[mach.pc].op \in Silent => fn.insts[mach.pc].dst = 0
  BY <1>2, <1>8, InstructionsOf
<1>10. Executed(mach', fn, Home, mach)
  BY <1>1, <1>4, <1>5, <1>9, ExecuteOf
<1>11. Yields(mach', mach, inst, a, b)
  BY <1>1, <1>4, <1>5, YieldsOf
<1>12. ExecutedVirtual(virt', virt, fn)
  BY <1>1, <1>4, <1>9, ExecuteVirtualOf
<1>13. /\ a = Read(virt, inst.src1)
       /\ b = Read(virt, inst.src2)
  BY <1>2, <1>3, <1>6, <1>8, OperandsAgree DEF Read
<1>14. mach'.pc = NextPc(fn, mach.pc, a)
  BY <1>10 DEF Executed
<1>15. Became(virt', virt, inst, a, b)
  BY <1>4, <1>12, <1>13 DEF ExecutedVirtual, Became, Read
<1>16. DOMAIN virt.vregs = 1 .. fn.vregs
  BY <1>4 DEF IsVirtual
<1> HIDE DEF a, b
<1> QED BY <1>4, <1>7, <1>8, <1>11, <1>13, <1>14, <1>15, <1>16

\* The virtual stack s names registers that hold the values on Spark's stack,
\* and may have more below them; a local Spark has set is the same.
Mirrors(st, s, v) ==
  /\ Len(st.stack) <= Len(s)
  /\ \A i \in 1 .. Len(st.stack) :
       /\ s[Len(s) - Len(st.stack) + i] \in v.defined
       /\ v.vregs[s[Len(s) - Len(st.stack) + i]] = st.stack[i]
  /\ DOMAIN v.locals = DOMAIN st.locals
  /\ \A x \in DOMAIN st.locals : st.locals[x] # <<>> => st.locals[x] = <<v.locals[x]>>

\* The virtual registers are as before.
SameRegisters(v2, v) == v2.vregs = v.vregs /\ v2.defined = v.defined

\* A stack less its n top elements.
Shorter(s2, s, n) == Len(s2) = Len(s) - n /\ \A i \in 1 .. Len(s) - n : s2[i] = s[i]

\* The i-th operand from the top.
LEMMA MirrorsTop ==
  ASSUME NEW c, NEW st, IsState(c, st), NEW s, Len(s) \in Nat, NEW v, Mirrors(st, s, v),
         NEW i \in Nat, i < Len(st.stack)
  PROVE  s[Len(s) - i] \in v.defined /\ v.vregs[s[Len(s) - i]] = st.stack[Len(st.stack) - i]
<1> DEFINE j == Len(st.stack) - i
<1>1. Len(st.stack) \in Nat
  BY DEF IsState, IsStack
<1>2. j \in 1 .. Len(st.stack) /\ Len(s) - Len(st.stack) + j = Len(s) - i
  BY <1>1
<1> HIDE DEF j
<1>3. /\ s[Len(s) - Len(st.stack) + j] \in v.defined
      /\ v.vregs[s[Len(s) - Len(st.stack) + j]] = st.stack[j]
  BY <1>2 DEF Mirrors
<1> QED BY <1>2, <1>3 DEF j

\* Both stacks lose n elements.
LEMMA MirrorsDrops ==
  ASSUME NEW c, NEW st, IsState(c, st), NEW s, Len(s) \in Nat, NEW v, Mirrors(st, s, v),
         NEW n \in Nat, n <= Len(st.stack), NEW r, Drops(c, r, st, n),
         NEW s2, Shorter(s2, s, n), NEW v2, SameRegisters(v2, v), v2.locals = v.locals
  PROVE  Mirrors(r, s2, v2)
<1>1. Len(st.stack) \in Nat /\ Len(r.stack) = Len(st.stack) - n /\ r.locals = st.locals
  BY DEF IsState, IsStack, Drops
<1>2. Len(st.stack) <= Len(s) /\ Len(s2) = Len(s) - n
  BY DEF Mirrors, Shorter
<1>3. ASSUME NEW i \in 1 .. Len(r.stack)
      PROVE  /\ s2[Len(s2) - Len(r.stack) + i] \in v2.defined
             /\ v2.vregs[s2[Len(s2) - Len(r.stack) + i]] = r.stack[i]
  <2> DEFINE p == Len(s2) - Len(r.stack) + i
  <2>1. p = Len(s) - Len(st.stack) + i /\ p \in 1 .. Len(s) - n /\ i \in 1 .. Len(st.stack)
        /\ i \in 1 .. Len(st.stack) - n
    BY <1>1, <1>2
  <2>2. r.stack[i] = st.stack[i] /\ s2[p] = s[p]
    BY <2>1 DEF Drops, Shorter
  <2>3. s[p] \in v.defined /\ v.vregs[s[p]] = st.stack[i]
    BY <2>1 DEF Mirrors
  <2> HIDE DEF p
  <2>4. s2[p] \in v2.defined /\ v2.vregs[s2[p]] = r.stack[i]
    BY <2>2, <2>3 DEF SameRegisters
  <2> QED BY <2>4 DEF p
<1>4. Len(r.stack) <= Len(s2)
  BY <1>1, <1>2
<1>5. DOMAIN v2.locals = DOMAIN r.locals
  BY <1>1 DEF Mirrors
<1>6. \A x \in DOMAIN r.locals : r.locals[x] # <<>> => r.locals[x] = <<v2.locals[x]>>
  BY <1>1 DEF Mirrors
<1> QED BY <1>3, <1>4, <1>5, <1>6 DEF Mirrors

\* A jump arrives with nothing on Spark's stack, whatever is on the virtual one.
LEMMA MirrorsAnywhere ==
  ASSUME NEW st, st.stack = <<>>, NEW s, NEW v, Mirrors(st, s, v), NEW s2, Len(s2) \in Nat
  PROVE  Mirrors(st, s2, v)
<1>1. Len(st.stack) = 0
  OBVIOUS
<1> QED BY <1>1 DEF Mirrors

\* A new register on top of the others.
LEMMA MirrorsComputed ==
  ASSUME NEW c, NEW st, IsState(c, st), NEW lo, IsLowerer(lo), NEW v, Mirrors(st, lo.vstack, v),
         NEW n \in Nat, n <= Len(st.stack), NEW r, NEW x, Computed(c, r, st, n, x),
         r.locals = st.locals,
         NEW l, NEW op, NEW src1, NEW src2, NEW p, Computes(l, lo, n, op, src1, src2, p),
         NEW m \in Nat, lo.vregs + 1 <= m, DOMAIN v.vregs = 1 .. m,
         NEW v2, v2.locals = v.locals, v2.defined = v.defined \cup {lo.vregs + 1},
         v2.vregs = [v.vregs EXCEPT ![lo.vregs + 1] = x]
  PROVE  Mirrors(r, l.vstack, v2)
<1> DEFINE s == lo.vstack
           s2 == l.vstack
           d == lo.vregs + 1
<1>1. /\ Len(st.stack) \in Nat /\ Len(r.stack) = Len(st.stack) - n + 1
      /\ r.stack[Len(st.stack) - n + 1] = x
      /\ \A i \in 1 .. Len(st.stack) - n : r.stack[i] = st.stack[i]
  BY DEF IsState, IsStack, Computed
<1>2. /\ Len(s2) = Len(s) - n + 1 /\ s2[Len(s) - n + 1] = d
      /\ \A i \in 1 .. Len(s) - n : s2[i] = s[i]
  BY DEF Computes
<1>3. lo.vregs \in Nat /\ Len(s) \in Nat /\ \A i \in 1 .. Len(s) : s[i] \in 1 .. lo.vregs
  BY DEF IsLowerer, Within
<1>4. Len(st.stack) <= Len(s)
  BY DEF Mirrors
<1>5. d \in DOMAIN v.vregs /\ d \in v2.defined /\ v2.vregs[d] = x
  BY <1>3
<1>6. \A q \in 1 .. lo.vregs : q # d /\ q \in DOMAIN v.vregs /\ v2.vregs[q] = v.vregs[q]
  BY <1>3
<1> HIDE DEF s, s2, d
<1>7. ASSUME NEW i \in 1 .. Len(r.stack)
      PROVE  /\ s2[Len(s2) - Len(r.stack) + i] \in v2.defined
             /\ v2.vregs[s2[Len(s2) - Len(r.stack) + i]] = r.stack[i]
  <2> DEFINE q == Len(s2) - Len(r.stack) + i
  <2>1. q = Len(s) - Len(st.stack) + i
    BY <1>1, <1>2, <1>3, <1>4
  <2>2. CASE i = Len(st.stack) - n + 1
    <3> HIDE DEF q
    <3> DEFINE a == Len(s)
               b == Len(st.stack)
               j == b - n + 1
    <3>1. a \in Int /\ b \in Int /\ n \in Int /\ q = a - b + j
      BY <1>1, <1>3, <2>1, <2>2
    <3> HIDE DEF a, b
    <3>2. q = a - n + 1
      BY ONLY <3>1 DEF j
    <3>3. q = Len(s) - n + 1
      BY <3>2 DEF a
    <3>4. s2[q] = d /\ r.stack[i] = x
      BY <1>1, <1>2, <2>2, <3>3
    <3>5. s2[q] \in v2.defined /\ v2.vregs[s2[q]] = r.stack[i]
      BY <1>5, <3>4
    <3> QED BY <3>5 DEF q
  <2>3. CASE i # Len(st.stack) - n + 1
    <3>1. i \in 1 .. Len(st.stack) - n /\ i \in 1 .. Len(st.stack)
      BY <1>1, <2>3
    <3> HIDE DEF q
    <3>0. Len(s) \in Nat /\ Len(st.stack) \in Nat /\ n \in Nat
      BY <1>1, <1>3
    <3>2. q \in 1 .. Len(s) - n /\ q \in 1 .. Len(s)
      BY ONLY <1>4, <2>1, <3>0, <3>1
    <3>3. s2[q] = s[q] /\ r.stack[i] = st.stack[i] /\ s[q] \in 1 .. lo.vregs
      BY <1>1, <1>2, <1>3, <3>1, <3>2
    <3>4. s[q] \in v.defined /\ v.vregs[s[q]] = st.stack[i]
      BY <2>1, <3>1 DEF Mirrors, s
    <3>5. s2[q] \in v2.defined /\ v2.vregs[s2[q]] = r.stack[i]
      BY <1>6, <3>3, <3>4
    <3> QED BY <3>5 DEF q
  <2> QED BY <2>2, <2>3
<1>8. Len(r.stack) <= Len(s2)
  BY <1>1, <1>2, <1>3, <1>4
<1>9. DOMAIN v2.locals = DOMAIN r.locals
  BY DEF Mirrors
<1>10. \A y \in DOMAIN r.locals : r.locals[y] # <<>> => r.locals[y] = <<v2.locals[y]>>
  BY DEF Mirrors
<1> QED BY <1>7, <1>8, <1>9, <1>10 DEF Mirrors, s2

\* StoreLocal copies the top of the stack.
Stores(r, st, v2, v, a, x) ==
  /\ x = st.stack[Len(st.stack)] /\ r.locals = [st.locals EXCEPT ![a] = <<x>>]
  /\ v2.locals = [v.locals EXCEPT ![a] = x] /\ SameRegisters(v2, v)

\* After StoreLocal the stacks and the locals still agree.
LEMMA MirrorsStored ==
  ASSUME NEW c, NEW st, IsState(c, st), NEW s, Len(s) \in Nat, NEW v, Mirrors(st, s, v),
         1 <= Len(st.stack), NEW r, NEW x, Computed(c, r, st, 1, x),
         NEW s2, Shorter(s2, s, 0), NEW v2, NEW a, Stores(r, st, v2, v, a, x)
  PROVE  Mirrors(r, s2, v2)
<1>0. /\ x = st.stack[Len(st.stack)] /\ r.locals = [st.locals EXCEPT ![a] = <<x>>]
      /\ v2.locals = [v.locals EXCEPT ![a] = x] /\ SameRegisters(v2, v)
  BY DEF Stores
<1>1. /\ Len(st.stack) \in Nat /\ Len(r.stack) = Len(st.stack)
      /\ r.stack[Len(st.stack)] = x
      /\ \A i \in 1 .. Len(st.stack) - 1 : r.stack[i] = st.stack[i]
  BY DEF IsState, IsStack, Computed
<1>2. Len(st.stack) <= Len(s) /\ Len(s2) = Len(s)
  BY DEF Mirrors, Shorter
<1>3. ASSUME NEW i \in 1 .. Len(r.stack)
      PROVE  /\ s2[Len(s2) - Len(r.stack) + i] \in v2.defined
             /\ v2.vregs[s2[Len(s2) - Len(r.stack) + i]] = r.stack[i]
  <2> DEFINE p == Len(s2) - Len(r.stack) + i
  <2>1. p = Len(s) - Len(st.stack) + i /\ p \in 1 .. Len(s) - 0 /\ i \in 1 .. Len(st.stack)
    BY <1>1, <1>2
  <2>2. i = Len(st.stack) \/ i \in 1 .. Len(st.stack) - 1
    BY <1>1, <2>1
  <2>3. r.stack[i] = st.stack[i] /\ s2[p] = s[p]
    BY <1>0, <1>1, <2>1, <2>2 DEF Shorter
  <2>4. s[p] \in v.defined /\ v.vregs[s[p]] = st.stack[i]
    BY <2>1 DEF Mirrors
  <2> HIDE DEF p
  <2>5. s2[p] \in v2.defined /\ v2.vregs[s2[p]] = r.stack[i]
    BY <1>0, <2>3, <2>4 DEF SameRegisters
  <2> QED BY <2>5 DEF p
<1>4. Len(r.stack) <= Len(s2)
  BY <1>1, <1>2
<1>5. DOMAIN v2.locals = DOMAIN r.locals
  BY <1>0 DEF Mirrors
<1>6. ASSUME NEW y \in DOMAIN r.locals, r.locals[y] # <<>>
      PROVE  r.locals[y] = <<v2.locals[y]>>
  <2>1. y \in DOMAIN st.locals /\ y \in DOMAIN v.locals
    BY <1>0 DEF Mirrors
  <2>2. CASE y = a
    BY <1>0, <2>1, <2>2
  <2>3. CASE y # a
    BY <1>0, <1>6, <2>1, <2>3 DEF Mirrors
  <2> QED BY <2>2, <2>3
<1> QED BY <1>3, <1>4, <1>5, <1>6 DEF Mirrors

\* The result of an instruction is the value Spark computes.
LEMMA ResultOf ==
  ASSUME NEW inst, NEW a, NEW b, NEW locals
  PROVE  /\ inst.op = "LoadConstImm" => Result(inst, a, b, locals) = inst.payload
         /\ inst.op = "LoadLocal" => Result(inst, a, b, locals) = locals[inst.payload]
         /\ inst.op \in Binary => Result(inst, a, b, locals) = BinaryValue(inst.op, a, b)
         /\ inst.op \in {"Neg", "Not"} => Result(inst, a, b, locals) = UnaryValue(inst.op, a)
<1>1. inst.op \in AluOps => inst.op \notin {"LoadConstImm", "LoadConst", "LoadLocal", "LoadVar"} \cup HeapOps
  BY DEF AluOps, HeapOps, Binary, Arithmetic, Comparisons, Logical
<1>2. inst.op \in Binary \cup {"Neg", "Not"} => inst.op \in AluOps
  BY DEF AluOps
<1>3. inst.op \in AluOps => Result(inst, a, b, locals) = Alu(inst.op, a, b)
  BY <1>1 DEF Result
<1>4. inst.op \in Binary => Alu(inst.op, a, b) = BinaryValue(inst.op, a, b)
  BY DEF Alu, Binary, Arithmetic, Comparisons, Logical
<1>5. inst.op \in {"Neg", "Not"} => Alu(inst.op, a, b) = UnaryValue(inst.op, a)
  BY DEF Alu, Binary, Arithmetic, Comparisons, Logical
<1>6. inst.op = "LoadConstImm" => Result(inst, a, b, locals) = inst.payload
  BY DEF Result, AluOps, HeapOps, Binary, Arithmetic, Comparisons, Logical
<1>7. inst.op = "LoadLocal" => Result(inst, a, b, locals) = locals[inst.payload]
  BY DEF Result, AluOps, HeapOps, Binary, Arithmetic, Comparisons, Logical
<1> QED BY <1>2, <1>3, <1>4, <1>5, <1>6, <1>7

\* Where control goes.
LEMMA NextPcOf ==
  ASSUME NEW f, NEW pc, NEW a
  PROVE  /\ f.insts[pc].op \notin Transfers => NextPc(f, pc, a) = pc + 1
         /\ f.insts[pc].op = "Jump" => NextPc(f, pc, a) = LabelIndex(f, f.insts[pc].payload)
         /\ f.insts[pc].op = "BranchIfFalse" =>
              NextPc(f, pc, a) = IF a = 0 THEN LabelIndex(f, f.insts[pc].payload) ELSE pc + 1
BY DEF NextPc, Transfers

\* A function begins with what a lowerer has emitted.
Begins(l, f) ==
  /\ l.vregs <= f.vregs /\ Len(l.insts) <= Len(f.insts)
  /\ \A p \in 1 .. Len(l.insts) : f.insts[p] = l.insts[p]

\* An instruction a lowerer emits is in the function at that place.
LEMMA EmittedAt ==
  ASSUME NEW lo, IsLowerer(lo), NEW l, NEW f, Begins(l, f), NEW x, l.insts = Append(lo.insts, x)
  PROVE  f.insts[Len(lo.insts) + 1] = x /\ Len(l.insts) = Len(lo.insts) + 1
<1>1. Len(lo.insts) \in Nat /\ lo.insts \in Seq(Instructions)
  BY DEF IsLowerer
<1>2. Len(l.insts) = Len(lo.insts) + 1 /\ l.insts[Len(lo.insts) + 1] = x
  BY <1>1 DEF IsLowerer
<1> QED BY <1>1, <1>2 DEF Begins

\* The run has done what position ip asks: it stands after the code emitted so
\* far, with the value computed last in rax.
Arrives(m, l, v, r) ==
  /\ m.status = "running" /\ m.pc = Len(l.insts) + 1
  /\ m.rax = r.stack[Len(r.stack)]
  /\ Mirrors(r, l.vstack, v)

\* An instruction that computes what Spark computes arrives where Spark is.
LEMMA ComputeStep ==
  ASSUME JoltInv, Clean, Step, mach.status = "running",
         NEW c, NEW st, IsState(c, st), NEW lo, IsLowerer(lo), Mirrors(st, lo.vstack, virt),
         NEW n \in Nat, n <= Len(st.stack),
         NEW l, NEW op, op \notin Silent, op # "Pow", NEW src1, NEW src2, NEW p,
         Computes(l, lo, n, op, src1, src2, p), Begins(l, fn), mach.pc = Len(lo.insts) + 1,
         {src1, src2} \ {0} \subseteq virt.defined,
         NEW r, Computed(c, r, st, n, Result(Tier1Inst(op, lo.vregs + 1, src1, src2, p),
                                             Read(virt, src1), Read(virt, src2), virt.locals)),
         r.locals = st.locals
  PROVE  Clean' /\ Arrives(mach', l, virt', r)
<1> DEFINE inst == Tier1Inst(op, lo.vregs + 1, src1, src2, p)
           d == lo.vregs + 1
           a == Read(virt, src1)
           b == Read(virt, src2)
           x == Result(inst, a, b, virt.locals)
<1>1. lo.vregs \in Nat /\ Len(lo.insts) \in Nat
  BY DEF IsLowerer
<1>2. l.insts = Append(lo.insts, inst) /\ l.vregs = d
  BY DEF Computes
<1>3. /\ inst.op = op /\ inst.dst = d /\ inst.src1 = src1 /\ inst.src2 = src2
  BY DEF Tier1Inst
<1>4. d # 0 /\ d \in Nat
  BY <1>1
<1>5. Computed(c, r, st, n, x)
  OBVIOUS
<1> HIDE DEF inst, d, a, b, x
<1>6. fn.insts[mach.pc] = inst /\ Len(l.insts) = Len(lo.insts) + 1
  BY <1>2, EmittedAt
<1>7. {inst.src1, inst.src2} \ {0} \subseteq virt.defined
  BY <1>3
<1>8. /\ Clean' /\ mach.pc \in DOMAIN fn.insts
      /\ mach'.pc = NextPc(fn, mach.pc, Read(virt, inst.src1))
      /\ Yields(mach', mach, inst, Read(virt, inst.src1), Read(virt, inst.src2))
      /\ Became(virt', virt, inst, Read(virt, inst.src1), Read(virt, inst.src2))
      /\ mach.locals = virt.locals /\ DOMAIN virt.vregs = 1 .. fn.vregs
  BY <1>3, <1>6, <1>7, StepTo
<1>9. Yields(mach', mach, inst, a, b) /\ Became(virt', virt, inst, a, b)
  BY <1>3, <1>8 DEF a, b
<1>10. mach'.rax = x /\ mach'.status = "running"
  BY <1>3, <1>4, <1>8, <1>9 DEF Yields, x
<1>11. op \notin Transfers /\ op # "StoreLocal"
  BY DEF Silent
<1>12. mach'.pc = Len(l.insts) + 1
  BY <1>3, <1>6, <1>8, <1>11, NextPcOf
<1>13. /\ virt'.locals = virt.locals /\ virt'.defined = virt.defined \cup {d}
       /\ virt'.vregs = [virt.vregs EXCEPT ![d] = x]
  BY <1>3, <1>4, <1>9, <1>11 DEF Became, x
<1>14. fn.vregs \in Nat /\ d <= fn.vregs
  BY <1>2 DEF Begins, JoltInv, IsFunction
<1>15. Mirrors(r, l.vstack, virt')
  BY <1>5, <1>8, <1>13, <1>14, MirrorsComputed DEF d
<1>16. x = r.stack[Len(r.stack)]
  BY <1>5 DEF Computed
<1> QED BY <1>8, <1>10, <1>12, <1>15, <1>16 DEF Arrives

\* Constants and locals.
LEMMA LoadStep ==
  ASSUME JoltInv, Clean, Step, mach.status = "running",
         NEW c, NEW st, IsState(c, st), NEW lo, IsLowerer(lo), Mirrors(st, lo.vstack, virt),
         NEW ins, IsIns(c, ins), ins.op \in {"LoadConst", "LoadLocal"},
         ins.op = "LoadLocal" => ins.arg \in 0 .. c.maxLocals - 1,
         NEW l, l = LowerOp(c, lo, ins), Begins(l, fn), mach.pc = Len(lo.insts) + 1,
         NEW r, SparkLoads(c, r, st, ins)
  PROVE  Clean' /\ Arrives(mach', l, virt', r)
<1> DEFINE d == lo.vregs + 1
           zero == 0
<1>1. {zero} \ {0} \subseteq virt.defined /\ zero = 0 /\ zero \in Nat
  OBVIOUS
<1>2. Len(st.stack) \in Nat
  BY DEF IsState, IsStack
<1>3. zero <= Len(st.stack) /\ {zero, zero} \ {0} \subseteq virt.defined
  BY <1>2
<1>4. r.locals = st.locals
  BY DEF SparkLoads
<1>5. CASE ins.op = "LoadConst"
  <2> DEFINE p == c.constants[ins.arg].i
             op == "LoadConstImm"
             inst == Tier1Inst(op, d, zero, zero, p)
             x == Result(inst, Read(virt, zero), Read(virt, zero), virt.locals)
  <2>1. c.constants[ins.arg].type = "NumberInt" /\ Computed(c, r, st, 0, p)
    BY <1>5 DEF SparkLoads
  <2>2. Computes(l, lo, 0, op, 0, 0, p)
    BY <1>5, <2>1, LowersLoad
  <2>3. x = p
    BY ResultOf DEF Tier1Inst
  <2>4. op \notin Silent /\ op # "Pow"
    BY DEF Silent, Transfers
  <2>5. Computed(c, r, st, zero, x) /\ Computes(l, lo, zero, op, zero, zero, p)
    BY <1>1, <2>1, <2>2, <2>3
  <2> HIDE DEF p, op, zero
  <2> QED BY <1>1, <1>3, <1>4, <2>4, <2>5, ComputeStep
<1>6. CASE ins.op = "LoadLocal"
  <2> DEFINE p == ins.arg
             op == "LoadLocal"
             inst == Tier1Inst(op, d, zero, zero, p)
             x == Result(inst, Read(virt, zero), Read(virt, zero), virt.locals)
  <2>1. PICK y : st.locals[ins.arg] = <<y>> /\ Computed(c, r, st, 0, y)
    BY <1>6 DEF SparkLoads
  <2>2. p \in DOMAIN st.locals /\ st.locals[p] # <<>>
    BY <1>6, <2>1 DEF IsState
  <2>3. st.locals[p] = <<virt.locals[p]>>
    BY <2>2 DEF Mirrors
  <2>4. y = virt.locals[p]
    BY <2>1, <2>3
  <2>5. x = virt.locals[p]
    BY ResultOf DEF Tier1Inst
  <2>6. Computes(l, lo, 0, op, 0, 0, p)
    BY <1>6, LowersLoad
  <2>7. op \notin Silent /\ op # "Pow"
    BY DEF Silent, Transfers
  <2>8. Computed(c, r, st, zero, x) /\ Computes(l, lo, zero, op, zero, zero, p)
    BY <1>1, <2>1, <2>4, <2>5, <2>6
  <2> HIDE DEF p, op, zero
  <2> QED BY <1>1, <1>3, <1>4, <2>7, <2>8, ComputeStep
<1> QED BY <1>5, <1>6

\* Arithmetic, comparisons and negations.
LEMMA SumStep ==
  ASSUME JoltInv, Clean, Step, mach.status = "running",
         NEW c, NEW st, IsState(c, st), NEW lo, IsLowerer(lo), Mirrors(st, lo.vstack, virt),
         NEW ins, IsIns(c, ins), Needs(ins.op) <= Len(st.stack),
         NEW l, l = LowerOp(c, lo, ins), Begins(l, fn), mach.pc = Len(lo.insts) + 1,
         NEW r, SparkSums(c, r, st, ins)
  PROVE  Clean' /\ Arrives(mach', l, virt', r)
<1> DEFINE s == lo.vstack
           op == ins.op
           n == Needs(op)
           src1 == s[Len(s) - n + 1]
           src2 == IF op \in Binary THEN s[Len(s)] ELSE 0
           p == 0
           inst == Tier1Inst(op, lo.vregs + 1, src1, src2, p)
           x == Result(inst, Read(virt, src1), Read(virt, src2), virt.locals)
           len == Len(st.stack)
<1>1. len \in Nat /\ r.locals = st.locals /\ op \in Binary \cup {"Neg", "Not"}
  BY DEF IsState, IsStack, SparkSums
<1>2. Len(s) \in Nat /\ \A i \in 1 .. Len(s) : s[i] # 0
  BY DEF IsLowerer, Within
<1>3. len <= Len(s)
  BY DEF Mirrors
<1>4. Needs(ins.op) <= Len(lo.vstack)
  BY <1>1, <1>2, <1>3 DEF Needs
<1>5. Computes(l, lo, n, op, src1, src2, p)
  BY <1>1, <1>4, LowersSum
<1>6. op \notin Silent /\ op # "Pow"
  BY <1>1 DEF Silent, Transfers, Binary, Arithmetic, Comparisons, Logical
<1>7. CASE op \in Binary
  <2>1. n = 2 /\ op \notin {"Neg", "Not"}
    BY <1>7, NeedsOf DEF Binary, Arithmetic, Comparisons, Logical
  <2> DEFINE y == BinaryValue(op, st.stack[len - 1], st.stack[len])
  <2>2. Computed(c, r, st, 2, y)
    BY <2>1 DEF SparkSums
  <2>3. Len(s) - n + 1 = Len(s) - 1 /\ Len(s) = Len(s) - 0 /\ 0 < len /\ 1 < len
        /\ Len(s) - 1 \in 1 .. Len(s) /\ Len(s) \in 1 .. Len(s) /\ len - 0 = len
    BY <1>1, <1>2, <1>3, <2>1
  <2>4. src1 = s[Len(s) - 1] /\ src2 = s[Len(s)] /\ src1 # 0 /\ src2 # 0
    BY <1>2, <1>7, <2>3
  <2>5. s[Len(s) - 1] \in virt.defined /\ virt.vregs[s[Len(s) - 1]] = st.stack[len - 1]
    BY <1>2, <2>3, MirrorsTop
  <2>6. s[Len(s) - 0] \in virt.defined /\ virt.vregs[s[Len(s) - 0]] = st.stack[len - 0]
    BY <1>2, <2>3, MirrorsTop
  <2>7. s[Len(s)] \in virt.defined /\ virt.vregs[s[Len(s)]] = st.stack[len]
    BY <2>3, <2>6
  <2> HIDE DEF src1, src2, len
  <2>8. /\ Read(virt, src1) = st.stack[len - 1] /\ Read(virt, src2) = st.stack[len]
        /\ {src1, src2} \ {0} \subseteq virt.defined
    BY <2>4, <2>5, <2>7 DEF Read
  <2>9. inst.op = op
    BY DEF Tier1Inst
  <2> HIDE DEF inst, op
  <2>10. x = y
    BY <1>7, <2>8, <2>9, ResultOf
  <2> HIDE DEF y, x, n, p
  <2>11. Computed(c, r, st, n, x)
    BY <2>1, <2>2, <2>10
  <2>12. n \in Nat /\ n <= Len(st.stack)
    BY <2>1 DEF n, op
  <2> QED BY <1>1, <1>5, <1>6, <2>8, <2>11, <2>12, ComputeStep DEF x, inst
<1>8. CASE op \in {"Neg", "Not"}
  <2>1. n = 1 /\ op \notin Binary
    BY <1>8, NeedsOf DEF Binary, Arithmetic, Comparisons, Logical
  <2> DEFINE y == UnaryValue(op, st.stack[len])
  <2>2. Computed(c, r, st, 1, y)
    BY <2>1 DEF SparkSums
  <2>3. Len(s) - n + 1 = Len(s) /\ Len(s) = Len(s) - 0 /\ 0 < len
        /\ Len(s) \in 1 .. Len(s) /\ len - 0 = len
    BY <1>1, <1>2, <1>3, <2>1
  <2>4. src1 = s[Len(s)] /\ src2 = 0 /\ src1 # 0
    BY <1>2, <2>1, <2>3
  <2>6. s[Len(s) - 0] \in virt.defined /\ virt.vregs[s[Len(s) - 0]] = st.stack[len - 0]
    BY <1>2, <2>3, MirrorsTop
  <2>7. s[Len(s)] \in virt.defined /\ virt.vregs[s[Len(s)]] = st.stack[len]
    BY <2>3, <2>6
  <2> HIDE DEF src1, src2, len
  <2>8. /\ Read(virt, src1) = st.stack[len]
        /\ {src1, src2} \ {0} \subseteq virt.defined
    BY <2>4, <2>7 DEF Read
  <2>9. inst.op = op
    BY DEF Tier1Inst
  <2> HIDE DEF inst, op
  <2>10. x = y
    BY <1>8, <2>8, <2>9, ResultOf
  <2> HIDE DEF y, x, n, p
  <2>11. Computed(c, r, st, n, x)
    BY <2>1, <2>2, <2>10
  <2>12. n \in Nat /\ n <= Len(st.stack)
    BY <2>1 DEF n, op
  <2> QED BY <1>1, <1>5, <1>6, <2>8, <2>11, <2>12, ComputeStep DEF x, inst
<1> QED BY <1>1, <1>7, <1>8

\* An instruction that defines nothing.
Passes(m2, m, v2, v, f, inst, a) ==
  /\ f.insts[m.pc] = inst
  /\ m2.pc = NextPc(f, m.pc, a)
  /\ Yields(m2, m, inst, a, Junk)
  /\ SameRegisters(v2, v)
  /\ v2.locals = IF inst.op = "StoreLocal" THEN [v.locals EXCEPT ![inst.payload] = a]
                 ELSE v.locals

\* A step over an instruction that defines nothing.
LEMMA SilentStep ==
  ASSUME JoltInv, Clean, Step, NEW lo, IsLowerer(lo),
         NEW l, NEW op, op \in Silent, NEW src1, src1 = 0 \/ src1 \in virt.defined, NEW p,
         l.insts = Append(lo.insts, Tier1Inst(op, 0, src1, 0, p)),
         Begins(l, fn), mach.pc = Len(lo.insts) + 1
  PROVE  /\ Clean'
         /\ Passes(mach', mach, virt', virt, fn, Tier1Inst(op, 0, src1, 0, p), Read(virt, src1))
         /\ Len(l.insts) = mach.pc
<1> DEFINE inst == Tier1Inst(op, 0, src1, 0, p)
           a == Read(virt, src1)
<1>1. /\ inst.op = op /\ inst.dst = 0 /\ inst.src1 = src1 /\ inst.src2 = 0
  BY DEF Tier1Inst
<1>2. l.insts = Append(lo.insts, inst)
  OBVIOUS
<1>3. op # "Pow"
  BY DEF Silent, Transfers
<1> HIDE DEF inst
<1>4. fn.insts[mach.pc] = inst /\ Len(l.insts) = mach.pc
  BY <1>2, EmittedAt
<1>5. {inst.src1, inst.src2} \ {0} \subseteq virt.defined
  BY <1>1
<1>6. /\ Clean'
      /\ mach'.pc = NextPc(fn, mach.pc, Read(virt, inst.src1))
      /\ Yields(mach', mach, inst, Read(virt, inst.src1), Read(virt, inst.src2))
      /\ Became(virt', virt, inst, Read(virt, inst.src1), Read(virt, inst.src2))
  BY <1>1, <1>3, <1>4, <1>5, StepTo
<1>7. Read(virt, inst.src1) = a /\ Read(virt, inst.src2) = Junk
  BY <1>1 DEF Read
<1> HIDE DEF a
<1>8. Passes(mach', mach, virt', virt, fn, inst, a)
  BY <1>1, <1>4, <1>6, <1>7 DEF Passes, Became, SameRegisters
<1> QED BY <1>4, <1>6, <1>8 DEF inst, a

\* The register on top of the virtual stack.
LEMMA TopRead ==
  ASSUME NEW c, NEW st, IsState(c, st), NEW lo, IsLowerer(lo), NEW v, Mirrors(st, lo.vstack, v),
         0 < Len(st.stack)
  PROVE  /\ lo.vstack[Len(lo.vstack)] \in v.defined
         /\ Read(v, lo.vstack[Len(lo.vstack)]) = st.stack[Len(st.stack)]
         /\ Len(lo.vstack) \in Nat /\ Len(st.stack) \in Nat /\ Len(st.stack) <= Len(lo.vstack)
<1> DEFINE s == lo.vstack
           zero == 0
<1>1. Len(s) \in Nat /\ \A i \in 1 .. Len(s) : s[i] # 0
  BY DEF IsLowerer, Within
<1>2. Len(st.stack) \in Nat
  BY DEF IsState, IsStack
<1>3. zero \in Nat /\ zero < Len(st.stack) /\ Len(s) - zero = Len(s)
      /\ Len(st.stack) - zero = Len(st.stack)
  BY <1>1, <1>2
<1>4. Len(st.stack) <= Len(s)
  BY DEF Mirrors
<1>5. Len(s) \in 1 .. Len(s)
  BY <1>1, <1>2, <1>4
<1> HIDE DEF zero, s
<1>6. s[Len(s) - zero] \in v.defined /\ v.vregs[s[Len(s) - zero]] = st.stack[Len(st.stack) - zero]
  BY <1>1, <1>3, MirrorsTop DEF s
<1>7. s[Len(s)] # 0
  BY <1>1, <1>5
<1>8. s[Len(s)] \in v.defined /\ Read(v, s[Len(s)]) = st.stack[Len(st.stack)]
  BY <1>3, <1>6, <1>7 DEF Read
<1> QED BY <1>1, <1>2, <1>4, <1>8 DEF s

\* StoreLocal.
LEMMA StoreStep ==
  ASSUME JoltInv, Clean, Step, mach.status = "running",
         NEW c, NEW st, IsState(c, st), NEW lo, IsLowerer(lo), Mirrors(st, lo.vstack, virt),
         NEW ins, IsIns(c, ins), ins.op = "StoreLocal", Needs(ins.op) <= Len(st.stack),
         NEW l, l = LowerOp(c, lo, ins), Begins(l, fn), mach.pc = Len(lo.insts) + 1,
         NEW r, SparkLoads(c, r, st, ins)
  PROVE  Clean' /\ Arrives(mach', l, virt', r)
<1> DEFINE s == lo.vstack
           src1 == s[Len(s)]
           op == "StoreLocal"
           inst == Tier1Inst(op, 0, src1, 0, ins.arg)
           a == Read(virt, src1)
           x == st.stack[Len(st.stack)]
<1>1. Needs(ins.op) = 1
  BY NeedsOf
<1>2. 0 < Len(st.stack) /\ 1 <= Len(st.stack)
  BY <1>1 DEF IsState, IsStack
<1>3. /\ src1 \in virt.defined /\ a = x
      /\ Len(s) \in Nat /\ Len(st.stack) \in Nat /\ Len(st.stack) <= Len(s)
  BY <1>2, TopRead
<1>4. Needs(ins.op) <= Len(s)
  BY <1>1, <1>2, <1>3
<1>5. Does(l, lo, 0, op, src1, ins.arg)
  BY <1>4, LowersQuiet
<1>6. /\ l.insts = Append(lo.insts, inst) /\ Shorter(l.vstack, s, 0)
  BY <1>5 DEF Does, Shorter
<1>7. op \in Silent
  BY DEF Silent
<1>8. Computed(c, r, st, 1, x) /\ r.locals = [st.locals EXCEPT ![ins.arg] = <<x>>]
  BY DEF SparkLoads
<1>9. inst.op = "StoreLocal" /\ inst.payload = ins.arg
  BY DEF Tier1Inst
<1> HIDE DEF op, src1
<1>10. /\ Clean' /\ Passes(mach', mach, virt', virt, fn, inst, a)
       /\ Len(l.insts) = mach.pc
  BY <1>3, <1>6, <1>7, SilentStep
<1> HIDE DEF inst, a, x, s
<1>11. mach'.rax = a /\ mach'.status = "running"
  BY <1>9, <1>10 DEF Passes, Yields
<1>12. inst.op \notin Transfers
  BY <1>9 DEF Transfers
<1>13. mach'.pc = Len(l.insts) + 1
  BY <1>10, <1>12, NextPcOf DEF Passes
<1>14. SameRegisters(virt', virt) /\ virt'.locals = [virt.locals EXCEPT ![ins.arg] = x]
  BY <1>3, <1>9, <1>10 DEF Passes
<1> DEFINE arg == ins.arg
<1> HIDE DEF arg
<1>15. virt'.locals = [virt.locals EXCEPT ![arg] = x] /\ r.locals = [st.locals EXCEPT ![arg] = <<x>>]
  BY <1>8, <1>14 DEF arg
<1>16. Mirrors(st, s, virt) /\ x = st.stack[Len(st.stack)]
  BY DEF s, x
<1> DEFINE s2 == l.vstack
           v2 == virt'
<1>17a. Shorter(s2, s, 0) /\ SameRegisters(v2, virt) /\ v2.locals = [virt.locals EXCEPT ![arg] = x]
  BY <1>6, <1>14, <1>15
<1> HIDE DEF s2, v2
<1>17b. /\ IsState(c, st) /\ Len(s) \in Nat /\ Mirrors(st, s, virt) /\ 1 <= Len(st.stack)
        /\ Computed(c, r, st, 1, x) /\ Shorter(s2, s, 0) /\ Stores(r, st, v2, virt, arg, x)
  BY <1>2, <1>3, <1>8, <1>15, <1>16, <1>17a DEF Stores
<1>17c. Mirrors(r, s2, v2)
  BY ONLY <1>17b, MirrorsStored
<1>17. Mirrors(r, l.vstack, virt')
  BY <1>17c DEF s2, v2
<1>18. r.stack[Len(r.stack)] = x
  BY <1>3, <1>8 DEF Computed
<1> QED BY <1>3, <1>10, <1>11, <1>13, <1>17, <1>18 DEF Arrives

\* After a jump, taken or not.
Turns(m, l, v, r, st, ins, f) ==
  /\ m.status = "running" /\ Mirrors(r, l.vstack, v)
  /\ IF Taken(st, ins) THEN m.pc = LabelIndex(f, ins.arg)
     ELSE m.pc = Len(l.insts) + 1 /\ ~ r.fresh

\* Jump and JumpIfFalse: the code turns where Spark turns.
LEMMA JumpStep ==
  ASSUME JoltInv, Clean, Step, mach.status = "running",
         NEW c, NEW st, IsState(c, st), NEW lo, IsLowerer(lo), Mirrors(st, lo.vstack, virt),
         NEW ins, IsIns(c, ins), ins.op \in {"Jump", "JumpIfFalse"},
         Needs(ins.op) <= Len(st.stack),
         NEW l, l = LowerOp(c, lo, ins), Begins(l, fn), mach.pc = Len(lo.insts) + 1,
         NEW r, SparkMoves(c, r, st, ins)
  PROVE  Clean' /\ Turns(mach', l, virt', r, st, ins, fn)
<1> DEFINE s == lo.vstack
           arg == ins.arg
           len == Len(st.stack)
<1>1. Len(s) \in Nat /\ len \in Nat /\ len <= Len(s)
  BY DEF IsLowerer, Within, IsState, IsStack, Mirrors
<1>2. Needs(ins.op) <= Len(s)
  BY <1>1 DEF Needs
<1>3. CASE ins.op = "Jump"
  <2> DEFINE op == "Jump"
             none == 0
             inst == Tier1Inst(op, 0, none, 0, arg)
  <2>1. Does(l, lo, 0, "Jump", 0, ins.arg)
    BY <1>2, <1>3, LowersQuiet
  <2>2. l.insts = Append(lo.insts, inst) /\ Shorter(l.vstack, s, 0)
    BY <2>1 DEF Does, Shorter
  <2>3. op \in Silent /\ none = 0
    BY DEF Silent, Transfers
  <2>4. inst.op = "Jump" /\ inst.payload = arg
    BY DEF Tier1Inst
  <2> HIDE DEF op, none, arg
  <2>5. Clean' /\ Passes(mach', mach, virt', virt, fn, inst, Read(virt, none))
    BY <2>2, <2>3, SilentStep
  <2> DEFINE a == Read(virt, none)
  <2> HIDE DEF inst, a
  <2>6. Passes(mach', mach, virt', virt, fn, inst, a)
    BY <2>5 DEF a
  <2>7. /\ mach'.status = "running" /\ SameRegisters(virt', virt) /\ virt'.locals = virt.locals
        /\ mach'.pc = LabelIndex(fn, arg)
    BY <2>4, <2>6, NextPcOf DEF Passes, Yields
  <2>8. Drops(c, r, st, 0) /\ r.ip = arg
    BY <1>3 DEF SparkMoves, arg
  <2> DEFINE n == 0
  <2>9. n \in Nat /\ n <= len /\ Drops(c, r, st, n) /\ Shorter(l.vstack, s, n)
    BY <1>1, <2>2, <2>8
  <2> HIDE DEF n
  <2>10. Mirrors(r, l.vstack, virt')
    BY <1>1, <2>7, <2>9, MirrorsDrops
  <2> QED BY <1>3, <2>5, <2>7, <2>8, <2>10 DEF Turns, Taken, arg
<1>4. CASE ins.op = "JumpIfFalse"
  <2> DEFINE src1 == s[Len(s)]
             op == "BranchIfFalse"
             inst == Tier1Inst(op, 0, src1, 0, arg)
             a == Read(virt, src1)
             n == 1
  <2>1. Needs(ins.op) = 1
    BY <1>4, NeedsOf
  <2>2. 0 < len /\ n <= len /\ n \in Nat
    BY <1>1, <2>1
  <2>3. src1 \in virt.defined /\ a = st.stack[len]
    BY <2>2, TopRead
  <2>4. Does(l, lo, 1, "BranchIfFalse", src1, ins.arg)
    BY <1>2, <1>4, LowersQuiet
  <2>5. l.insts = Append(lo.insts, inst) /\ Shorter(l.vstack, s, n)
    BY <2>4 DEF Does, Shorter
  <2>6. op \in Silent
    BY DEF Silent, Transfers
  <2>7. inst.op = "BranchIfFalse" /\ inst.payload = arg
    BY DEF Tier1Inst
  <2> HIDE DEF op, src1, arg
  <2>8. Clean' /\ Passes(mach', mach, virt', virt, fn, inst, a) /\ Len(l.insts) = mach.pc
    BY <2>3, <2>5, <2>6, SilentStep
  <2> HIDE DEF inst, a
  <2>9. /\ mach'.status = "running" /\ SameRegisters(virt', virt) /\ virt'.locals = virt.locals
        /\ mach'.pc = IF a = 0 THEN LabelIndex(fn, arg) ELSE mach.pc + 1
    BY <2>7, <2>8, NextPcOf DEF Passes, Yields
  <2>10. /\ Drops(c, r, st, 1)
         /\ IF st.stack[Len(st.stack)] = 0 THEN r.ip = arg
            ELSE r.ip = st.ip + 1 /\ ~ r.fresh
    BY <1>4 DEF SparkMoves, arg
  <2>11. Drops(c, r, st, n)
    BY <2>10
  <2> HIDE DEF n
  <2>12. Mirrors(r, l.vstack, virt')
    BY <1>1, <2>2, <2>5, <2>9, <2>11, MirrorsDrops
  <2> QED BY <1>4, <2>3, <2>8, <2>9, <2>10, <2>12 DEF Turns, Taken, arg
<1> QED BY <1>3, <1>4

\* Return and Halt: the code leaves with Spark's value in rax.
LEMMA EndStep ==
  ASSUME JoltInv, Clean, Step, mach.status = "running",
         NEW c, NEW st, IsState(c, st), NEW lo, IsLowerer(lo), Mirrors(st, lo.vstack, virt),
         NEW ins, IsIns(c, ins),
         NEW l, l = LowerOp(c, lo, ins), Begins(l, fn), mach.pc = Len(lo.insts) + 1,
         NEW r, SparkEnds(c, r, st, ins), r.status = "int", r.fresh,
         st.fresh /\ st.stack # <<>> => mach.rax = st.stack[Len(st.stack)]
  PROVE  Clean' /\ mach'.status # "running" /\ mach'.rax = r.value
<1> DEFINE s == lo.vstack
           len == Len(st.stack)
<1>1. Len(s) \in Nat /\ len \in Nat /\ len <= Len(s)
  BY DEF IsLowerer, Within, IsState, IsStack, Mirrors
<1>2. /\ ins.op \in {"Return", "Halt"} /\ 0 < len /\ r.value = st.stack[len]
      /\ ins.op = "Halt" => r.fresh = st.fresh
  BY DEF SparkEnds
<1>3. CASE ins.op = "Halt"
  <2> DEFINE op == "Halt"
             none == 0
             inst == Tier1Inst(op, 0, none, 0, none)
  <2>1. Needs(ins.op) <= Len(s)
    BY <1>1, <1>3, NeedsOf
  <2>2. Does(l, lo, 0, "Halt", 0, 0)
    BY <1>3, <2>1, LowersQuiet
  <2>3. l.insts = Append(lo.insts, inst)
    BY <2>2 DEF Does
  <2>4. op \in Silent /\ none = 0
    BY DEF Silent
  <2>5. inst.op = "Halt"
    BY DEF Tier1Inst
  <2> HIDE DEF op, none
  <2>6. Clean' /\ Passes(mach', mach, virt', virt, fn, inst, Read(virt, none))
    BY <2>3, <2>4, SilentStep
  <2> HIDE DEF inst
  <2>7. mach'.rax = mach.rax /\ mach'.status = "halted"
    BY <2>5, <2>6 DEF Passes, Yields
  <2>8a. st.fresh
    BY <1>2, <1>3
  <2>8b. st.stack # <<>>
    BY <1>2
  <2>8. st.stack # <<>> /\ st.fresh
    BY <2>8a, <2>8b
  <2>9. mach.rax = st.stack[len]
    BY <2>8
  <2> QED BY <1>2, <2>6, <2>7, <2>9
<1>4. CASE ins.op = "Return"
  <2> DEFINE src1 == s[Len(s)]
             op == "Return"
             p == 0
             inst == Tier1Inst(op, 0, src1, 0, p)
             a == Read(virt, src1)
  <2>1. Needs(ins.op) <= Len(s)
    BY <1>1, <1>2, <1>4, NeedsOf
  <2>3. src1 \in virt.defined /\ a = st.stack[len]
    BY <1>2, TopRead
  <2>4. Does(l, lo, 1, "Return", src1, 0)
    BY <1>4, <2>1, LowersQuiet
  <2>5. l.insts = Append(lo.insts, inst)
    BY <2>4 DEF Does
  <2>6. op \in Silent
    BY DEF Silent
  <2>7. inst.op = "Return"
    BY DEF Tier1Inst
  <2> HIDE DEF op, src1, p
  <2>8. Clean' /\ Passes(mach', mach, virt', virt, fn, inst, a)
    BY <2>3, <2>5, <2>6, SilentStep
  <2> HIDE DEF inst, a
  <2>9. mach'.rax = a /\ mach'.status = "returned"
    BY <2>7, <2>8 DEF Passes, Yields
  <2> QED BY <1>2, <2>3, <2>8, <2>9
<1> QED BY <1>2, <1>3, <1>4

\* What is known of position k of a chunk and of the function it is part of.
Site(c, L, f, k) ==
  /\ IsLowerer(L[k - 1]) /\ IsLowerer(Labelled(c, L, k)) /\ IsLowerer(L[k])
  /\ IsIns(c, c.code[k])
  /\ c.code[k].op \in {"LoadLocal", "StoreLocal"} => c.code[k].arg \in 0 .. c.maxLocals - 1
  /\ L[k] = LowerOp(c, Labelled(c, L, k), c.code[k])
  /\ Labelled(c, L, k).vstack = L[k - 1].vstack
  /\ Begins(L[k], f) /\ Begins(Labelled(c, L, k), f) /\ IsFunction(f)
  /\ k \in Targets(c) =>
       /\ f.insts[Start(L, k)] = Mark(k) /\ LabelIndex(f, k) = Start(L, k)
       /\ Labelled(c, L, k).insts = Append(L[k - 1].insts, Mark(k))
  /\ k \notin Targets(c) => Labelled(c, L, k) = L[k - 1]

\* It is so for every position.
LEMMA SiteOf ==
  ASSUME NEW c, IsChunk(c), NEW L, IsLowering(c, L), NEW f,
         f = Tier1Function(L[Len(c.code)].insts, L[Len(c.code)].vregs),
         NEW k \in 1 .. Len(c.code)
  PROVE  Site(c, L, f, k)
<1> DEFINE lo == Labelled(c, L, k)
<1>1. Len(c.code) \in Nat /\ k \in 0 .. Len(c.code) /\ k - 1 \in 0 .. Len(c.code) /\ k \in Nat
  BY CodeOf
<1>2. IsLowerer(L[k - 1]) /\ IsLowerer(L[k])
  BY <1>1, LowerersOf
<1>3. /\ IsLowerer(lo) /\ L[k] = LowerOp(c, lo, c.code[k])
      /\ k \in Targets(c) => Emitted(lo, L[k - 1], Mark(k))
  BY <1>2, PositionGrows
<1>4. k \notin Targets(c) => lo = L[k - 1]
  BY DEF Labelled
<1>5. IsIns(c, c.code[k])
  BY CodeOf
<1>6. c.code[k].op \in {"LoadLocal", "StoreLocal"} => c.code[k].arg \in 0 .. c.maxLocals - 1
  BY CodeOf DEF IsChunk
<1>7. lo.vstack = L[k - 1].vstack
  BY <1>3, <1>4 DEF Emitted
<1>8. Keeps(lo, L[k])
  BY PositionKeeps
<1>9. /\ IsFunction(f)
      /\ Len(L[k].insts) \in Nat /\ Len(L[k].insts) <= Len(f.insts)
      /\ L[k].vregs \in Nat /\ L[k].vregs <= f.vregs
      /\ \A p \in 1 .. Len(L[k].insts) : f.insts[p] = L[k].insts[p]
      /\ k \in Targets(c) => LabelIndex(f, k) = Start(L, k) /\ f.insts[Start(L, k)] = Mark(k)
  BY <1>1, FunctionOf
<1>10. Begins(L[k], f)
  BY <1>9 DEF Begins
<1>11. f.vregs \in Nat /\ Len(f.insts) \in Nat
  BY <1>9, InstructionsOf DEF IsFunction
<1> HIDE DEF lo
<1>12. Begins(lo, f)
  <2>1. /\ Len(lo.insts) \in Nat /\ Len(lo.insts) <= Len(L[k].insts)
        /\ lo.vregs \in Nat /\ lo.vregs <= L[k].vregs
        /\ \A p \in 1 .. Len(lo.insts) : L[k].insts[p] = lo.insts[p]
    BY <1>8 DEF Keeps
  <2>2. lo.vregs <= f.vregs /\ Len(lo.insts) <= Len(f.insts)
    BY <1>9, <1>11, <2>1
  <2>3. \A p \in 1 .. Len(lo.insts) : f.insts[p] = lo.insts[p]
    BY <1>9, <2>1
  <2> QED BY <2>2, <2>3 DEF Begins
<1>13. k \in Targets(c) => lo.insts = Append(L[k - 1].insts, Mark(k))
  BY <1>3 DEF Emitted
<1> QED BY <1>2, <1>3, <1>4, <1>5, <1>6, <1>7, <1>9, <1>10, <1>12, <1>13 DEF Site, lo

\* Spark is about to execute position k, and the machine code has reached what
\* that position became, before its label or after it; what Spark computed
\* last is in rax.
At(c, T, L, k, m, v) ==
  /\ k \in 1 .. Len(c.code) + 1
  /\ T[k - 1].status = "running" /\ T[k - 1].ip = k
  /\ m.status = "running"
  /\ \/ m.pc = Start(L, k)
     \/ k \in 1 .. Len(c.code) /\ m.pc = Len(Labelled(c, L, k).insts) + 1
  /\ Mirrors(T[k - 1], L[k - 1].vstack, v)
  /\ T[k - 1].fresh /\ T[k - 1].stack # <<>> => m.rax = T[k - 1].stack[Len(T[k - 1].stack)]

\* The machine code is where Spark is, or has left with Spark's value.
Follows(c, T, L, m, v) ==
  \/ \E k \in 1 .. Len(c.code) + 1 : At(c, T, L, k, m, v)
  \/ m.status # "running" /\ m.rax = Outcome(c, T).value

\* The label of a position.
LEMMA LabelStep ==
  ASSUME JoltInv, Clean, Step, NEW c, NEW T, NEW L, NEW k \in 1 .. Len(c.code),
         Site(c, L, fn, k), At(c, T, L, k, mach, virt), mach.pc = Start(L, k), k \in Targets(c)
  PROVE  Clean' /\ At(c, T, L, k, mach', virt')
<1> DEFINE lo == L[k - 1]
           l == Labelled(c, L, k)
           op == "Label"
           none == 0
           inst == Tier1Inst(op, 0, none, 0, k)
<1>1. IsLowerer(lo) /\ Begins(l, fn) /\ l.insts = Append(lo.insts, inst)
      /\ mach.pc = Len(lo.insts) + 1
  BY DEF Site, Mark, Start
<1>2. op \in Silent /\ none = 0 /\ inst.op = "Label"
  BY DEF Silent, Tier1Inst
<1> HIDE DEF op, none, lo, l
<1>3. /\ Clean' /\ Passes(mach', mach, virt', virt, fn, inst, Read(virt, none))
      /\ Len(l.insts) = mach.pc
  BY <1>1, <1>2, SilentStep
<1> HIDE DEF inst
<1>4. inst.op \notin Transfers
  BY <1>2 DEF Transfers
<1>5. /\ mach'.rax = mach.rax /\ mach'.status = mach.status /\ mach'.pc = Len(l.insts) + 1
      /\ virt'.vregs = virt.vregs /\ virt'.defined = virt.defined /\ virt'.locals = virt.locals
  BY <1>2, <1>3, <1>4, NextPcOf DEF Passes, Yields, SameRegisters
<1>6. Mirrors(T[k - 1], L[k - 1].vstack, virt')
  BY <1>5 DEF At, Mirrors
<1> QED BY <1>3, <1>5, <1>6 DEF At, l

\* A Pop emits nothing: where it is reached, so is the next position.
LEMMA PopPasses ==
  ASSUME NEW c, IsChunk(c), NEW T, IsSpark(c, T), Compared(Outcome(c, T)),
         NEW L, NEW f, NEW k \in 1 .. Len(c.code), Site(c, L, f, k),
         NEW m, NEW v, At(c, T, L, k, m, v), m.pc = Len(Labelled(c, L, k).insts) + 1,
         c.code[k].op = "Pop"
  PROVE  At(c, T, L, k + 1, m, v)
<1> DEFINE st == T[k - 1]
           r == T[k]
           lo == Labelled(c, L, k)
           l == L[k]
           ins == c.code[k]
           one == 1
<1>1. Len(c.code) \in Nat /\ k - 1 \in 0 .. Len(c.code)
  BY CodeOf
<1>2. IsState(c, st) /\ st.ip = k
  BY <1>1, SparkStates DEF At
<1>3. SparkGoes(c, T, k)
  BY SparkGoesOn DEF At
<1>4. Needs(ins.op) = 1
  BY NeedsOf
<1>5. /\ r.status = "running" /\ Needs(ins.op) <= Len(st.stack) /\ SparkMoves(c, r, st, ins)
  <2>1. ~ SparkLoads(c, r, st, ins) /\ ~ SparkSums(c, r, st, ins)
    BY DEF SparkLoads, SparkSums, Binary, Arithmetic, Comparisons, Logical
  <2>2. ~ (r.status = "int" /\ SparkEnds(c, r, st, ins))
    BY DEF SparkEnds
  <2> HIDE DEF r, st, ins
  <2> QED BY <1>3, <2>1, <2>2 DEF SparkGoes, r, st, ins
<1>6. Drops(c, r, st, 1) /\ r.ip = k + 1 /\ ~ r.fresh
  BY <1>2, <1>5 DEF SparkMoves
<1>7. /\ IsLowerer(lo) /\ Mirrors(st, lo.vstack, v) /\ l = LowerOp(c, lo, ins)
  BY DEF Site, At
<1>8. Len(lo.vstack) \in Nat /\ 1 <= Len(st.stack) /\ Len(st.stack) \in Nat
  BY <1>2, <1>4, <1>5, <1>7 DEF IsLowerer, Within, IsState, IsStack
<1>9. 1 <= Len(lo.vstack)
  BY <1>7, <1>8 DEF Mirrors
<1>10. l.insts = lo.insts /\ Shorter(l.vstack, lo.vstack, one)
  BY <1>7, <1>9, LowersPop DEF Shorter
<1>11. one \in Nat /\ one <= Len(st.stack) /\ Drops(c, r, st, one)
  BY <1>6, <1>8
<1> HIDE DEF st, r, lo, l, one, ins
<1>12. SameRegisters(v, v)
  BY DEF SameRegisters
<1>13. Mirrors(r, l.vstack, v)
  BY <1>2, <1>7, <1>8, <1>10, <1>11, <1>12, MirrorsDrops
<1> DEFINE j == k + 1
<1>14. j \in 1 .. Len(c.code) + 1 /\ j - 1 = k
  BY <1>1
<1>15. m.pc = Len(l.insts) + 1 /\ m.status = "running"
  BY <1>10 DEF lo, At
<1>16. m.pc = Start(L, j)
  BY <1>14, <1>15 DEF Start, l
<1>17. T[j - 1] = r /\ L[j - 1] = l /\ r.ip = j
  BY <1>6, <1>14 DEF r, l
<1> HIDE DEF j
<1>18. At(c, T, L, j, m, v)
  BY <1>5, <1>6, <1>13, <1>14, <1>15, <1>16, <1>17 DEF At
<1> QED BY <1>18 DEF j

\* The next position, in the terms of the position before.
LEMMA NextAt ==
  ASSUME NEW c, IsChunk(c), NEW T, NEW L, NEW k \in 1 .. Len(c.code), NEW m, NEW v,
         T[k].status = "running", T[k].ip = k + 1,
         m.status = "running", m.pc = Len(L[k].insts) + 1, Mirrors(T[k], L[k].vstack, v),
         T[k].fresh => m.rax = T[k].stack[Len(T[k].stack)]
  PROVE  At(c, T, L, k + 1, m, v)
<1> DEFINE j == k + 1
<1>1. j \in 1 .. Len(c.code) + 1 /\ j - 1 = k
  BY CodeOf
<1>2. T[j - 1] = T[k] /\ L[j - 1] = L[k] /\ T[k].ip = j
  BY <1>1
<1>3. m.pc = Start(L, j)
  BY <1>2 DEF Start
<1> HIDE DEF j
<1>4. At(c, T, L, j, m, v)
  BY <1>1, <1>2, <1>3 DEF At
<1> QED BY <1>4 DEF j

\* One instruction of position k, behind its label.
LEMMA PositionRuns ==
  ASSUME JoltInv, Clean, Step, NEW c, IsChunk(c), NEW T, IsSpark(c, T), Compared(Outcome(c, T)),
         NEW L, IsLowering(c, L), fn = Tier1Function(L[Len(c.code)].insts, L[Len(c.code)].vregs),
         NEW k \in 1 .. Len(c.code), At(c, T, L, k, mach, virt),
         mach.pc = Len(Labelled(c, L, k).insts) + 1, c.code[k].op # "Pop"
  PROVE  Clean' /\ Follows(c, T, L, mach', virt')
<1> DEFINE st == T[k - 1]
           r == T[k]
           lo == Labelled(c, L, k)
           l == L[k]
           ins == c.code[k]
<1>1. Len(c.code) \in Nat /\ k - 1 \in 0 .. Len(c.code) /\ k \in 1 .. Len(c.code)
      /\ k + 1 \in 1 .. Len(c.code) + 1
  BY CodeOf
<1>2. IsState(c, st) /\ st.ip = k
  BY <1>1, SparkStates DEF At
<1>3. SparkGoes(c, T, k)
  BY SparkGoesOn DEF At
<1>4. Site(c, L, fn, k)
  BY SiteOf
<1>5. /\ IsLowerer(lo) /\ IsIns(c, ins) /\ l = LowerOp(c, lo, ins) /\ Begins(l, fn)
      /\ ins.op \in {"LoadLocal", "StoreLocal"} => ins.arg \in 0 .. c.maxLocals - 1
      /\ Mirrors(st, lo.vstack, virt) /\ mach.pc = Len(lo.insts) + 1
      /\ mach.status = "running"
  BY <1>4 DEF Site, At
<1>6. st.fresh /\ st.stack # <<>> => mach.rax = st.stack[Len(st.stack)]
  BY DEF At
<1> HIDE DEF st, r, lo, l, ins
<1>7. \/ /\ r.status = "running" /\ Needs(ins.op) <= Len(st.stack)
         /\ SparkLoads(c, r, st, ins) \/ SparkSums(c, r, st, ins) \/ SparkMoves(c, r, st, ins)
         /\ \/ ~ Taken(st, ins) /\ r.ip = k + 1
            \/ r.ip = ins.arg /\ r.ip \in k + 1 .. Len(c.code) /\ r.stack = <<>>
         /\ T[r.ip - 1] = r
      \/ r.status = "int" /\ r = Outcome(c, T) /\ SparkEnds(c, r, st, ins)
  BY <1>3 DEF SparkGoes, st, r, ins
<1>8. ASSUME Arrives(mach', l, virt', r), r.status = "running", r.ip = k + 1
      PROVE  Follows(c, T, L, mach', virt')
  <2>1. At(c, T, L, k + 1, mach', virt')
    BY <1>8, NextAt DEF Arrives, r, l
  <2> QED BY <1>1, <2>1 DEF Follows
<1>9. CASE r.status = "running" /\ Needs(ins.op) <= Len(st.stack) /\ SparkLoads(c, r, st, ins)
  <2>1. r.ip = k + 1
    BY <1>2, <1>9 DEF SparkLoads, Computed
  <2>2. CASE ins.op = "StoreLocal"
    <3>1. Clean' /\ Arrives(mach', l, virt', r)
      BY <1>2, <1>5, <1>9, <2>2, StoreStep
    <3> QED BY <1>8, <1>9, <2>1, <3>1
  <2>3. CASE ins.op \in {"LoadConst", "LoadLocal"}
    <3>1. Clean' /\ Arrives(mach', l, virt', r)
      BY <1>2, <1>5, <1>9, <2>3, LoadStep
    <3> QED BY <1>8, <1>9, <2>1, <3>1
  <2> QED BY <1>9, <2>2, <2>3 DEF SparkLoads
<1>10. CASE r.status = "running" /\ Needs(ins.op) <= Len(st.stack) /\ SparkSums(c, r, st, ins)
  <2>1. r.ip = k + 1
    BY <1>2, <1>10 DEF SparkSums, Computed
  <2>2. Clean' /\ Arrives(mach', l, virt', r)
    BY <1>2, <1>5, <1>10, SumStep
  <2> QED BY <1>8, <1>10, <2>1, <2>2
<1>11. CASE /\ r.status = "running" /\ Needs(ins.op) <= Len(st.stack)
            /\ SparkMoves(c, r, st, ins)
            /\ \/ ~ Taken(st, ins) /\ r.ip = k + 1
               \/ r.ip = ins.arg /\ r.ip \in k + 1 .. Len(c.code) /\ r.stack = <<>>
            /\ T[r.ip - 1] = r
  <2>1. ins.op \in {"Jump", "JumpIfFalse"}
    BY <1>11 DEF SparkMoves, ins
  <2>2. Clean' /\ Turns(mach', l, virt', r, st, ins, fn)
    BY <1>2, <1>5, <1>11, <2>1, JumpStep
  <2>3. mach'.status = "running" /\ Mirrors(r, l.vstack, virt')
    BY <2>2 DEF Turns
  <2>4. CASE ~ Taken(st, ins) /\ r.ip = k + 1
    <3>1. mach'.pc = Len(l.insts) + 1 /\ ~ r.fresh
      BY <2>2, <2>4 DEF Turns
    <3>2. At(c, T, L, k + 1, mach', virt')
      BY <1>11, <2>3, <2>4, <3>1, NextAt DEF r, l
    <3> QED BY <1>1, <2>2, <3>2 DEF Follows
  <2>5. CASE r.ip = ins.arg /\ r.ip \in k + 1 .. Len(c.code) /\ r.stack = <<>>
    <3> DEFINE t == r.ip
    <3>1. CASE ~ Taken(st, ins)
      <4>1. mach'.pc = Len(l.insts) + 1 /\ ~ r.fresh
        BY <2>2, <3>1 DEF Turns
      <4>2. r.ip = k + 1
        BY <1>2, <1>11, <2>1, <3>1 DEF SparkMoves, Taken
      <4>3. At(c, T, L, k + 1, mach', virt')
        BY <1>11, <2>3, <4>1, <4>2, NextAt DEF r, l
      <4> QED BY <1>1, <2>2, <4>3 DEF Follows
    <3>2. CASE Taken(st, ins)
      <4>1. k \in DOMAIN c.code /\ c.code[k].op \in Jumps
        BY <2>1, CodeOf DEF Jumps, ins
      <4>2. t \in Targets(c)
        BY <2>5, <4>1 DEF Targets, ins
      <4>3. t \in 1 .. Len(c.code) /\ t \in 1 .. Len(c.code) + 1
        BY <1>1, <2>5
      <4>4. T[t - 1] = r /\ mach'.pc = LabelIndex(fn, t)
        BY <1>11, <2>2, <2>5, <3>2 DEF Turns
      <4>5. T[t - 1].ip = t
        BY <4>4
      <4> HIDE DEF t
      <4>6. Site(c, L, fn, t)
        BY <4>3, SiteOf
      <4>7. mach'.pc = Start(L, t)
        BY <4>2, <4>4, <4>6 DEF Site
      <4>8. Len(L[t - 1].vstack) \in Nat
        BY <4>6 DEF Site, IsLowerer, Within
      <4>9. Mirrors(r, L[t - 1].vstack, virt')
        BY <2>3, <2>5, <4>8, MirrorsAnywhere
      <4>10. At(c, T, L, t, mach', virt')
        BY <1>11, <2>3, <2>5, <4>3, <4>4, <4>5, <4>7, <4>9 DEF At
      <4> QED BY <2>2, <4>3, <4>10 DEF Follows
    <3> QED BY <3>1, <3>2
  <2> QED BY <1>11, <2>4, <2>5
<1>12. CASE r.status = "int" /\ r = Outcome(c, T) /\ SparkEnds(c, r, st, ins)
  <2>1. r.fresh
    BY <1>12 DEF Compared
  <2>2. Clean' /\ mach'.status # "running" /\ mach'.rax = r.value
    BY <1>2, <1>5, <1>6, <1>12, <2>1, EndStep
  <2> QED BY <1>12, <2>2 DEF Follows
<1> QED BY <1>7, <1>9, <1>10, <1>11, <1>12

\* The sorted list of intervals a new scan starts with may come later than the
\* first state.
LEMMA ScanInvNext == ScanInit' => ScanInv'
<1>1. ScanInit => ScanInv
  BY ScanInvInit
<1> QED BY <1>1, PTL

\* Every position that Spark executes, a Pop apart, emits one instruction.
Emits(c, L, k) == \E x : L[k].insts = Append(Labelled(c, L, k).insts, x)

\* It is so for every position that is reached.
LEMMA EmitsOne ==
  ASSUME NEW c, IsChunk(c), NEW T, IsSpark(c, T), NEW L, NEW f, NEW k \in 1 .. Len(c.code),
         Site(c, L, f, k), NEW m, NEW v, At(c, T, L, k, m, v), SparkGoes(c, T, k),
         c.code[k].op # "Pop"
  PROVE  Emits(c, L, k)
<1> DEFINE st == T[k - 1]
           r == T[k]
           lo == Labelled(c, L, k)
           l == L[k]
           ins == c.code[k]
           s == lo.vstack
<1>1. k - 1 \in 0 .. Len(c.code)
  BY CodeOf
<1>2. IsState(c, st)
  BY <1>1, SparkStates
<1>3. IsLowerer(lo) /\ IsIns(c, ins) /\ l = LowerOp(c, lo, ins) /\ Mirrors(st, s, v)
  BY DEF Site, At
<1>4. Len(s) \in Nat /\ Len(st.stack) \in Nat /\ Len(st.stack) <= Len(s)
  BY <1>2, <1>3 DEF IsLowerer, Within, IsState, IsStack, Mirrors
<1> HIDE DEF st, r, lo, l, ins
<1>5. CASE SparkEnds(c, r, st, ins) /\ r.status = "int"
  <2>1. ins.op \in {"Return", "Halt"} /\ 0 < Len(st.stack)
    BY <1>5 DEF SparkEnds
  <2>2. Needs(ins.op) <= Len(s)
    BY <1>4, <2>1, NeedsOf
  <2>3. \/ Does(l, lo, 1, "Return", s[Len(s)], 0)
        \/ Does(l, lo, 0, "Halt", 0, 0)
    BY <1>3, <2>1, <2>2, LowersQuiet
  <2> QED BY <2>3 DEF Does, Emits, l, lo
<1>6. CASE Needs(ins.op) <= Len(st.stack) /\ SparkLoads(c, r, st, ins)
  <2>1. Needs(ins.op) <= Len(s)
    BY <1>4, <1>6 DEF Needs
  <2>2. \/ Computes(l, lo, 0, "LoadConstImm", 0, 0, c.constants[ins.arg].i)
        \/ Computes(l, lo, 0, "LoadLocal", 0, 0, ins.arg)
        \/ Does(l, lo, 0, "StoreLocal", s[Len(s)], ins.arg)
    BY <1>3, <1>6, <2>1, LowersLoad, LowersQuiet DEF SparkLoads
  <2> QED BY <2>2 DEF Computes, Does, Emits, l, lo
<1>7. CASE Needs(ins.op) <= Len(st.stack) /\ SparkSums(c, r, st, ins)
  <2>1. Needs(ins.op) <= Len(lo.vstack)
    BY <1>4, <1>7 DEF Needs
  <2>2. ins.op \in Binary \cup {"Neg", "Not"}
    BY <1>7 DEF SparkSums
  <2>3. Computes(l, lo, Needs(ins.op), ins.op, s[Len(s) - Needs(ins.op) + 1],
                 IF ins.op \in Binary THEN s[Len(s)] ELSE 0, 0)
    BY <1>3, <2>1, <2>2, LowersSum
  <2> QED BY <2>3 DEF Computes, Emits, l, lo
<1>8. CASE Needs(ins.op) <= Len(st.stack) /\ SparkMoves(c, r, st, ins)
  <2>1. Needs(ins.op) <= Len(s)
    BY <1>4, <1>8 DEF Needs
  <2>2. ins.op \in {"Jump", "JumpIfFalse"}
    BY <1>8 DEF SparkMoves, ins
  <2>3. \/ Does(l, lo, 0, "Jump", 0, ins.arg)
        \/ Does(l, lo, 1, "BranchIfFalse", s[Len(s)], ins.arg)
    BY <1>3, <2>1, <2>2, LowersQuiet
  <2> QED BY <2>3 DEF Does, Emits, l, lo
<1> QED BY <1>5, <1>6, <1>7, <1>8 DEF SparkGoes, st, r, ins

\* The last position control has reached, Pops passed over: its label or its
\* instruction comes next, or the code ends.
Comes(c, T, L, k, m, v) ==
  /\ At(c, T, L, k, m, v)
  /\ \/ k = Len(c.code) + 1 /\ m.pc = Len(L[Len(c.code)].insts) + 1
     \/ k \in 1 .. Len(c.code) /\ k \in Targets(c) /\ m.pc = Start(L, k)
     \/ /\ k \in 1 .. Len(c.code) /\ m.pc = Len(Labelled(c, L, k).insts) + 1
        /\ c.code[k].op # "Pop"

\* While the code runs there is such a position.
LEMMA LastReached ==
  ASSUME NEW c, IsChunk(c), NEW T, IsSpark(c, T), Compared(Outcome(c, T)),
         NEW L, IsLowering(c, L), NEW f,
         f = Tier1Function(L[Len(c.code)].insts, L[Len(c.code)].vregs),
         NEW m, NEW v, m.status = "running", Follows(c, T, L, m, v)
  PROVE  \E k \in 1 .. Len(c.code) + 1 : Comes(c, T, L, k, m, v)
<1> DEFINE n == Len(c.code) + 1
           S == {k \in 1 .. n : At(c, T, L, k, m, v)}
           k == Max(S)
<1>1. Len(c.code) \in Nat /\ n \in Nat
  BY CodeOf
<1>2. S \in SUBSET (1 .. n) /\ S # {}
  BY DEF Follows
<1>3. k \in S /\ \A j \in S : j <= k
  BY <1>1, <1>2, MaxOf
<1>4. k \in 1 .. n /\ At(c, T, L, k, m, v)
  BY <1>3
<1>5. ~ At(c, T, L, k + 1, m, v)
  <2> SUFFICES ASSUME At(c, T, L, k + 1, m, v) PROVE FALSE
    OBVIOUS
  <2>1. k + 1 \in 1 .. n
    BY DEF At
  <2>2. k + 1 \in S
    BY <2>1
  <2>3. k + 1 <= k
    BY <1>3, <2>2
  <2> QED BY <1>4, <2>3
<1> HIDE DEF k, S
<1>6. CASE k = n
  <2>1. n - 1 = Len(c.code) /\ n \notin 1 .. Len(c.code)
    BY <1>1
  <2>2. m.pc = Start(L, k)
    BY <1>4, <1>6, <2>1 DEF At
  <2>3. m.pc = Len(L[Len(c.code)].insts) + 1
    BY <1>6, <2>1, <2>2 DEF Start
  <2> QED BY <1>4, <1>6, <2>3 DEF Comes
<1>7. CASE k # n
  <2>1. k \in 1 .. Len(c.code)
    BY <1>1, <1>4, <1>7
  <2>2. Site(c, L, f, k)
    BY <2>1, SiteOf
  <2>3. CASE k \in Targets(c) /\ m.pc = Start(L, k)
    BY <1>4, <2>1, <2>3 DEF Comes
  <2>4. CASE ~ (k \in Targets(c) /\ m.pc = Start(L, k))
    <3>1. m.pc = Len(Labelled(c, L, k).insts) + 1
      BY <1>4, <2>2, <2>4 DEF At, Site, Start
    <3>2. c.code[k].op # "Pop"
      BY <1>4, <1>5, <2>1, <2>2, <3>1, PopPasses
    <3> QED BY <1>4, <2>1, <3>1, <3>2 DEF Comes
  <2> QED BY <2>3, <2>4
<1> QED BY <1>6, <1>7

\* A step of the code keeps it where Spark is.
LEMMA StepFollows ==
  ASSUME JoltInv, Clean, Step, NEW c, IsChunk(c), NEW T, IsSpark(c, T), Compared(Outcome(c, T)),
         NEW L, IsLowering(c, L), fn = Tier1Function(L[Len(c.code)].insts, L[Len(c.code)].vregs),
         Follows(c, T, L, mach, virt)
  PROVE  Clean' /\ Follows(c, T, L, mach', virt')
<1>1. mach.status = "running" /\ ~ (mach.pc > Len(fn.insts))
  BY DEF Step, Ends
<1>2. PICK k \in 1 .. Len(c.code) + 1 : Comes(c, T, L, k, mach, virt)
  BY <1>1, LastReached
<1>3. At(c, T, L, k, mach, virt)
  BY <1>2 DEF Comes
<1>4. fn.insts = L[Len(c.code)].insts
  BY DEF Tier1Function
<1>5. Len(fn.insts) \in Nat
  BY InstructionsOf DEF JoltInv
<1>6. CASE k = Len(c.code) + 1 /\ mach.pc = Len(L[Len(c.code)].insts) + 1
  BY <1>1, <1>4, <1>5, <1>6
<1>7. CASE k \in 1 .. Len(c.code) /\ k \in Targets(c) /\ mach.pc = Start(L, k)
  <2>1. Site(c, L, fn, k)
    BY <1>7, SiteOf
  <2>2. Clean' /\ At(c, T, L, k, mach', virt')
    BY <1>3, <1>7, <2>1, LabelStep
  <2> QED BY <2>2 DEF Follows
<1>8. CASE /\ k \in 1 .. Len(c.code) /\ mach.pc = Len(Labelled(c, L, k).insts) + 1
           /\ c.code[k].op # "Pop"
  BY <1>3, <1>8, PositionRuns
<1> QED BY <1>2, <1>6, <1>7, <1>8 DEF Comes

\* What the code has in rax when it ends.
LEMMA EndFollows ==
  ASSUME NEW c, IsChunk(c), NEW T, IsSpark(c, T), Compared(Outcome(c, T)),
         NEW L, IsLowering(c, L), NEW f,
         f = Tier1Function(L[Len(c.code)].insts, L[Len(c.code)].vregs),
         NEW m, NEW v, Follows(c, T, L, m, v), Ends(f, m)
  PROVE  m.rax = Outcome(c, T).value
<1>1. CASE m.status # "running"
  BY <1>1 DEF Follows, At
<1>2. CASE m.status = "running"
  <2>1. PICK k \in 1 .. Len(c.code) + 1 : Comes(c, T, L, k, m, v)
    BY <1>2, LastReached
  <2>2. At(c, T, L, k, m, v) /\ m.pc > Len(f.insts)
    BY <1>2, <2>1 DEF Comes, Ends
  <2>3. Len(c.code) \in Nat
    BY CodeOf
  <2>4. CASE k = Len(c.code) + 1
    <3> DEFINE n == Len(c.code)
    <3>1. n \in 0 .. Len(c.code) /\ k - 1 = n
      BY <2>3, <2>4
    <3>2. T[n].status = "running"
      BY <2>2, <3>1 DEF At
    <3>3. /\ Len(T[n].stack) > 0 /\ T[n].fresh
          /\ Outcome(c, T).value = T[n].stack[Len(T[n].stack)]
      BY <3>1, <3>2, SparkCompared
    <3> HIDE DEF n
    <3>4. T[n].stack # <<>>
      BY <3>3
    <3> QED BY <2>2, <3>1, <3>3, <3>4 DEF At
  <2>5. CASE k \in 1 .. Len(c.code)
    <3> DEFINE lo == Labelled(c, L, k)
    <3>1. Site(c, L, f, k)
      BY <2>5, SiteOf
    <3>2. /\ IsFunction(f) /\ IsLowerer(lo) /\ IsLowerer(L[k - 1])
          /\ Begins(lo, f) /\ Begins(L[k], f)
      BY <3>1 DEF Site
    <3>3. Len(f.insts) \in Nat
      BY <3>2, InstructionsOf
    <3>4. CASE k \in Targets(c) /\ m.pc = Start(L, k)
      <4>1. lo.insts = Append(L[k - 1].insts, Mark(k))
        BY <3>1, <3>4 DEF Site
      <4>2. Len(lo.insts) = m.pc
        BY <3>2, <3>4, <4>1, EmittedAt DEF Start
      <4>3. Len(lo.insts) <= Len(f.insts)
        BY <3>2 DEF Begins
      <4> QED BY <2>2, <3>3, <4>2, <4>3
    <3>5. CASE m.pc = Len(lo.insts) + 1 /\ c.code[k].op # "Pop"
      <4>1. SparkGoes(c, T, k)
        BY <2>2, <2>5, SparkGoesOn DEF At
      <4>2a. Emits(c, L, k)
        BY <2>2, <2>5, <3>1, <3>5, <4>1, EmitsOne
      <4>2. PICK x : L[k].insts = Append(lo.insts, x)
        BY <4>2a DEF Emits
      <4>3. Len(L[k].insts) = Len(lo.insts) + 1
        BY <3>2, <4>2, EmittedAt
      <4>4. Len(L[k].insts) <= Len(f.insts)
        BY <3>2 DEF Begins
      <4> QED BY <2>2, <3>3, <3>5, <4>3, <4>4
    <3>6. k # Len(c.code) + 1
      BY <2>3, <2>5
    <3> QED BY <2>1, <3>4, <3>5, <3>6 DEF Comes
  <2> QED BY <2>3, <2>4, <2>5
<1> QED BY <1>1, <1>2

\* Spark's pass and the lowerer's over the same chunk.
Shadows(c, T, L) ==
  /\ IsSpark(c, T) /\ SparkRun(c) = Outcome(c, T)
  /\ IsLowering(c, L)
  /\ lower_chunk_to_tier1(c) = Tier1Function(L[Len(c.code)].insts, L[Len(c.code)].vregs)

\* The inductive invariant: the code is that of the chunk, JoltInv holds of it, and
\* while Spark's result is one to compare the run met no deviation and follows
\* Spark.
ChunkInv ==
  /\ IsChunk(chunk) /\ spark = SparkRun(chunk)
  /\ stage \in {"lower", "scan", "run", "answered", "done"}
  /\ "Jolt" \in DOMAIN answer
  /\ stage = "lower" =>
       Forward(lower_chunk_to_tier1(chunk)) \/ Enclosed(lower_chunk_to_tier1(chunk))
  /\ stage # "lower" => fn = lower_chunk_to_tier1(chunk) /\ JoltInv
  /\ stage \in {"lower", "scan"} => deviations = {}
  /\ stage = "run" /\ Compared(spark) =>
       /\ Clean
       /\ \E T, L : Shadows(chunk, T, L) /\ Follows(chunk, T, L, mach, virt)
  /\ stage = "answered" /\ Compared(spark) => answer.Jolt = spark.value

\* The prologue is where Spark begins.
LEMMA StartFollows ==
  ASSUME NEW c, IsChunk(c), NEW T, NEW L, Shadows(c, T, L),
         NEW m, m.status = "running", m.pc = 1,
         NEW v, v.locals = [s \in 0 .. c.maxLocals - 1 |-> 0]
  PROVE  Follows(c, T, L, m, v)
<1> DEFINE k == 1
<1>1. T[0] = SparkStart(c) /\ L[0] = LowererStart
  BY DEF Shadows, IsSpark, IsLowering, IsWalk
<1>2. /\ T[0].status = "running" /\ T[0].ip = 1 /\ T[0].stack = <<>> /\ ~ T[0].fresh
      /\ T[0].locals = [s \in 0 .. c.maxLocals - 1 |-> <<>>]
      /\ L[0].insts = <<>> /\ L[0].vstack = <<>>
  BY <1>1 DEF SparkStart, LowererStart
<1>3. k \in 1 .. Len(c.code) + 1 /\ k - 1 = 0
  BY CodeOf
<1>4. m.pc = Start(L, k)
  BY <1>2, <1>3 DEF Start
<1>5. Mirrors(T[0], L[0].vstack, v)
  BY <1>2 DEF Mirrors
<1>6. At(c, T, L, k, m, v)
  BY <1>2, <1>3, <1>4, <1>5 DEF At
<1> QED BY <1>3, <1>6 DEF Follows

\* Every chunk has both passes.
LEMMA ShadowsExist ==
  ASSUME NEW c, IsChunk(c)
  PROVE  \E T, L : Shadows(c, T, L)
<1>1. Len(c.code) \in Nat
  BY CodeOf
<1>2. PICK T : /\ IsSpark(c, T)
               /\ SparkRun(c) = IF T[Len(c.code)].status = "running"
                                THEN Ended(T[Len(c.code)]) ELSE T[Len(c.code)]
  BY <1>1, SparkRunIs
<1>3. PICK L : /\ IsLowering(c, L)
               /\ lower_chunk_to_tier1(c) =
                    Tier1Function(L[Len(c.code)].insts, L[Len(c.code)].vregs)
  BY <1>1, LoweringIs
<1> QED BY <1>2, <1>3 DEF Shadows, Outcome

\* The code of a chunk is a function, as JoltRun wants it.
LEMMA LoweredIs ==
  ASSUME NEW c, IsChunk(c)
  PROVE  IsFunction(lower_chunk_to_tier1(c))
<1>1. PICK T, L : Shadows(c, T, L)
  BY ShadowsExist
<1> DEFINE f == lower_chunk_to_tier1(c)
<1>2. IsLowering(c, L) /\ f = Tier1Function(L[Len(c.code)].insts, L[Len(c.code)].vregs)
  BY <1>1 DEF Shadows
<1> HIDE DEF f
<1>3. IsFunction(f)
  BY <1>2, FunctionOf
<1> QED BY <1>3 DEF f

\* lower_chunk_to_tier1 keeps the invariant.
LEMMA LowerKeeps ==
  ASSUME ChunkInv, Lower
  PROVE  ChunkInv'
<1>1. /\ stage = "lower" /\ stage' = "scan" /\ fn' = lower_chunk_to_tier1(chunk)
      /\ UNCHANGED <<chunk, spark, answer, deviations>>
  BY DEF Lower, chunkVars
<1>2. IsFunction(fn')
  BY <1>1, LoweredIs DEF ChunkInv
<1>3. AreLives(fn', Intervals(fn'))
  BY <1>2, IntervalsLive
<1>4. /\ intervals' = Intervals(fn') /\ next' = 1 /\ active' = {} /\ used' = {}
      /\ reg' = [i \in DOMAIN Intervals(fn') |-> NoReg]
      /\ slot' = [i \in DOMAIN Intervals(fn') |-> NoSlot] /\ slots' = 0
  BY DEF Lower, Scan
<1>5. Intervals(fn') \in Seq(LiveInterval) /\ Sorted(Intervals(fn'))
  BY <1>3 DEF AreLives
<1>6. DOMAIN Intervals(fn') = 1 .. Len(Intervals(fn'))
  BY <1>5
<1>7. ScanInit'
  BY <1>4, <1>5, <1>6 DEF ScanInit, BeginScan
<1>8. ScanInv'
  BY <1>7, ScanInvNext
<1>9. Forward(fn') \/ Enclosed(fn')
  BY <1>1 DEF ChunkInv
<1>10. JoltInv'
  BY <1>1, <1>2, <1>4, <1>8, <1>9 DEF JoltInv
<1> QED BY <1>1, <1>10 DEF ChunkInv

\* The scan, the prologue and every instruction keep it.
LEMMA CompileKeeps ==
  ASSUME ChunkInv, Compile
  PROVE  ChunkInv'
<1>1. UNCHANGED <<chunk, spark, answer>>
  BY DEF Compile, chunkVars
<1>2. IsChunk(chunk) /\ spark = SparkRun(chunk)
  BY DEF ChunkInv
<1>3. CASE Place
  <2>1. stage = "scan" /\ UNCHANGED <<stage, fn, deviations>>
    BY <1>3 DEF Place
  <2>2. JoltInv'
    BY <1>3, <2>1, JoltInvStep DEF ChunkInv, JoltNext
  <2> QED BY <1>1, <2>1, <2>2 DEF ChunkInv
<1>4. CASE Reject
  <2>1. stage = "scan" /\ stage' = "done" /\ UNCHANGED fn
    BY <1>4 DEF Reject, Scanned, codeVars
  <2>2. JoltInv'
    BY <1>4, <2>1, JoltInvStep DEF ChunkInv, JoltNext
  <2> QED BY <1>1, <2>1, <2>2 DEF ChunkInv
<1>5. CASE Enter(chunk.maxLocals)
  <2>1. stage = "scan" /\ stage' = "run" /\ UNCHANGED <<fn, deviations>>
    BY <1>5 DEF Enter, Scanned, codeVars
  <2>2. chunk.maxLocals \in Nat
    BY <1>2 DEF IsChunk
  <2>3. JoltInv'
    BY <1>5, <2>1, <2>2, JoltInvStep DEF ChunkInv, JoltNext
  <2>4. Clean'
    BY <2>1 DEF ChunkInv, Clean
  <2>5. PICK T, L : Shadows(chunk, T, L)
    BY <1>2, ShadowsExist
  <2>6. /\ mach'.status = "running" /\ mach'.pc = 1
        /\ virt'.locals = [s \in 0 .. chunk.maxLocals - 1 |-> 0]
    BY <1>5 DEF Enter, Prologue
  <2>7. Follows(chunk, T, L, mach', virt')
    BY <1>2, <2>5, <2>6, StartFollows
  <2>8. \E U, M : Shadows(chunk, U, M) /\ Follows(chunk, U, M, mach', virt')
    BY <2>5, <2>7
  <2> QED BY <1>1, <2>1, <2>3, <2>4, <2>8 DEF ChunkInv
<1>6. CASE Step
  <2>1. stage = "run" /\ UNCHANGED <<stage, fn>>
    BY <1>6 DEF Step, codeVars
  <2>2. JoltInv /\ fn = lower_chunk_to_tier1(chunk)
    BY <2>1 DEF ChunkInv
  <2>3. JoltInv'
    BY <1>6, <2>2, JoltInvStep DEF JoltNext
  <2>4. Compared(spark) =>
          Clean' /\ \E U, M : Shadows(chunk, U, M) /\ Follows(chunk, U, M, mach', virt')
    <3> SUFFICES ASSUME Compared(spark)
                 PROVE  Clean' /\ \E U, M : Shadows(chunk, U, M) /\ Follows(chunk, U, M, mach', virt')
      OBVIOUS
    <3>1. PICK T, L : Shadows(chunk, T, L) /\ Follows(chunk, T, L, mach, virt)
      BY <2>1 DEF ChunkInv
    <3>2. Clean
      BY <2>1 DEF ChunkInv
    <3>3. /\ IsSpark(chunk, T) /\ Compared(Outcome(chunk, T)) /\ IsLowering(chunk, L)
          /\ fn = Tier1Function(L[Len(chunk.code)].insts, L[Len(chunk.code)].vregs)
      BY <1>2, <2>2, <3>1 DEF Shadows
    <3>4. Clean' /\ Follows(chunk, T, L, mach', virt')
      BY <1>2, <1>6, <2>2, <3>1, <3>2, <3>3, StepFollows
    <3> QED BY <3>1, <3>4
  <2> QED BY <1>1, <2>1, <2>3, <2>4 DEF ChunkInv
<1> QED BY <1>3, <1>4, <1>5, <1>6 DEF Compile

\* The end of the code keeps it.
LEMMA AnswerKeeps ==
  ASSUME ChunkInv, Answer("Jolt")
  PROVE  ChunkInv'
<1>1. /\ stage = "run" /\ stage' = "answered" /\ Ends(fn, mach)
      /\ answer' = [answer EXCEPT !["Jolt"] = mach.rax]
      /\ UNCHANGED <<chunk, spark, fn>> /\ UNCHANGED scanVars
  BY DEF Answer, chunkVars, codeVars
<1>2. JoltInv /\ fn = lower_chunk_to_tier1(chunk) /\ IsChunk(chunk) /\ spark = SparkRun(chunk)
  BY <1>1 DEF ChunkInv
<1>3. ScanInv'
  BY <1>1, <1>2, ScanInvStep DEF JoltInv
<1>4. JoltInv'
  BY <1>1, <1>2, <1>3 DEF JoltInv, scanVars
<1>5. answer'.Jolt = mach.rax /\ "Jolt" \in DOMAIN answer'
  BY <1>1 DEF ChunkInv
<1>6. Compared(spark) => answer'.Jolt = spark.value
  <2> SUFFICES ASSUME Compared(spark) PROVE mach.rax = spark.value
    BY <1>5
  <2>1. PICK T, L : Shadows(chunk, T, L) /\ Follows(chunk, T, L, mach, virt)
    BY <1>1 DEF ChunkInv
  <2>2. /\ IsSpark(chunk, T) /\ Compared(Outcome(chunk, T)) /\ IsLowering(chunk, L)
        /\ fn = Tier1Function(L[Len(chunk.code)].insts, L[Len(chunk.code)].vregs)
        /\ spark = Outcome(chunk, T)
    BY <1>2, <2>1 DEF Shadows
  <2> QED BY <1>1, <1>2, <2>1, <2>2, EndFollows
<1> QED BY <1>1, <1>4, <1>5, <1>6 DEF ChunkInv

\* For every chunk whose operands are in range and whose function is Forward or
\* Enclosed: what lower_chunk_to_tier1 and Tier1Compiler::compile make of it
\* returns the integer the interpreter returns, unless that jumps with operands
\* on its stack or ends right after a pop.
THEOREM JoltAgreesWithSparkSafe == ChunkSpec => []JoltAgreesWithSpark
<1>1. ChunkInit => ChunkInv
  BY DEF ChunkInit, ChunkInv, Idle
<1>2. ChunkInv /\ [ChunkNext]_<<joltVars, chunkVars, answer>> => ChunkInv'
  <2> SUFFICES ASSUME ChunkInv, [ChunkNext]_<<joltVars, chunkVars, answer>>
               PROVE  ChunkInv'
    OBVIOUS
  <2>1. CASE Lower
    BY <2>1, LowerKeeps
  <2>2. CASE Compile
    BY <2>2, CompileKeeps
  <2>3. CASE Answer("Jolt")
    BY <2>3, AnswerKeeps
  <2>4. CASE UNCHANGED <<joltVars, chunkVars, answer>>
    <3>1. /\ UNCHANGED <<chunk, spark, answer, stage, fn, mach, virt, deviations>>
          /\ UNCHANGED joltVars
      BY <2>4 DEF joltVars, chunkVars, codeVars, runVars
    <3>2. stage # "lower" => JoltInv'
      BY <3>1, JoltInvStep DEF ChunkInv
    <3>3. Clean' = Clean
      BY <3>1 DEF Clean
    <3> QED BY <3>1, <3>2, <3>3 DEF ChunkInv
  <2> QED BY <2>1, <2>2, <2>3, <2>4 DEF ChunkNext
<1>3. ChunkInv => JoltAgreesWithSpark
  BY DEF ChunkInv, JoltAgreesWithSpark, Compared
<1> QED BY <1>1, <1>2, <1>3, PTL DEF ChunkSpec

=============================================================================
