---------------------------- MODULE LinearScan ------------------------------
(***************************************************************************)
(* The register allocator of Jolt: the loop of linear_scan in              *)
(* src/src/tier1/tier1.cpp over the live intervals of a function.          *)
(*                                                                         *)
(* One action places one interval: it expires the intervals that ended     *)
(* before it, and gives it a register, the register of the active interval *)
(* that ends last, or a stack slot.  A register is its index in kFreeRegs; *)
(* reg and slot hold what vreg_to_phys and vreg_to_stack hold for the      *)
(* interval's virtual register, with NoReg and NoSlot for -1.              *)
(***************************************************************************)
EXTENDS Integers, Sequences, FiniteSets

CONSTANT NumRegs    \* kNumFreeRegs

ASSUME NumRegsAssumption == NumRegs \in Nat

VARIABLES
  intervals,  \* the live intervals, by start: [vreg, start, end]
  next,       \* the index of the interval that is placed next
  active,     \* the indices in active
  used,       \* the registers marked in the array used
  reg,        \* assigned_reg of each interval
  slot,       \* the stack slot of each interval
  slots       \* max_stack_slots

scanVars == <<intervals, next, active, used, reg, slot, slots>>

Registers == 0 .. NumRegs - 1
NoReg == -1
NoSlot == -1

LiveInterval == [vreg : Nat, start : Nat, end : Nat]

\* Every instruction defines at most one virtual register, so no two starts
\* are equal; an interval ends at its start or later.
Sorted(s) ==
  /\ \A i \in DOMAIN s : s[i].start <= s[i].end
  /\ \A i, j \in DOMAIN s : i < j => s[i].start < s[j].start

BeginScan(s) ==
  /\ intervals = s
  /\ next = 1
  /\ active = {}
  /\ used = {}
  /\ reg = [i \in 1 .. Len(s) |-> NoReg]
  /\ slot = [i \in 1 .. Len(s) |-> NoSlot]
  /\ slots = 0

ScanInit == \E s \in Seq(LiveInterval) : Sorted(s) /\ BeginScan(s)

-----------------------------------------------------------------------------

Scanning == next <= Len(intervals)

\* Fault: an interval that ends where the next one starts is expired too.
EndedByStart == {k \in active : intervals[k].end <= intervals[next].start}

\* expire_old: what ended before the interval to place starts.
Expired == {k \in active : intervals[k].end < intervals[next].start}

Live == active \ Expired

\* Fault: an expired interval keeps its register marked.
NeverFreed == used

InUse == used \ {reg[k] : k \in Expired}
Free == Registers \ InUse
Room == Cardinality(Live) < NumRegs

\* max_element: of the live intervals that end last, the one placed first.
Farthest(k) ==
  /\ k \in Live
  /\ \A j \in Live : intervals[j].end <= intervals[k].end
  /\ \A j \in Live : intervals[j].end = intervals[k].end => k <= j

\* The interval gets the free register of lowest index.
TakeRegister ==
  /\ Scanning
  /\ Room
  /\ \E r \in Free :
       /\ \A q \in Free : r <= q
       /\ reg' = [reg EXCEPT ![next] = r]
       /\ used' = InUse \cup {r}
  /\ active' = Live \cup {next}
  /\ next' = next + 1
  /\ UNCHANGED <<intervals, slot, slots>>

\* The interval takes the register of a live one that ends after it, which
\* moves to the stack for all its life.
StealRegister ==
  /\ Scanning
  /\ ~Room
  /\ \E k \in Live :
       /\ Farthest(k)
       /\ intervals[k].end > intervals[next].end
       /\ reg' = [reg EXCEPT ![next] = reg[k], ![k] = NoReg]
       /\ slot' = [slot EXCEPT ![k] = slots]
       /\ active' = (Live \ {k}) \cup {next}
  /\ used' = InUse
  /\ slots' = slots + 1
  /\ next' = next + 1
  /\ UNCHANGED intervals

\* The interval lives on the stack.
Spill ==
  /\ Scanning
  /\ \/ Room /\ Free = {}
     \/ ~Room /\ \A k \in Live : intervals[k].end <= intervals[next].end
  /\ slot' = [slot EXCEPT ![next] = slots]
  /\ slots' = slots + 1
  /\ active' = Live
  /\ used' = InUse
  /\ next' = next + 1
  /\ UNCHANGED <<intervals, reg>>

PlaceInterval == TakeRegister \/ StealRegister \/ Spill

ScanSpec == ScanInit /\ [][PlaceInterval]_scanVars

-----------------------------------------------------------------------------

Placed == 1 .. next - 1

Overlap(i, j) ==
  /\ intervals[i].start <= intervals[j].end
  /\ intervals[j].start <= intervals[i].end

ScanTypeOK ==
  /\ intervals \in Seq(LiveInterval)
  /\ next \in 1 .. Len(intervals) + 1
  /\ active \subseteq Placed
  /\ used \subseteq Registers
  /\ reg \in [1 .. Len(intervals) -> Registers \cup {NoReg}]
  /\ slot \in [1 .. Len(intervals) -> Nat \cup {NoSlot}]
  /\ slots \in Nat

\* Two virtual registers that are live at the same instruction never share a
\* machine register or a stack slot, whatever was stolen in between, and every
\* placed interval has exactly one of the two (linear_scan, tier1.cpp:101-134).
HomesDisjoint ==
  /\ \A i \in Placed : (reg[i] = NoReg) <=> (slot[i] # NoSlot)
  /\ \A i, j \in Placed : i # j =>
       /\ reg[i] # NoReg /\ reg[i] = reg[j] => ~Overlap(i, j)
       /\ slot[i] # NoSlot => slot[i] # slot[j]

\* "Shouldn't happen (active.size() < kNumFreeRegs guarantees a free slot
\* exists)", tier1.cpp:114: the list of active intervals and the array used
\* agree, also after a register was stolen, so room means a free register.
RoomMeansFree == Scanning /\ Room => Free # {}

=============================================================================
