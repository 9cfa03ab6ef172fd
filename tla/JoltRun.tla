------------------------------- MODULE JoltRun -------------------------------
(***************************************************************************)
(* Tier1Compiler::compile of src/src/tier1/tier1.cpp on one Tier1Function: *)
(* linear_scan places its virtual registers, compile emits its code, and   *)
(* the code runs, beside the same run over virtual registers.              *)
(***************************************************************************)
EXTENDS LinearScan, Jolt

VARIABLES
  stage,       \* "scan", "run", "done"; those of the other jobs are Pipeline's
  fn,          \* the Tier1Function
  mach,        \* the machine that runs the code
  virt,        \* the same run over virtual registers
  deviations   \* history: the known deviations met so far

codeVars == <<fn, scanVars>>
runVars == <<mach, virt>>
joltVars == <<stage, codeVars, runVars, deviations>>

Nothing == [status |-> "none"]

Ops == Silent \cup AluOps \cup HeapOps \cup {"LoadConstImm", "LoadConst", "LoadLocal", "LoadVar"}
Instructions == [op : Ops, dst : Nat, src1 : Nat, src2 : Nat, payload : Int]

WellFormed(f) ==
  \A k \in DOMAIN f.insts :
    LET inst == f.insts[k]
    IN /\ {inst.dst, inst.src1, inst.src2} \subseteq 0 .. f.vregs
       /\ inst.op \in Silent => inst.dst = 0

Leads(f, k, t) ==
  /\ f.insts[k].op \in Transfers
  /\ f.insts[t].op = "Label" /\ f.insts[t].payload = f.insts[k].payload

\* linear_scan takes the order of the instructions for the order they run in
\* (tier1.cpp:19): so they do while no jump leads back, or while none enters
\* the life of a virtual register from outside.
Forward(f) == \A k \in DOMAIN f.insts : \A t \in 1 .. k : ~Leads(f, k, t)

Enclosed(f) ==
  /\ \A k \in DOMAIN f.insts : \A v \in {f.insts[k].src1, f.insts[k].src2} \ {0} :
       \E j \in 1 .. k - 1 : f.insts[j].dst = v
  /\ \A k, t \in DOMAIN f.insts : Leads(f, k, t) =>
       \A i \in DOMAIN Intervals(f) :
         LET life == Intervals(f)[i].start + 1 .. Intervals(f)[i].end
         IN t \in life => k \in life

JoltInit ==
  /\ \E insts \in Seq(Instructions), vregs \in Nat : fn = Tier1Function(insts, vregs)
  /\ WellFormed(fn)
  /\ Forward(fn) \/ Enclosed(fn)
  /\ BeginScan(Intervals(fn))
  /\ stage = "scan" /\ deviations = {}
  /\ mach = Nothing /\ virt = Nothing

-----------------------------------------------------------------------------

Place ==
  /\ stage = "scan"
  /\ PlaceInterval
  /\ UNCHANGED <<stage, fn, runVars, deviations>>

\* The PhysMap: where each virtual register lives.
Home ==
  [v \in 1 .. fn.vregs |->
     LET at == {i \in DOMAIN intervals : intervals[i].vreg = v}
     IN IF at = {} THEN [reg |-> NoReg, slot |-> NoSlot]
        ELSE [reg |-> reg[Min(at)], slot |-> slot[Min(at)]]]

Scanned == stage = "scan" /\ ~Scanning

\* compile fails: the caller keeps what it has.
Reject ==
  /\ Scanned
  /\ ~Bound(fn)
  /\ stage' = "done"
  /\ UNCHANGED <<codeVars, runVars, deviations>>

Enter(maxLocals) ==
  /\ Scanned
  /\ Bound(fn)
  /\ mach' = Prologue(NumRegs, slots, maxLocals)
  /\ virt' = [vregs |-> [v \in 1 .. fn.vregs |-> Junk], defined |-> {},
              locals |-> [s \in 0 .. maxLocals - 1 |-> 0], pc |-> 1]
  /\ stage' = "run"
  /\ UNCHANGED <<codeVars, deviations>>

\* The machine code of one Tier1Inst.
Step ==
  /\ stage = "run"
  /\ ~Ends(fn, mach)
  /\ mach' = Execute(fn, Home, mach)
  /\ virt' = ExecuteVirtual(fn, virt)
  /\ deviations' = deviations \cup
       (IF Clobbers(fn, Home, mach) THEN {"clobbered"} ELSE {}) \cup
       (IF ReadsUndefined(fn, virt) THEN {"undefined"} ELSE {})
  /\ UNCHANGED <<stage, codeVars>>

JoltNext == Place \/ Reject \/ (\E maxLocals \in Nat : Enter(maxLocals)) \/ Step

JoltSpec == JoltInit /\ [][JoltNext]_joltVars

-----------------------------------------------------------------------------

\* At every instruction, the register or frame cell linear_scan gave to a
\* virtual register holds its value from its definition to its last use: no
\* other value was put there in between, no steal lost it (tier1.cpp:19-137
\* with load_to and store_from), the calls of Pow apart.
HomesHoldValues ==
  stage = "run" /\ deviations \cap {"clobbered", "undefined"} = {} =>
    \A i \in DOMAIN intervals :
      LET v == intervals[i].vreg
      IN /\ v \in virt.defined
         /\ intervals[i].start < mach.pc /\ mach.pc <= intervals[i].end
         => LoadTo(mach, Home, v) = virt.vregs[v]

=============================================================================
