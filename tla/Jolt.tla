-------------------------------- MODULE Jolt --------------------------------
(***************************************************************************)
(* Jolt, the baseline compiler of src/src/tier1/tier1.cpp: ChunkLowerer,   *)
(* which turns a chunk into Tier1Insts over virtual registers, the live    *)
(* intervals linear_scan builds from them, and what the machine code that  *)
(* Tier1Compiler::compile emits for each instruction does to registers,    *)
(* stack frame and locals.                                                 *)
(*                                                                         *)
(* A label is the index of the instruction it stands before.  Operators    *)
(* whose comment begins with "Fault" are not part of the model: each is    *)
(* the operator after it with a plausible bug.                             *)
(***************************************************************************)
EXTENDS Bytecode, FiniteSets, FiniteSetsExt

CONSTANTS
  DoubleBits,   \* 53, the significant bits of a double
  Junk,         \* what a register or a stack cell nobody wrote holds
  CallerSaved   \* the indices in kFreeRegs of rsi, rdi and r8 .. r11

Tier1Inst(op, dst, src1, src2, payload) ==
  [op |-> op, dst |-> dst, src1 |-> src1, src2 |-> src2, payload |-> payload]

\* A Tier1Function: its instructions and how many virtual registers it has.
Tier1Function(insts, vregs) == [insts |-> insts, vregs |-> vregs]

-----------------------------------------------------------------------------
\* ChunkLowerer: the function so far, the virtual stack, and the virtual
\* registers the current instruction has popped, deepest first.

Emit(lo, op, dst, src1, src2, payload) ==
  [lo EXCEPT !.insts = Append(@, Tier1Inst(op, dst, src1, src2, payload))]

Alloc(lo) == [lo EXCEPT !.vregs = @ + 1]
Push(lo, v) == [lo EXCEPT !.vstack = Append(@, v)]

\* An instruction with a new virtual register, which is pushed.
Define(lo, op, src1, src2, payload) ==
  LET d == lo.vregs + 1
  IN Push(Emit(Alloc(lo), op, d, src1, src2, payload), d)

\* pop_vreg: an empty virtual stack yields a register loaded with 0.
Popped(lo) ==
  IF lo.vstack # <<>>
  THEN [lo EXCEPT !.vstack = Front(@), !.popped = <<Last(lo.vstack)>> \o @]
  ELSE LET z == lo.vregs + 1
       IN [Emit(Alloc(lo), "LoadConstImm", z, 0, 0, 0)
             EXCEPT !.popped = <<z>> \o @]

Pops(lo, n) == Sweep(LAMBDA l, k : Popped(l), [lo EXCEPT !.popped = <<>>], n)

\* peek_vreg
Peeked(lo) == LET l == Pops(lo, 1) IN Push(l, l.popped[1])

LowerLoad(chunk, lo, ins) ==
  CASE ins.op = "LoadConst" ->
         LET c == chunk.constants[ins.arg]
         IN IF c.type = "NumberInt" THEN Define(lo, "LoadConstImm", 0, 0, c.i)
            ELSE Define(lo, "LoadConst", 0, 0, ins.arg)
    [] ins.op \in {"LoadLocal", "LoadVar"} -> Define(lo, ins.op, 0, 0, ins.arg)
    [] ins.op \in {"StoreLocal", "StoreVar"} ->
         LET l == Peeked(lo) IN Emit(l, ins.op, 0, l.popped[1], 0, ins.arg)
    [] ins.op = "Pop" ->
         [lo EXCEPT !.vstack = IF @ = <<>> THEN @ ELSE Front(@)]

\* Fault: emit_binop takes the operands in the order they are popped.
SwappedArithmetic(lo, ins) ==
  LET l == Pops(lo, 2) IN Define(l, ins.op, l.popped[2], l.popped[1], 0)

LowerArithmetic(lo, ins) ==
  IF ins.op \in {"Neg", "Not"}
  THEN LET l == Pops(lo, 1) IN Define(l, ins.op, l.popped[1], 0, 0)
  ELSE LET l == Pops(lo, 2) IN Define(l, ins.op, l.popped[1], l.popped[2], 0)

LowerJump(lo, ins) ==
  CASE ins.op = "Jump" -> Emit(lo, "Jump", 0, 0, 0, ins.arg)
    [] ins.op = "JumpIfFalse" ->
         LET l == Pops(lo, 1) IN Emit(l, "BranchIfFalse", 0, l.popped[1], 0, ins.arg)
    [] ins.op \in {"Break", "Continue", "Halt"} -> Emit(lo, "Halt", 0, 0, 0, 0)
    [] ins.op = "Return" ->
         LET l == Pops(lo, 1) IN Emit(l, "Return", 0, l.popped[1], 0, 0)
    [] ins.op \in {"TryPush", "TryPop", "Import"} -> lo

\* ForPrep defines the length as a copy of the iterable; ForIter's increment
\* is emitted with the 1 it adds, whose register is allocated after it.
LowerLoop(lo, ins) ==
  IF ins.op = "ForPrep"
  THEN LET l == Peeked(lo)
       IN Define(Define(l, "Mov", l.popped[1], 0, 0), "LoadConstImm", 0, 0, 0)
  ELSE LET taken == Pops(lo, 2)
           len == taken.popped[1]
           idx == taken.popped[2]
           l == Alloc(Alloc(Alloc(taken)))
           cmp == taken.vregs + 1
           inc == taken.vregs + 2
           one == taken.vregs + 3
           exit == Emit(Emit(l, "Gte", cmp, idx, len, 0),
                        "BranchIfTrue", 0, cmp, 0, ins.arg)
           step == Emit(Emit(exit, "LoadConstImm", one, 0, 0, 1),
                        "Add", inc, idx, one, 0)
       IN Push(Push(Push(Push(step, idx), inc), len), inc)

\* One element of a list, and n of them.
Appended(lo, list) ==
  LET l == Pops(lo, 1) IN Emit(l, "ListAppend", 0, list, l.popped[1], 0)

Filled(lo, list, n) == Sweep(LAMBDA l, k : Appended(l, list), lo, n)

\* Lists, fields and calls; the arguments of a call are popped and dropped.
LowerHeap(lo, ins) ==
  CASE ins.op = "BuildList" ->
         LET list == lo.vregs + 1
             l == Emit(Alloc(lo), "AllocList", list, 0, 0, ins.arg)
         IN Push(Filled(l, list, ins.arg), list)
    [] ins.op = "IndexGet" ->
         LET l == Pops(lo, 2) IN Define(l, "ListGet", l.popped[1], l.popped[2], 0)
    [] ins.op = "IndexSet" ->
         LET l == Pops(lo, 3)
         IN Define(Emit(l, "ListSet", 0, l.popped[1], l.popped[3], 0),
                   "LoadConstImm", 0, 0, 1)
    [] ins.op = "Call" ->
         LET l == Pops(lo, ins.arg + 1) IN Define(l, "Call", l.popped[1], 0, ins.arg)
    [] ins.op = "PropertyAccess" ->
         LET l == Pops(lo, 1) IN Define(l, "GetField", l.popped[1], 0, ins.arg)
    [] ins.op = "PropertySet" ->
         LET l == Pops(lo, 2)
         IN Push(Emit(l, "SetField", 0, l.popped[1], l.popped[2], ins.arg), l.popped[2])

LowerOp(chunk, lo, ins) ==
  CASE ins.op \in {"LoadConst", "LoadLocal", "LoadVar", "StoreLocal", "StoreVar", "Pop"} ->
         LowerLoad(chunk, lo, ins)
    [] ins.op \in Binary \cup {"Div", "Pow", "Neg", "Not"} -> LowerArithmetic(lo, ins)
    [] ins.op \in {"ForPrep", "ForIter"} -> LowerLoop(lo, ins)
    [] ins.op \in {"BuildList", "IndexGet", "IndexSet", "Call",
                   "PropertyAccess", "PropertySet"} -> LowerHeap(lo, ins)
    [] OTHER -> LowerJump(lo, ins)

\* run: a label is emitted when the walk reaches its target, so one at the
\* very end of the code never is.
LowerAt(chunk, lo, k) ==
  LowerOp(chunk, IF k \in Targets(chunk) THEN Emit(lo, "Label", 0, 0, 0, k) ELSE lo,
          chunk.code[k])

LowererStart == [insts |-> <<>>, vregs |-> 0, vstack |-> <<>>, popped |-> <<>>]

lower_chunk_to_tier1(chunk) ==
  LET function(lo) == Tier1Function(lo.insts, lo.vregs)
  IN function(Sweep(LAMBDA lo, k : LowerAt(chunk, lo, k), LowererStart, Len(chunk.code)))

-----------------------------------------------------------------------------

\* A jump to a label that is never bound fails in asmjit.
Transfers == {"Jump", "BranchIfFalse", "BranchIfTrue"}
Bound(fn) ==
  \A j \in DOMAIN fn.insts : fn.insts[j].op \in Transfers =>
     \E k \in DOMAIN fn.insts :
       fn.insts[k].op = "Label" /\ fn.insts[k].payload = fn.insts[j].payload

\* Fault: the last use of a second operand is not counted.
ShortMentions(inst) == {inst.dst, inst.src1} \ {0}

Mentions(inst) == {inst.dst, inst.src1, inst.src2} \ {0}

\* Where a virtual register is defined first, and mentioned last.
Births(fn) ==
  {k \in DOMAIN fn.insts : /\ fn.insts[k].dst # 0
                           /\ \A j \in 1 .. k - 1 : fn.insts[j].dst # fn.insts[k].dst}
LastMention(fn, v) == Max({k \in DOMAIN fn.insts : v \in Mentions(fn.insts[k])})

\* The intervals of linear_scan, one for each virtual register that is defined,
\* sorted by start.
Intervals(fn) ==
  LET births == Births(fn)
      nth(i) == CHOOSE k \in births : Cardinality({j \in births : j <= k}) = i
      interval(k) == [vreg |-> fn.insts[k].dst, start |-> k,
                      end |-> LastMention(fn, fn.insts[k].dst)]
  IN [i \in 1 .. Cardinality(births) |-> interval(nth(i))]

-----------------------------------------------------------------------------
\* The machine code.  A machine is [rax, regs, frame, locals, pc, status]:
\* frame[k] is the cell at rbp - 8 * k; the prologue saves r12, rbx, r13,
\* r14 and r15 in cells 1 to 5 and the spill slots begin at cell 1 as well.

Saved == 1 .. 5
Caller(k) == 1000 + k     \* what the caller keeps in saved register k

\* Stack bytes are rounded up to 16.
FrameSize(slots) == 5 + slots + (slots % 2)

Prologue(numRegs, slots, maxLocals) ==
  [rax |-> Junk,
   regs |-> [r \in 0 .. numRegs - 1 |-> Junk],
   frame |-> [k \in 0 .. FrameSize(slots) |-> IF k \in Saved THEN Caller(k) ELSE Junk],
   locals |-> [s \in 0 .. maxLocals - 1 |-> 0],
   pc |-> 1, status |-> "running"]

\* home: [reg, slot] of a virtual register, -1 for none; a register without
\* either is addressed as [rbp + 0].
LoadTo(m, home, v) ==
  IF home[v].reg >= 0 THEN m.regs[home[v].reg] ELSE m.frame[home[v].slot + 1]

Operand(m, home, v) == IF v = 0 THEN Junk ELSE LoadTo(m, home, v)

StoreFrom(m, home, v, value) ==
  IF home[v].reg >= 0 THEN [m EXCEPT !.rax = value, !.regs[home[v].reg] = value]
  ELSE [m EXCEPT !.rax = value, !.frame[home[v].slot + 1] = value]

\* idiv; a zero divisor jumps over it and leaves the dividend in rax.
Divided(a, b) == IF b = 0 THEN a ELSE Wrap(Quotient(a, b))

\* Exponents from 0 to 63 by repeated squaring.
Power(a, b) == FoldLeft(LAMBDA x, k : Wrap(x * a), 1, [k \in 1 .. b |-> k])

\* cvtsi2sd and cvttsd2si: the nearest double, the even one of two; what is no word
\* any more comes back as the smallest word, which is its remainder.
ThroughDouble(a) ==
  LET size == IF a < 0 THEN -a ELSE a
      unit == 2 ^ Min({e \in 0 .. WordBits : size <= 2 ^ (DoubleBits + e)})
      half == 2 * (size % unit) - unit
      below == size \div unit
      rounded == unit * (IF half > 0 \/ (half = 0 /\ below % 2 = 1) THEN below + 1 ELSE below)
  IN Wrap(IF a < 0 THEN -rounded ELSE rounded)

\* The arithmetic and logical instructions: what rax holds after them.
Alu(op, a, b) ==
  CASE op \in Binary -> BinaryValue(op, a, b)
    [] op \in {"Neg", "Not"} -> UnaryValue(op, a)
    [] op = "Div" -> Divided(a, b)
    [] op = "Pow" -> IF b \in 0 .. 63 THEN Power(a, b) ELSE Junk
    [] op = "Shl" -> Wrap(a * 2 ^ (b % WordBits))
    [] op = "Shr" -> a \div 2 ^ (b % WordBits)
    [] op = "IsTruthy" -> Truth(a # 0)
    [] op = "ToFloat" -> ThroughDouble(a)
    [] op = "Mov" -> a

AluOps == Binary \cup {"Neg", "Not", "Div", "Pow", "Shl", "Shr", "IsTruthy", "Mov", "ToFloat"}
HeapOps == {"AllocList", "ListAppend", "ListGet", "ListSet", "AllocInstance",
            "GetField", "SetField", "Call", "CallNative"}

\* The instructions that define no virtual register.
Silent == Transfers \cup {"Label", "Halt", "Return", "StoreLocal", "StoreVar"}

LabelIndex(fn, l) ==
  CHOOSE k \in DOMAIN fn.insts : fn.insts[k].op = "Label" /\ fn.insts[k].payload = l

\* The value an instruction defines, from what its operands hold.
Result(inst, a, b, locals) ==
  CASE inst.op \in {"LoadConstImm", "LoadConst"} -> inst.payload
    [] inst.op = "LoadLocal" -> locals[inst.payload]
    [] inst.op \in AluOps -> Alu(inst.op, a, b)
    [] inst.op \in HeapOps \cup {"LoadVar"} -> 0

\* Where control goes after an instruction that tests a.
NextPc(fn, pc, a) ==
  LET inst == fn.insts[pc]
  IN IF \/ inst.op = "Jump"
        \/ inst.op = "BranchIfFalse" /\ a = 0
        \/ inst.op = "BranchIfTrue" /\ a # 0
     THEN LabelIndex(fn, inst.payload) ELSE pc + 1

\* Pow outside 0 .. 63 calls libc, which may change every caller-saved
\* register; nothing saves them.
SlowPow(inst, b) == inst.op = "Pow" /\ b \notin 0 .. 63

Clobbered(m, inst, b) ==
  IF SlowPow(inst, b)
  THEN [m EXCEPT !.regs = [r \in DOMAIN @ |-> IF r \in CallerSaved THEN Junk ELSE @[r]]]
  ELSE m

\* Whether the next instruction does that.
Clobbers(fn, home, m) ==
  LET inst == fn.insts[m.pc]
  IN SlowPow(inst, Operand(m, home, inst.src2))

\* Whether it reads a register that was not defined on the way here.
ReadsUndefined(fn, v) ==
  ~ ({fn.insts[v.pc].src1, fn.insts[v.pc].src2} \ {0} \subseteq v.defined)

\* One Tier1Inst of compile, as machine code.
Execute(fn, home, m) ==
  LET inst == fn.insts[m.pc]
      a == Operand(m, home, inst.src1)
      b == Operand(m, home, inst.src2)
      at == [Clobbered(m, inst, b) EXCEPT !.pc = NextPc(fn, m.pc, a)]
  IN CASE inst.op \in {"Label", "Jump", "StoreVar"} -> at
       [] inst.op = "Halt" -> [at EXCEPT !.status = "halted"]
       [] inst.op = "Return" -> [at EXCEPT !.rax = a, !.status = "returned"]
       [] inst.op \in {"BranchIfFalse", "BranchIfTrue"} -> [at EXCEPT !.rax = a]
       [] inst.op = "StoreLocal" -> [at EXCEPT !.rax = a, !.locals[inst.payload] = a]
       [] inst.dst = 0 /\ inst.op \notin Silent -> [at EXCEPT !.rax = 0]
       [] OTHER -> StoreFrom(at, home, inst.dst, Result(inst, a, b, m.locals))

\* Falling off the end runs into the epilogue.
Ends(fn, m) == m.status # "running" \/ m.pc > Len(fn.insts)

-----------------------------------------------------------------------------
\* The same instruction over virtual registers: what Tier1Inst promises.

ExecuteVirtual(fn, v) ==
  LET inst == fn.insts[v.pc]
      a == IF inst.src1 = 0 THEN Junk ELSE v.vregs[inst.src1]
      b == IF inst.src2 = 0 THEN Junk ELSE v.vregs[inst.src2]
      at == [v EXCEPT !.pc = NextPc(fn, v.pc, a)]
  IN CASE inst.op = "StoreLocal" -> [at EXCEPT !.locals[inst.payload] = a]
       [] inst.dst # 0 ->
            [at EXCEPT !.vregs[inst.dst] = Result(inst, a, b, v.locals),
                       !.defined = @ \cup {inst.dst}]
       [] OTHER -> at

=============================================================================
