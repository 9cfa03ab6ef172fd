------------------------------ MODULE Bytecode ------------------------------
(***************************************************************************)
(* Chunks (src/src/bytecode/chunk.h) and what Spark computes for them      *)
(* (the opcode cases of src/src/interp/interpreter.h) while every operand  *)
(* is an integer: the reference the compiled tiers are compared with.      *)
(*                                                                         *)
(* The code is a sequence of instructions, not of bytes: a jump holds the  *)
(* index of the instruction it goes to.  Words have WordBits bits (64 in   *)
(* the code); where the C++ leaves signed overflow undefined, the word     *)
(* wraps, as the add and imul both compilers emit do.                      *)
(***************************************************************************)
EXTENDS Loops, Sequences, SequencesExt

CONSTANT WordBits   \* 64

ASSUME WordAssumption == WordBits \in Nat \ {0}

Half == 2 ^ (WordBits - 1)
Word == -Half .. Half - 1
Wrap(x) == ((x + Half) % (2 * Half)) - Half

\* Signed division rounds towards zero.
Quotient(a, b) ==
  LET size(x) == IF x < 0 THEN -x ELSE x
      q == size(a) \div size(b)
  IN IF (a < 0) = (b < 0) THEN q ELSE -q

Truth(p) == IF p THEN 1 ELSE 0

Arithmetic == {"Add", "Sub", "Mul"}
Comparisons == {"Eq", "Ne", "Lt", "Gt", "Lte", "Gte"}
Logical == {"And", "Or"}
Binary == Arithmetic \cup Comparisons \cup Logical

BinaryValue(op, a, b) ==
  CASE op = "Add" -> Wrap(a + b)
    [] op = "Sub" -> Wrap(a - b)
    [] op = "Mul" -> Wrap(a * b)
    [] op = "Eq"  -> Truth(a = b)
    [] op = "Ne"  -> Truth(a # b)
    [] op = "Lt"  -> Truth(a < b)
    [] op = "Gt"  -> Truth(a > b)
    [] op = "Lte" -> Truth(a <= b)
    [] op = "Gte" -> Truth(a >= b)
    [] op = "And" -> Truth(a # 0 /\ b # 0)
    [] op = "Or"  -> Truth(a # 0 \/ b # 0)

UnaryValue(op, a) ==
  CASE op = "Neg" -> Wrap(-a)
    [] op = "Not" -> Truth(a = 0)

\* A chunk: its code, the types and values of its constants, max_locals.
Ins(op, arg) == [op |-> op, arg |-> arg]
Int64(i) == [type |-> "NumberInt", i |-> i]

Jumps == {"Jump", "JumpIfFalse", "ForIter", "TryPush"}
Targets(chunk) ==
  {chunk.code[k].arg : k \in {k \in DOMAIN chunk.code : chunk.code[k].op \in Jumps}}

-----------------------------------------------------------------------------

\* Spark's state.  status: "running", "int" (returned value), "other" (a
\* value that is no integer, or an error).  A local is <<>> while undef.
\* Two histories: carried, a jump was taken with operands on the stack;
\* fresh, the last operation computed or copied the top of the stack.
SparkStart(chunk) ==
  [ip |-> 1, stack |-> <<>>, locals |-> [s \in 0 .. chunk.maxLocals - 1 |-> <<>>],
   status |-> "running", value |-> 0, carried |-> FALSE, fresh |-> FALSE]

Stopped(st, status) == [st EXCEPT !.status = status]
Ended(st) == IF st.stack = <<>> THEN Stopped(st, "other")
             ELSE [st EXCEPT !.status = "int", !.value = Last(st.stack)]

\* n operands are replaced by the values in pushed.
Replace(st, n, pushed) ==
  [st EXCEPT !.stack = SubSeq(st.stack, 1, Len(st.stack) - n) \o pushed,
             !.ip = st.ip + 1, !.fresh = pushed # <<>>]

Goto(st, target) ==
  [st EXCEPT !.ip = target, !.carried = @ \/ st.stack # <<>>]

Needs(op) == IF op \in Binary THEN 2
             ELSE IF op \in {"Neg", "Not", "StoreLocal", "Pop", "JumpIfFalse", "Return"}
                  THEN 1 ELSE 0

SparkLoad(chunk, st, ins) ==
  CASE ins.op = "LoadConst" ->
         LET c == chunk.constants[ins.arg]
         IN IF c.type = "NumberInt" THEN Replace(st, 0, <<c.i>>)
            ELSE Stopped(st, "other")
    [] ins.op = "LoadLocal" ->
         IF st.locals[ins.arg] = <<>> THEN Stopped(st, "other")
         ELSE Replace(st, 0, st.locals[ins.arg])
    [] ins.op = "StoreLocal" ->
         [Replace(st, 1, <<Last(st.stack)>>)
            EXCEPT !.locals[ins.arg] = <<Last(st.stack)>>]

SparkStep(chunk, st) ==
  LET ins == chunk.code[st.ip]
      top == Last(st.stack)
      below == st.stack[Len(st.stack) - 1]
  IN IF Len(st.stack) < Needs(ins.op) THEN Stopped(st, "other")
     ELSE CASE ins.op \in {"LoadConst", "LoadLocal", "StoreLocal"} ->
                 SparkLoad(chunk, st, ins)
            [] ins.op \in Binary -> Replace(st, 2, <<BinaryValue(ins.op, below, top)>>)
            [] ins.op \in {"Neg", "Not"} -> Replace(st, 1, <<UnaryValue(ins.op, top)>>)
            [] ins.op = "Pop" -> Replace(st, 1, <<>>)
            [] ins.op = "Jump" -> Goto(st, ins.arg)
            [] ins.op = "JumpIfFalse" ->
                 IF top = 0 THEN Goto(Replace(st, 1, <<>>), ins.arg)
                 ELSE Replace(st, 1, <<>>)
            [] ins.op = "Return" -> [Ended(st) EXCEPT !.fresh = TRUE]
            [] ins.op = "Halt" -> Ended(st)
            [] OTHER -> Stopped(st, "other")

Visited(chunk, st, k) ==
  IF st.status = "running" /\ st.ip = k THEN SparkStep(chunk, st) ELSE st

\* Jumps go forward: one pass over the code executes the chunk.
SparkRun(chunk) ==
  LET last == Sweep(LAMBDA st, k : Visited(chunk, st, k), SparkStart(chunk), Len(chunk.code))
  IN IF last.status = "running" THEN Ended(last) ELSE last

=============================================================================
