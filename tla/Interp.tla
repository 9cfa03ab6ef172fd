------------------------------- MODULE Interp -------------------------------
(***************************************************************************)
(* The Tier-0 interpreter of src/src/interp/interpreter.h: its frames,     *)
(* operand stack, local slots and try stack, for one host thread.          *)
(*                                                                         *)
(* The bytecode is arbitrary: at every step the current function executes  *)
(* any opcode.  What the code at an instruction pointer relies on is kept  *)
(* in place of the pointer: how many operands it has pushed, and for every *)
(* try region it is in, how many it had pushed before the region.  Values  *)
(* are left out; the stack is its size.                                    *)
(*                                                                         *)
(* Call runs the callee in a nested C++ call of dispatch_loop_, which      *)
(* holds a reference to its CallFrame inside the vector frames_.  A popped *)
(* frame keeps its storage (the vector is reserved and never moves), so a  *)
(* reference to it still reads what it held or what is pushed over it:     *)
(* frames is that storage, frameCount the size of the vector, and loops    *)
(* the C++ calls that are running.  locals_ is an array of kLocalsMax slots *)
(* whose bound no access checks: here it has no end, and InterpProofs says  *)
(* for which programs the code stays inside it.                            *)
(***************************************************************************)
EXTENDS Integers, Sequences

CONSTANTS
  Habits,        \* what programs do beyond the tidy ones, see AllHabits
  FrameMax,      \* kFrameMax
  TryMax,        \* kTryMax
  MaxLocals,     \* bound: max_locals of a chunk
  MaxArgs,       \* bound: arguments of a call
  MaxOperands,   \* bound: operands one function has on the stack
  MaxLeftover    \* bound: operands on the stack when a run begins

AllHabits ==
  {"catch_in_caller",  \* an error of a callee reaches a try of its caller
   "leave_operands",   \* a function returns with operands besides its result
   "leave_try",        \* a function or a chunk ends inside a try region
   "extra_params"}     \* a function binds more parameters than it has locals

ASSUME InterpAssumption ==
  /\ Habits \subseteq AllHabits
  /\ FrameMax \in Nat \ {0} /\ TryMax \in Nat
  /\ MaxLocals \in Nat /\ MaxArgs \in Nat
  /\ MaxOperands \in Nat \ {0} /\ MaxLeftover \in Nat

VARIABLES
  frames,      \* storage of frames_: [base, count, table, reader]
  frameCount,  \* frames_.size()
  loops,       \* running dispatch_loop_ calls, outermost first:
               \* [slot, floor]; floor (history) is the stack size on entry
  stackSize,   \* stack_.size()
  locals,      \* the indices of locals_ that are not undef
  localsTop,   \* locals_top_
  tries        \* try_stack_: [frame, reader, stackTop]

vars == <<frames, frameCount, loops, stackSize, locals, localsTop, tries>>

Reader == [operands : 0 .. MaxOperands, regions : Seq(0 .. MaxOperands)]
Start == [operands |-> 0, regions |-> <<>>]

\* table: whose SymbolTable variables points to
CallFrame == [base : Nat, count : 0 .. MaxLocals,
              table : {"none", "shared", "owned", "freed"}, reader : Reader]

TryEntry == [frame : 1 .. FrameMax, reader : Reader, stackTop : Nat]

TypeOK ==
  /\ frames \in [1 .. FrameMax -> CallFrame]
  /\ frameCount \in 0 .. FrameMax
  /\ loops \in Seq([slot : 1 .. FrameMax, floor : Nat])
  /\ stackSize \in Nat
  /\ locals \subseteq Nat
  /\ localsTop \in Nat
  /\ tries \in Seq(TryEntry) /\ Len(tries) <= TryMax

Init ==
  /\ frames = [k \in 1 .. FrameMax |->
                [base |-> 0, count |-> 0, table |-> "none", reader |-> Start]]
  /\ frameCount = 0
  /\ loops = <<>>
  /\ stackSize = 0
  /\ locals = {}
  /\ localsTop = 0
  /\ tries = <<>>

-----------------------------------------------------------------------------

LastOf(s) == s[Len(s)]
ButLast(s) == SubSeq(s, 1, Len(s) - 1)

Running == loops # <<>>
Inner == LastOf(loops)
Slot == Inner.slot
Here == frames[Slot].reader
LastTry == LastOf(tries)

FrameEnd(f) == f.base + f.count
Window(f) == f.base .. FrameEnd(f) - 1

\* The frame's own SymbolTable is deleted; a shared one stays.
Freed(f) == [f EXCEPT !.table = IF @ = "owned" THEN "freed" ELSE @]

\* What the code leaves alone inside its innermost try region.
Kept(reader) == IF reader.regions = <<>> THEN 0 ELSE LastOf(reader.regions)

\* The current function has pushed n operands it can use.
Has(n) ==
  /\ Running
  /\ Here.operands - n >= Kept(Here)
  /\ stackSize >= n

\* An instruction replaces its topmost operands.
Operate(pops, pushes) ==
  /\ Has(pops)
  /\ Here.operands - pops + pushes <= MaxOperands
  /\ stackSize' = stackSize - pops + pushes
  /\ frames' = [frames EXCEPT ![Slot].reader =
                  [Here EXCEPT !.operands = @ - pops + pushes]]
  /\ UNCHANGED <<frameCount, loops, locals, localsTop, tries>>

-----------------------------------------------------------------------------

(* Errors.  An operator whose comment begins with "Fault" is not part of the *)
(* model: it is the operator after it with a plausible bug, for the mutants.  *)

\* Fault: the locals of a frame that ends keep their values.
NoLocals(leaving) == {}

\* The local slots that are released when the frames in leaving end.
LocalsOf(leaving) == UNION {Window(frames[k]) : k \in leaving}

\* Fault: the operands above those of the try region stay.
NotTruncated(size) == size

\* What handle_error leaves on the operand stack below the message.
Truncated(size) == IF size > LastTry.stackTop THEN LastTry.stackTop ELSE size

\* handle_error with a try entry: frames above the entry's are unwound, the
\* operand stack is truncated, and this C++ loop goes on at the catch block
\* with a copy of the target frame's reader and the message pushed.
Catch(size) ==
  LET t == LastTry
      gone == t.frame + 1 .. frameCount
      caught == [t.reader EXCEPT !.operands = @ + 1]
  IN /\ tries # <<>>
     /\ t.frame < frameCount => "catch_in_caller" \in Habits
     /\ tries' = ButLast(tries)
     /\ frameCount' = IF gone = {} THEN frameCount ELSE t.frame
     /\ locals' = locals \ LocalsOf(gone)
     /\ localsTop' = IF gone = {} THEN localsTop ELSE frames[t.frame + 1].base
     /\ stackSize' = Truncated(size) + 1
     /\ frames' = [k \in 1 .. FrameMax |->
          LET f == IF k \in gone THEN Freed(frames[k]) ELSE frames[k]
          IN IF k = Slot THEN [f EXCEPT !.reader = caught]
             ELSE IF k = t.frame THEN [f EXCEPT !.reader = t.reader] ELSE f]
     /\ UNCHANGED loops

\* No try entry is left: every loop returns the error to the Call that
\* entered it, which cleans up its frame and fails in turn, up to run.
\* The operands stay on the stack.
Propagate(size) ==
  LET leaving == {loops[k].slot : k \in 1 .. Len(loops)}
  IN /\ tries = <<>>
     /\ frameCount' = frameCount - Len(loops)
     /\ locals' = locals \ LocalsOf(leaving)
     /\ localsTop' = frames[loops[1].slot].base
     /\ frames' = [k \in 1 .. FrameMax |->
                     IF k \in leaving THEN Freed(frames[k]) ELSE frames[k]]
     /\ stackSize' = size
     /\ loops' = <<>>
     /\ UNCHANGED tries

\* goto handle_error in an instruction that has popped its operands.
Fail(pops) ==
  /\ Has(pops)
  /\ Catch(stackSize - pops) \/ Propagate(stackSize - pops)

-----------------------------------------------------------------------------

(* The opcodes, by what they do to the operand stack and how they can fail. *)

\* A local that is out of range or undef is a NameError.
LoadLocal ==
  \E slot \in 0 .. MaxLocals :
    LET f == frames[Slot] IN
    /\ Running
    /\ IF slot < f.count /\ f.base + slot \in locals
       THEN Operate(0, 1) ELSE Fail(0)

\* The operand is peeked and stays.
StoreLocal ==
  \E slot \in 0 .. MaxLocals :
    /\ Has(1)
    /\ IF slot < frames[Slot].count
       THEN /\ locals' = locals \cup {frames[Slot].base + slot}
            /\ UNCHANGED <<frames, frameCount, loops, stackSize, localsTop, tries>>
       ELSE Fail(0)

LoadConst == Operate(0, 1)
LoadVar == Operate(0, 1) \/ Fail(0)
StoreVar == Operate(1, 1) \/ (Has(1) /\ Fail(0))
Pop == Operate(1, 0)
Arithmetic == Operate(2, 1) \/ Fail(2)    \* Add, Sub, Mul, Div, Pow
Neg == Operate(1, 1) \/ Fail(1)
Not == Operate(1, 1)
Equality == Operate(2, 1)                 \* Eq, Ne: never an error
Order == Operate(2, 1) \/ Fail(2)         \* Lt, Gt, Lte, Gte
Logic == Operate(2, 1)                    \* And, Or
JumpIfFalse == Operate(1, 0)

\* [iterable] becomes [iterable, length, index].
ForPrep == Has(1) /\ (Operate(0, 2) \/ Fail(0))

\* The next item is pushed, or the three loop operands are popped.
ForIter == Has(3) /\ (Operate(0, 1) \/ Operate(3, 0) \/ Fail(0))

BuildList == \E n \in 0 .. MaxOperands : Operate(n, 1)
IndexGet == Operate(2, 1) \/ Fail(2)
IndexSet == Operate(3, 1) \/ Fail(3)
PropertyAccess == Operate(1, 1) \/ Fail(1) \/ (Has(1) /\ Fail(0))
PropertySet == Operate(2, 1) \/ Fail(2) \/ (Has(2) /\ Fail(0))

\* The catch block finds the operands of the try region and the message.
TryPush ==
  /\ Running
  /\ Here.operands < MaxOperands
  /\ IF Len(tries) >= TryMax THEN Fail(0)
     ELSE /\ tries' = Append(tries, [frame |-> frameCount, reader |-> Here,
                                     stackTop |-> stackSize])
          /\ frames' = [frames EXCEPT ![Slot].reader =
                        [Here EXCEPT !.regions = Append(@, Here.operands)]]
          /\ UNCHANGED <<frameCount, loops, stackSize, locals, localsTop>>

\* Fault: the entry stays on try_stack_.
LeaveEntry ==
  /\ Running
  /\ Here.regions # <<>>
  /\ frames' = [frames EXCEPT ![Slot].reader =
                  [Here EXCEPT !.regions = ButLast(@)]]
  /\ UNCHANGED <<frameCount, loops, stackSize, locals, localsTop, tries>>

\* Compiled at the end of a try region.
TryPop ==
  /\ Running
  /\ Here.regions # <<>>
  /\ frames' = [frames EXCEPT ![Slot].reader =
                  [Here EXCEPT !.regions = ButLast(@)]]
  /\ tries' = IF tries = <<>> THEN tries ELSE ButLast(tries)
  /\ UNCHANGED <<frameCount, loops, stackSize, locals, localsTop>>

-----------------------------------------------------------------------------

(* Functions *)

\* Fault: the frame limit is one too high.
FramesOverfull == frameCount \notin 0 .. FrameMax

\* frames_.size() >= kFrameMax.  The size is unsigned: one pop too many makes
\* it huge.
FramesFull == frameCount \notin 0 .. FrameMax - 1

\* A native function, or a callee that cannot be called.
CallNative(args) == Operate(args + 1, 1) \/ Fail(args + 1)

\* A frame with count locals is pushed and made undef, params of the arguments
\* are bound from its base on, whatever count is, and the callee runs in a
\* nested dispatch_loop_.
CallFunction(args, params, count) ==
  LET new == frameCount + 1
      rest == stackSize - (args + 1)
  IN /\ Has(args + 1)
     /\ params > count => "extra_params" \in Habits
     /\ ~FramesFull
     /\ frameCount' = new
     /\ frames' = [frames EXCEPT
          ![Slot].reader = [Here EXCEPT !.operands = @ - (args + 1)],
          ![new] = [base |-> localsTop, count |-> count, table |-> "owned",
                    reader |-> Start]]
     /\ localsTop' = localsTop + count
     /\ locals' = (locals \ (localsTop .. localsTop + count - 1))
                    \cup (localsTop .. localsTop + params - 1)
     /\ loops' = Append(loops, [slot |-> new, floor |-> rest])
     /\ stackSize' = rest
     /\ UNCHANGED tries

CallOverflow(args) == FramesFull /\ Fail(args + 1)

Call == \E args \in 0 .. MaxArgs :
  \/ CallNative(args)
  \/ \E params \in 0 .. args, count \in 0 .. MaxLocals :
       CallFunction(args, params, count)
  \/ CallOverflow(args)

\* Fault: locals_top_ is not given back to the caller.
KeepTop(base) == localsTop

\* locals_top_ after the frame at base has ended.
GiveBack(base) == base

\* The loop returns a value, and its caller cleans up the frame: Call pushes
\* the value and goes on, run returns it to the host.
EndLoop(size) ==
  LET caller == loops[Len(loops) - 1].slot
      freed == [frames EXCEPT ![Slot] = Freed(@)]
  IN /\ frameCount' = frameCount - 1
     /\ locals' = locals \ LocalsOf({Slot})
     /\ localsTop' = GiveBack(frames[Slot].base)
     /\ loops' = ButLast(loops)
     /\ IF Len(loops) = 1
        THEN stackSize' = size /\ frames' = freed
        ELSE /\ stackSize' = size + 1
             /\ frames' = [freed EXCEPT ![caller].reader.operands = @ + 1]
     /\ UNCHANGED tries

\* Tidy code ends outside its try regions, and a function when its result is
\* its only operand (popped = 1) or it has none.
Leave(popped) ==
  /\ Has(popped)
  /\ Here.regions # <<>> => "leave_try" \in Habits
  /\ Len(loops) > 1 /\ Here.operands > popped => "leave_operands" \in Habits
  /\ EndLoop(stackSize - popped)

Return == Leave(1)
Halt == Leave(0)       \* the top operand is the result, and stays
Break == Leave(0)      \* and Continue: the loop ends with undef
FallOff == Leave(0)    \* past the last instruction, as Halt

\* Interpreter::run
Run(count) ==
  /\ ~Running
  /\ stackSize <= MaxLeftover
  /\ ~FramesFull
  /\ frameCount' = frameCount + 1
  /\ frames' = [frames EXCEPT ![frameCount + 1] =
                  [base |-> localsTop, count |-> count, table |-> "shared",
                   reader |-> Start]]
  /\ localsTop' = localsTop + count
  /\ locals' = locals \ (localsTop .. localsTop + count - 1)
  /\ loops' = <<[slot |-> frameCount + 1, floor |-> stackSize]>>
  /\ UNCHANGED <<stackSize, tries>>

\* ~Interpreter, and a new one.
Recreate ==
  /\ ~Running
  /\ frames' = [k \in 1 .. FrameMax |->
                 [base |-> 0, count |-> 0, table |-> "none", reader |-> Start]]
  /\ frameCount' = 0
  /\ loops' = <<>>
  /\ stackSize' = 0
  /\ locals' = {}
  /\ localsTop' = 0
  /\ tries' = <<>>

Operation ==
  \/ LoadConst \/ LoadLocal \/ StoreLocal \/ LoadVar \/ StoreVar \/ Pop
  \/ Arithmetic \/ Neg \/ Not \/ Equality \/ Order \/ Logic
  \/ JumpIfFalse \/ ForPrep \/ ForIter
  \/ BuildList \/ IndexGet \/ IndexSet \/ PropertyAccess \/ PropertySet
  \/ TryPush \/ TryPop

Next ==
  \/ \E count \in 0 .. MaxLocals : Run(count)
  \/ Recreate
  \/ Operation
  \/ Call
  \/ Return \/ Halt \/ Break \/ FallOff

Spec == Init /\ [][Next]_vars

-----------------------------------------------------------------------------

\* The k-th running C++ loop works on the k-th frame of frames_, no more
\* frames are there, none of them has lost its symbol table, and their
\* windows of locals_ lie one after the other up to locals_top_: a function
\* never reads or overwrites a local of another (Call, Return, handle_error).
FramesNested ==
  /\ frameCount = Len(loops)
  /\ \A k \in 1 .. Len(loops) :
       /\ loops[k].slot = k
       /\ frames[k].table # "freed"
       /\ frames[k].base = IF k = 1 THEN 0 ELSE FrameEnd(frames[k - 1])
  /\ localsTop = IF loops = <<>> THEN 0 ELSE FrameEnd(frames[Len(loops)])

\* The operand stack is made of what each running function has pushed, in the
\* order of the calls: a binary operator never meets an operand that an ended
\* callee or a caught error left between its own (Return, handle_error).
OperandsNested ==
  \A k \in 1 .. Len(loops) :
    loops[k].floor + frames[k].reader.operands
      = IF k = Len(loops) THEN stackSize ELSE loops[k + 1].floor

\* Every try entry belongs to a function that is still inside the region that
\* pushed it, and restores that function's own operands; inner functions'
\* entries lie above outer ones': an error never resumes in a function that
\* has ended or in a region that was left (TryPush, TryPop, handle_error).
TriesLive ==
  /\ \A i \in 1 .. Len(tries) :
       LET t == tries[i]
           n == Len(t.reader.regions)
           open == frames[t.frame].reader.regions
       IN /\ t.frame \in 1 .. Len(loops)
          /\ t.stackTop = loops[t.frame].floor + t.reader.operands
          /\ n < Len(open)
          /\ t.reader.regions = SubSeq(open, 1, n)
          /\ t.reader.operands = open[n + 1]
  /\ \A i, j \in 1 .. Len(tries) : i < j =>
       \/ tries[i].frame < tries[j].frame
       \/ /\ tries[i].frame = tries[j].frame
          /\ Len(tries[i].reader.regions) < Len(tries[j].reader.regions)
  /\ \A k \in 1 .. Len(loops) : \A n \in 1 .. Len(frames[k].reader.regions) :
       \E i \in 1 .. Len(tries) :
         tries[i].frame = k /\ Len(tries[i].reader.regions) = n - 1

\* Local slots above locals_top_ hold nothing: no value of an ended function
\* survives in locals_, where a later frame would own it (run, Call,
\* handle_error).  An argument that Call binds above the callee's locals
\* (extra_params) does survive.
LocalsCleared == \A i \in locals : i < localsTop

\* When a function ends and its caller goes on, the caller's frame is the top
\* one again and the operand stack is the caller's operands and the result
\* (docs/BYTECODE.md, OP_RETURN: "Pops the call frame, restores caller
\* state").
ReturnRestoresCaller ==
  [][(Len(loops') < Len(loops) /\ loops' # <<>>) =>
       LET caller == loops'[Len(loops')]
       IN /\ frameCount' = caller.slot
          /\ stackSize' = caller.floor + frames'[caller.slot].reader.operands
    ]_vars

=============================================================================
