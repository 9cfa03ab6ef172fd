---------------------------- MODULE InterpProofs ----------------------------
(***************************************************************************)
(* Theorems of Interp for any limits.  As long as no caller catches an     *)
(* error of its callee, frames and C++ recursion stay in step, no function *)
(* touches the locals of another, and locals_ keeps no dead value if the   *)
(* parameters fit.  For tidy programs the operand stack is what the        *)
(* running functions have pushed, in the order of their calls, and an      *)
(* error resumes only in a try region that is still entered.               *)
(***************************************************************************)
EXTENDS Interp, SequenceTheorems, TLAPS

(* Frames and their locals *)

\* No error of a callee reaches a try of its caller.
CaughtLocally == "catch_in_caller" \notin Habits

\* No function binds more parameters than it has locals.
ParamsFit == "extra_params" \notin Habits

\* Errors are caught in the function that raises them, and functions end
\* with their result alone and outside their try regions.
Tidy == Habits \subseteq {"extra_params"}

\* What FramesNested needs to be inductive: k windows end below k times the
\* largest window, they leave no gap, and a caller and a catch block have room for
\* the operand that is pushed when they go on.
Room ==
  /\ \A k \in 1 .. Len(loops) : FrameEnd(frames[k]) <= k * MaxLocals
  /\ \A i \in 0 .. localsTop - 1 :
       \E k \in 1 .. Len(loops) : i \in Window(frames[k])
  /\ \A k \in 1 .. Len(loops) - 1 : frames[k].reader.operands < MaxOperands
  /\ \A i \in 1 .. Len(tries) : tries[i].reader.operands < MaxOperands

Cleared == ParamsFit => LocalsCleared

FrameInv == TypeOK /\ FramesNested /\ Cleared /\ Room

-----------------------------------------------------------------------------

\* The last element of a sequence, and the rest.
LEMMA LastOfSeq ==
  ASSUME NEW S, NEW s \in Seq(S), s # <<>>
  PROVE  /\ Len(s) \in Nat \ {0}
         /\ LastOf(s) \in S
         /\ ButLast(s) \in Seq(S)
         /\ Len(ButLast(s)) = Len(s) - 1
         /\ \A i \in 1 .. Len(s) - 1 : ButLast(s)[i] = s[i]
<1>1. Len(s) \in Nat \ {0}
  OBVIOUS
<1>2. LastOf(s) \in S
  BY <1>1 DEF LastOf
<1>3. /\ SubSeq(s, 1, Len(s) - 1) \in Seq(S)
      /\ Len(SubSeq(s, 1, Len(s) - 1)) = Len(s) - 1
      /\ \A i \in 1 .. Len(s) - 1 : SubSeq(s, 1, Len(s) - 1)[i] = s[i]
  <2> DEFINE n == Len(s) - 1
  <2>1. n \in Nat /\ \A i \in 1 .. n : s[i] \in S
    BY <1>1
  <2> HIDE DEF n
  <2>2. /\ SubSeq(s, 1, n) \in Seq(S)
        /\ Len(SubSeq(s, 1, n)) = IF 1 <= n THEN n - 1 + 1 ELSE 0
        /\ \A i \in 1 .. n - 1 + 1 : SubSeq(s, 1, n)[i] = s[1 + i - 1]
    BY <2>1, SubSeqProperties
  <2>3. Len(SubSeq(s, 1, n)) = n /\ \A i \in 1 .. n : SubSeq(s, 1, n)[i] = s[i]
    BY <2>1, <2>2
  <2> QED BY <2>2, <2>3 DEF n
<1> QED BY <1>1, <1>2, <1>3 DEF ButLast

\* The current frame while a function runs.
LEMMA Current ==
  ASSUME FrameInv, Running
  PROVE  /\ Len(loops) \in Nat \ {0}
         /\ Slot = Len(loops) /\ frameCount = Slot
         /\ Slot \in 1 .. FrameMax
         /\ frames[Slot] \in CallFrame /\ Here \in Reader
         /\ localsTop = FrameEnd(frames[Slot])
         /\ Kept(Here) \in Nat
<1>1. Len(loops) \in Nat \ {0}
  BY DEF FrameInv, TypeOK, Running
<1>2. Slot = Len(loops) /\ frameCount = Slot
  BY <1>1 DEF FrameInv, FramesNested, Slot, Inner, LastOf
<1>3. Slot \in 1 .. FrameMax
  BY <1>1, <1>2, InterpAssumption DEF FrameInv, TypeOK
<1>4. frames[Slot] \in CallFrame /\ Here \in Reader
  BY <1>3 DEF FrameInv, TypeOK, CallFrame, Here
<1>5. localsTop = FrameEnd(frames[Slot])
  BY <1>2 DEF FrameInv, FramesNested, Running
<1>6. Kept(Here) \in Nat
  <2>1. CASE Here.regions = <<>>
    BY <2>1 DEF Kept
  <2>2. CASE Here.regions # <<>>
    <3>1. Here.regions \in Seq(0 .. MaxOperands)
      BY <1>4 DEF Reader
    <3>2. LastOf(Here.regions) \in 0 .. MaxOperands
      BY <2>2, <3>1, LastOfSeq
    <3> QED BY <2>2, <3>2, InterpAssumption DEF Kept
  <2> QED BY <2>1, <2>2
<1> QED BY <1>1, <1>2, <1>3, <1>4, <1>5, <1>6

\* A step that keeps the loops and every window, and no reader but the current
\* one among those of the running functions, keeps what is said of frames.
LEMMA SameWindows ==
  ASSUME FrameInv, Running,
         loops' = loops, frameCount' = frameCount, localsTop' = localsTop,
         frames' \in [1 .. FrameMax -> CallFrame],
         \A k \in 1 .. FrameMax :
           /\ frames'[k].base = frames[k].base
           /\ frames'[k].count = frames[k].count
           /\ frames'[k].table = frames[k].table
           /\ k < Slot => frames'[k].reader = frames[k].reader
  PROVE  /\ FramesNested'
         /\ \A k \in 1 .. Len(loops') : FrameEnd(frames'[k]) <= k * MaxLocals
         /\ \A i \in 0 .. localsTop' - 1 :
              \E k \in 1 .. Len(loops') : i \in Window(frames'[k])
         /\ \A k \in 1 .. Len(loops') - 1 : frames'[k].reader.operands < MaxOperands
<1>1. /\ Slot = Len(loops) /\ Slot \in 1 .. FrameMax /\ FrameMax \in Nat
      /\ \A k \in 1 .. Len(loops) : k \in 1 .. FrameMax
  BY Current, InterpAssumption
<1>2. \A k \in 1 .. FrameMax : /\ FrameEnd(frames'[k]) = FrameEnd(frames[k])
                               /\ Window(frames'[k]) = Window(frames[k])
  BY DEF FrameEnd, Window
<1>3. FramesNested'
  <2>1. /\ frameCount' = Len(loops')
        /\ loops' # <<>>
    BY DEF FrameInv, FramesNested, Running
  <2>2. \A k \in 1 .. Len(loops') :
          /\ loops'[k].slot = k
          /\ frames'[k].table # "freed"
    BY <1>1 DEF FrameInv, FramesNested
  <2>3. \A k \in 1 .. Len(loops') :
          frames'[k].base = IF k = 1 THEN 0 ELSE FrameEnd(frames'[k - 1])
    <3> TAKE k \in 1 .. Len(loops')
    <3>1. /\ k \in 1 .. FrameMax
          /\ frames[k].base = IF k = 1 THEN 0 ELSE FrameEnd(frames[k - 1])
      BY <1>1 DEF FrameInv, FramesNested
    <3>2. k # 1 => k - 1 \in 1 .. FrameMax
      BY <3>1, InterpAssumption
    <3> QED BY <1>2, <3>1, <3>2
  <2>4. localsTop' = FrameEnd(frames'[Len(loops')])
    <3>1. localsTop = FrameEnd(frames[Len(loops)]) /\ Len(loops) \in 1 .. FrameMax
      BY <1>1, Current
    <3> QED BY <1>2, <3>1
  <2> QED BY <2>1, <2>2, <2>3, <2>4 DEF FramesNested
<1>4. \A k \in 1 .. Len(loops') : FrameEnd(frames'[k]) <= k * MaxLocals
  <2> TAKE k \in 1 .. Len(loops')
  <2>1. k \in 1 .. FrameMax /\ FrameEnd(frames[k]) <= k * MaxLocals
    BY <1>1 DEF FrameInv, Room
  <2> QED BY <1>2, <2>1
<1>5. \A i \in 0 .. localsTop' - 1 :
        \E k \in 1 .. Len(loops') : i \in Window(frames'[k])
  <2> TAKE i \in 0 .. localsTop' - 1
  <2>1. PICK k \in 1 .. Len(loops) : i \in Window(frames[k])
    BY DEF FrameInv, Room
  <2> QED BY <1>1, <1>2, <2>1
<1>6. \A k \in 1 .. Len(loops') - 1 : frames'[k].reader.operands < MaxOperands
  <2> TAKE k \in 1 .. Len(loops') - 1
  <2>1. k \in 1 .. FrameMax /\ k < Slot /\ frames[k].reader.operands < MaxOperands
    BY <1>1 DEF FrameInv, Room
  <2> QED BY <2>1
<1> QED BY <1>3, <1>4, <1>5, <1>6

-----------------------------------------------------------------------------

\* A step that gives the current function another reader keeps all of that.
LEMMA SetReader ==
  ASSUME FrameInv, Running, NEW r \in Reader,
         frames' = [frames EXCEPT ![Slot].reader = r]
  PROVE  /\ frames' \in [1 .. FrameMax -> CallFrame]
         /\ \A k \in 1 .. FrameMax :
              /\ frames'[k].base = frames[k].base
              /\ frames'[k].count = frames[k].count
              /\ frames'[k].table = frames[k].table
              /\ k < Slot => frames'[k].reader = frames[k].reader
<1>1. frames \in [1 .. FrameMax -> CallFrame] /\ Slot \in 1 .. FrameMax
  BY Current DEF FrameInv, TypeOK
<1>2. frames' = [frames EXCEPT ![Slot] = [frames[Slot] EXCEPT !.reader = r]]
  BY <1>1
<1>3. frames[Slot] \in CallFrame
  BY <1>1
<1>4. [frames[Slot] EXCEPT !.reader = r] \in CallFrame
  BY <1>3 DEF CallFrame
<1>5. frames' \in [1 .. FrameMax -> CallFrame]
  BY <1>1, <1>2, <1>4
<1>6. ASSUME NEW k \in 1 .. FrameMax
      PROVE  /\ frames'[k].base = frames[k].base
             /\ frames'[k].count = frames[k].count
             /\ frames'[k].table = frames[k].table
             /\ k < Slot => frames'[k].reader = frames[k].reader
  <2>1. frames[k] \in CallFrame
    BY <1>1
  <2> QED BY <1>1, <1>2, <2>1 DEF CallFrame
<1> QED BY <1>5, <1>6

\* An instruction that only moves operands.
LEMMA OperateInv ==
  ASSUME FrameInv, NEW pops \in Nat, NEW pushes \in Nat, Operate(pops, pushes)
  PROVE  FrameInv'
<1> DEFINE r == [Here EXCEPT !.operands = @ - pops + pushes]
<1>1. /\ Running /\ Here.operands - pops >= Kept(Here) /\ stackSize >= pops
      /\ Here.operands - pops + pushes <= MaxOperands
      /\ stackSize' = stackSize - pops + pushes
      /\ frames' = [frames EXCEPT ![Slot].reader = r]
      /\ UNCHANGED <<frameCount, loops, locals, localsTop, tries>>
  BY DEF Operate, Has
<1>2. Here \in Reader /\ Kept(Here) \in Nat
  BY <1>1, Current
<1>3. Here.operands - pops + pushes \in 0 .. MaxOperands
  BY <1>1, <1>2, InterpAssumption DEF Reader
<1>4. r \in Reader
  BY <1>2, <1>3 DEF Reader
<1> HIDE DEF r
<1>5. /\ frames' \in [1 .. FrameMax -> CallFrame]
      /\ \A k \in 1 .. FrameMax :
           /\ frames'[k].base = frames[k].base
           /\ frames'[k].count = frames[k].count
           /\ frames'[k].table = frames[k].table
           /\ k < Slot => frames'[k].reader = frames[k].reader
  BY <1>1, <1>4, SetReader
<1>6. TypeOK'
  BY <1>1, <1>5 DEF FrameInv, TypeOK
<1>7. FramesNested' /\ Room' /\ Cleared'
  BY <1>1, <1>5, SameWindows DEF FrameInv, Cleared, LocalsCleared, Room
<1> QED BY <1>6, <1>7 DEF FrameInv

\* handle_error with a try entry of the current function.
LEMMA CatchInv ==
  ASSUME FrameInv, CaughtLocally, Running, NEW size \in Nat, Catch(size)
  PROVE  FrameInv'
<1> DEFINE t == LastTry
           caught == [t.reader EXCEPT !.operands = @ + 1]
<1>1. t \in TryEntry /\ t.reader.operands < MaxOperands
      /\ tries' \in Seq(TryEntry) /\ Len(tries') <= TryMax
      /\ \A i \in 1 .. Len(tries') : tries'[i].reader.operands < MaxOperands
  <2>1. tries \in Seq(TryEntry) /\ tries # <<>> /\ tries' = ButLast(tries)
        /\ Len(tries) <= TryMax
    BY DEF Catch, FrameInv, TypeOK
  <2>2. /\ Len(tries) \in Nat \ {0} /\ LastOf(tries) \in TryEntry
        /\ ButLast(tries) \in Seq(TryEntry)
        /\ Len(ButLast(tries)) = Len(tries) - 1
        /\ \A i \in 1 .. Len(tries) - 1 : ButLast(tries)[i] = tries[i]
    BY <2>1, LastOfSeq
  <2>3. LastOf(tries).reader.operands < MaxOperands
    BY <2>2 DEF FrameInv, Room, LastOf
  <2>4. Len(tries') <= TryMax
    BY <2>1, <2>2, InterpAssumption
  <2>5. \A i \in 1 .. Len(tries') : tries'[i].reader.operands < MaxOperands
    BY <2>1, <2>2 DEF FrameInv, Room
  <2> QED BY <2>1, <2>2, <2>3, <2>4, <2>5 DEF LastTry
<1>2. /\ Slot = Len(loops) /\ frameCount = Slot /\ Slot \in 1 .. FrameMax
  BY Current
<1>3. t.frame >= frameCount /\ t.frame \in 1 .. FrameMax /\ t.reader \in Reader
      /\ t.stackTop \in Nat
  BY <1>1, <1>2, InterpAssumption DEF Catch, CaughtLocally, TryEntry
<1>4. t.frame + 1 .. frameCount = {}
  BY <1>2, <1>3
<1>5. caught \in Reader
  <2>1. t.reader.operands + 1 \in 0 .. MaxOperands
    BY <1>1, <1>3, InterpAssumption DEF Reader
  <2> HIDE DEF t
  <2> QED BY <1>3, <2>1 DEF Reader
<1>6. /\ frameCount' = frameCount /\ localsTop' = localsTop /\ loops' = loops
      /\ locals' = locals
      /\ stackSize' = Truncated(size) + 1
      /\ frames' = [k \in 1 .. FrameMax |->
           IF k = Slot THEN [frames[k] EXCEPT !.reader = caught]
           ELSE IF k = t.frame THEN [frames[k] EXCEPT !.reader = t.reader]
                ELSE frames[k]]
  BY <1>4 DEF Catch, LocalsOf
<1>7. stackSize' \in Nat
  BY <1>3, <1>6 DEF Truncated
<1> HIDE DEF t, caught
<1>8. ASSUME NEW k \in 1 .. FrameMax
      PROVE  /\ frames'[k] \in CallFrame
             /\ frames'[k].base = frames[k].base
             /\ frames'[k].count = frames[k].count
             /\ frames'[k].table = frames[k].table
             /\ k < Slot => frames'[k].reader = frames[k].reader
  <2>1. frames[k] \in CallFrame
    BY DEF FrameInv, TypeOK
  <2>2. CASE k = Slot
    <3>1. frames'[k] = [frames[k] EXCEPT !.reader = caught]
      BY <1>6, <2>2
    <3> QED BY <1>2, <1>5, <2>1, <2>2, <3>1 DEF CallFrame
  <2>3. CASE k # Slot /\ k = t.frame
    <3>1. frames'[k] = [frames[k] EXCEPT !.reader = t.reader]
      BY <1>6, <2>3
    <3>2. ~(k < Slot)
      BY <1>2, <1>3, <2>3
    <3> QED BY <1>3, <2>1, <3>1, <3>2 DEF CallFrame
  <2>4. CASE k # Slot /\ k # t.frame
    BY <1>6, <2>1, <2>4
  <2> QED BY <2>2, <2>3, <2>4
<1>9. frames' \in [1 .. FrameMax -> CallFrame]
  BY <1>6, <1>8
<1>10. TypeOK'
  BY <1>1, <1>6, <1>7, <1>9 DEF FrameInv, TypeOK
<1>11. FramesNested' /\ Cleared' /\ Room'
  BY <1>1, <1>6, <1>8, <1>9, SameWindows DEF FrameInv, Cleared, LocalsCleared, Room
<1> QED BY <1>10, <1>11 DEF FrameInv

\* An error that nobody catches ends every loop.
LEMMA PropagateInv ==
  ASSUME FrameInv, Running, NEW size \in Nat, Propagate(size)
  PROVE  FrameInv'
<1> DEFINE leaving == {loops[k].slot : k \in 1 .. Len(loops)}
<1>1. /\ tries = <<>> /\ tries' = tries
      /\ frameCount' = frameCount - Len(loops)
      /\ locals' = locals \ LocalsOf(leaving)
      /\ localsTop' = frames[loops[1].slot].base
      /\ frames' = [k \in 1 .. FrameMax |->
                      IF k \in leaving THEN Freed(frames[k]) ELSE frames[k]]
      /\ stackSize' = size /\ loops' = <<>>
  BY DEF Propagate
<1>2. Len(loops) \in Nat \ {0} /\ frameCount = Len(loops)
      /\ \A k \in 1 .. Len(loops) : loops[k].slot = k
      /\ frames[1].base = 0
  <2>1. Len(loops) \in Nat \ {0} /\ 1 \in 1 .. Len(loops)
    BY Current
  <2> QED BY <2>1 DEF FrameInv, FramesNested
<1>3. frameCount' = 0 /\ localsTop' = 0
  BY <1>1, <1>2
<1>4. Cleared'
  <2> SUFFICES ASSUME ParamsFit, NEW i \in locals
               PROVE  i \in LocalsOf(leaving)
    BY <1>1 DEF Cleared, LocalsCleared
  <2>1. i \in 0 .. localsTop - 1
    BY DEF FrameInv, Cleared, LocalsCleared, TypeOK
  <2>2. PICK k \in 1 .. Len(loops) : i \in Window(frames[k])
    BY <2>1 DEF FrameInv, Room
  <2>3. k \in leaving
    BY <1>2
  <2> QED BY <2>2, <2>3 DEF LocalsOf
<1> HIDE DEF leaving
<1>5. ASSUME NEW k \in 1 .. FrameMax
      PROVE  frames'[k] \in CallFrame
  <2>1. frames[k] \in CallFrame
    BY DEF FrameInv, TypeOK
  <2>2. Freed(frames[k]) \in CallFrame
    <3>1. CASE frames[k].table = "owned"
      <4>1. Freed(frames[k]) = [frames[k] EXCEPT !.table = "freed"]
        BY <3>1 DEF Freed
      <4> QED BY <2>1, <4>1 DEF CallFrame
    <3>2. CASE frames[k].table # "owned"
      <4>1. Freed(frames[k]) = [frames[k] EXCEPT !.table = frames[k].table]
        BY <3>2 DEF Freed
      <4> QED BY <2>1, <4>1 DEF CallFrame
    <3> QED BY <3>1, <3>2
  <2> QED BY <1>1, <2>1, <2>2
<1>6. frames' \in [1 .. FrameMax -> CallFrame]
  BY <1>1, <1>5
<1>7. TypeOK'
  <2>1. frameCount' \in 0 .. FrameMax /\ localsTop' \in Nat /\ stackSize' \in Nat
    BY <1>1, <1>3, InterpAssumption
  <2>2. loops' \in Seq([slot : 1 .. FrameMax, floor : Nat])
    BY <1>1
  <2>3. locals' \subseteq Nat
    BY <1>1 DEF FrameInv, TypeOK
  <2> QED BY <1>1, <1>6, <2>1, <2>2, <2>3 DEF FrameInv, TypeOK
<1>8. FramesNested' /\ Cleared' /\ Room'
  BY <1>1, <1>3, <1>4, <1>2 DEF FramesNested, Room
<1> QED BY <1>7, <1>8 DEF FrameInv

\* An error, caught or not.
LEMMA FailInv ==
  ASSUME FrameInv, CaughtLocally, NEW pops \in Nat, Fail(pops)
  PROVE  FrameInv'
<1>1. Running /\ stackSize - pops \in Nat
      /\ (Catch(stackSize - pops) \/ Propagate(stackSize - pops))
  BY DEF Fail, Has, FrameInv, TypeOK
<1> QED BY <1>1, CatchInv, PropagateInv

\* A local of the current function is assigned.
LEMMA StoreLocalInv ==
  ASSUME FrameInv, CaughtLocally, StoreLocal
  PROVE  FrameInv'
<1>1. PICK slot \in 0 .. MaxLocals :
        /\ Running
        /\ IF slot < frames[Slot].count
           THEN /\ locals' = locals \cup {frames[Slot].base + slot}
                /\ UNCHANGED <<frames, frameCount, loops, stackSize, localsTop,
                               tries>>
           ELSE Fail(0)
  BY DEF StoreLocal, Has
<1>2. CASE slot < frames[Slot].count
  <2> DEFINE x == frames[Slot].base + slot
  <2>1. locals' = locals \cup {x}
        /\ UNCHANGED <<frames, frameCount, loops, stackSize, localsTop, tries>>
    BY <1>1, <1>2
  <2>2. x \in 0 .. localsTop - 1
    <3>1. frames[Slot] \in CallFrame /\ localsTop = FrameEnd(frames[Slot])
      BY <1>1, Current
    <3> QED BY <1>2, <3>1, InterpAssumption DEF CallFrame, FrameEnd
  <2> HIDE DEF x
  <2>3. locals' \subseteq Nat
    BY <2>1, <2>2 DEF FrameInv, TypeOK
  <2>4. TypeOK'
    BY <2>1, <2>3 DEF FrameInv, TypeOK
  <2>5. Cleared'
    <3> SUFFICES ASSUME ParamsFit PROVE LocalsCleared'
      BY DEF Cleared
    <3>1. localsTop \in Nat /\ localsTop' = localsTop
          /\ \A i \in locals : i < localsTop
      BY <2>1 DEF FrameInv, TypeOK, Cleared, LocalsCleared
    <3>2. x < localsTop
      BY <2>2, <3>1
    <3> QED BY <2>1, <3>1, <3>2 DEF LocalsCleared
  <2>6. FramesNested' /\ Room'
    BY <2>1 DEF FrameInv, FramesNested, Room
  <2> QED BY <2>4, <2>5, <2>6 DEF FrameInv
<1>3. CASE ~(slot < frames[Slot].count)
  BY <1>1, <1>3, FailInv
<1> QED BY <1>2, <1>3

\* A try region is entered.
LEMMA TryPushInv ==
  ASSUME FrameInv, CaughtLocally, TryPush
  PROVE  FrameInv'
<1> DEFINE e == [frame |-> frameCount, reader |-> Here, stackTop |-> stackSize]
           r == [Here EXCEPT !.regions = Append(@, Here.operands)]
<1>1. Running /\ Here.operands < MaxOperands
  BY DEF TryPush
<1>2. CASE Len(tries) >= TryMax
  BY <1>2, FailInv DEF TryPush
<1>3. CASE ~(Len(tries) >= TryMax)
  <2>1. /\ tries' = Append(tries, e)
        /\ frames' = [frames EXCEPT ![Slot].reader = r]
        /\ UNCHANGED <<frameCount, loops, stackSize, locals, localsTop>>
    BY <1>3 DEF TryPush
  <2>2. Here \in Reader /\ Slot \in 1 .. FrameMax /\ frameCount = Slot
    BY <1>1, Current
  <2>3. r \in Reader
    <3>1. Append(Here.regions, Here.operands) \in Seq(0 .. MaxOperands)
      BY <2>2, AppendProperties DEF Reader
    <3> QED BY <2>2, <3>1 DEF Reader
  <2>4. e \in TryEntry
    BY <2>2 DEF TryEntry, FrameInv, TypeOK
  <2>5. e.reader.operands < MaxOperands
    BY <1>1
  <2> HIDE DEF e, r
  <2>6. /\ tries \in Seq(TryEntry) /\ Len(tries) \in Nat
        /\ tries' \in Seq(TryEntry) /\ Len(tries') = Len(tries) + 1
        /\ \A i \in 1 .. Len(tries) : tries'[i] = tries[i]
        /\ tries'[Len(tries) + 1] = e
    BY <2>1, <2>4, AppendProperties DEF FrameInv, TypeOK
  <2>7. Len(tries') <= TryMax
    BY <1>3, <2>6, InterpAssumption
  <2>8. \A i \in 1 .. Len(tries') : tries'[i].reader.operands < MaxOperands
    BY <2>5, <2>6 DEF FrameInv, Room
  <2>9. /\ frames' \in [1 .. FrameMax -> CallFrame]
        /\ \A k \in 1 .. FrameMax :
             /\ frames'[k].base = frames[k].base
             /\ frames'[k].count = frames[k].count
             /\ frames'[k].table = frames[k].table
             /\ k < Slot => frames'[k].reader = frames[k].reader
    BY <1>1, <2>1, <2>3, SetReader
  <2>10. TypeOK'
    BY <2>1, <2>6, <2>7, <2>9 DEF FrameInv, TypeOK
  <2>11. FramesNested' /\ Cleared' /\ Room'
    BY <1>1, <2>1, <2>8, <2>9, SameWindows DEF FrameInv, Cleared, LocalsCleared, Room
  <2> QED BY <2>10, <2>11 DEF FrameInv
<1> QED BY <1>2, <1>3

\* A try region is left at its end.
LEMMA TryPopInv ==
  ASSUME FrameInv, TryPop
  PROVE  FrameInv'
<1> DEFINE r == [Here EXCEPT !.regions = ButLast(@)]
<1>1. /\ Running /\ Here.regions # <<>>
      /\ tries' = IF tries = <<>> THEN tries ELSE ButLast(tries)
      /\ frames' = [frames EXCEPT ![Slot].reader = r]
      /\ UNCHANGED <<frameCount, loops, stackSize, locals, localsTop>>
  BY DEF TryPop
<1>2. Here \in Reader
  BY <1>1, Current
<1>3. r \in Reader
  <2>1. ButLast(Here.regions) \in Seq(0 .. MaxOperands)
    BY <1>1, <1>2, LastOfSeq DEF Reader
  <2> QED BY <1>2, <2>1 DEF Reader
<1> HIDE DEF r
<1>4. /\ tries' \in Seq(TryEntry) /\ Len(tries') <= TryMax
      /\ \A i \in 1 .. Len(tries') : tries'[i].reader.operands < MaxOperands
  <2>1. tries \in Seq(TryEntry) /\ Len(tries) <= TryMax
        /\ \A i \in 1 .. Len(tries) : tries[i].reader.operands < MaxOperands
    BY DEF FrameInv, TypeOK, Room
  <2>2. CASE tries = <<>>
    BY <1>1, <2>1, <2>2
  <2>3. CASE tries # <<>>
    <3>1. /\ Len(tries) \in Nat \ {0}
          /\ ButLast(tries) \in Seq(TryEntry)
          /\ Len(ButLast(tries)) = Len(tries) - 1
          /\ \A i \in 1 .. Len(tries) - 1 : ButLast(tries)[i] = tries[i]
      BY <2>1, <2>3, LastOfSeq
    <3>2. tries' = ButLast(tries)
      BY <1>1, <2>3
    <3>3. Len(tries') <= TryMax
      BY <2>1, <3>1, <3>2, InterpAssumption
    <3> QED BY <2>1, <3>1, <3>2, <3>3
  <2> QED BY <2>2, <2>3
<1>5. /\ frames' \in [1 .. FrameMax -> CallFrame]
      /\ \A k \in 1 .. FrameMax :
           /\ frames'[k].base = frames[k].base
           /\ frames'[k].count = frames[k].count
           /\ frames'[k].table = frames[k].table
           /\ k < Slot => frames'[k].reader = frames[k].reader
  BY <1>1, <1>3, SetReader
<1>6. TypeOK'
  BY <1>1, <1>4, <1>5 DEF FrameInv, TypeOK
<1>7. FramesNested' /\ Cleared' /\ Room'
  BY <1>1, <1>4, <1>5, SameWindows DEF FrameInv, Cleared, LocalsCleared, Room
<1> QED BY <1>6, <1>7 DEF FrameInv

-----------------------------------------------------------------------------

\* A frame is pushed on top of n running ones, its window right above theirs.
\* kept is what the caller's reader becomes; a run has no caller.
LEMMA PushInv ==
  ASSUME FrameInv, NEW n \in Nat, n = Len(loops), n < FrameMax,
         NEW count \in 0 .. MaxLocals,
         NEW kept \in [1 .. FrameMax -> CallFrame],
         \A k \in 1 .. FrameMax : /\ kept[k].base = frames[k].base
                                  /\ kept[k].count = frames[k].count
                                  /\ kept[k].table = frames[k].table,
         \A k \in 1 .. n : kept[k].reader.operands < MaxOperands,
         NEW f \in CallFrame, f.base = localsTop, f.count = count,
         f.table # "freed",
         frames' = [kept EXCEPT ![n + 1] = f],
         frameCount' = n + 1,
         localsTop' = localsTop + count,
         NEW floor \in Nat,
         loops' = Append(loops, [slot |-> n + 1, floor |-> floor]),
         stackSize' \in Nat,
         locals' \subseteq Nat,
         ParamsFit => locals' \subseteq 0 .. localsTop + count - 1,
         tries' = tries
  PROVE  FrameInv'
<1>1. /\ localsTop \in Nat /\ count \in Nat /\ MaxLocals \in Nat
      /\ FrameMax \in Nat /\ n + 1 \in 1 .. FrameMax
  BY InterpAssumption DEF FrameInv, TypeOK
<1>2. /\ loops' \in Seq([slot : 1 .. FrameMax, floor : Nat])
      /\ Len(loops') = n + 1
      /\ \A k \in 1 .. n : loops'[k] = loops[k]
      /\ loops'[n + 1] = [slot |-> n + 1, floor |-> floor]
  <2>1. [slot |-> n + 1, floor |-> floor] \in [slot : 1 .. FrameMax, floor : Nat]
    BY <1>1
  <2> QED BY <2>1, AppendProperties DEF FrameInv, TypeOK
<1>3. /\ frames' \in [1 .. FrameMax -> CallFrame]
      /\ frames'[n + 1] = f
      /\ \A k \in 1 .. n :
           /\ FrameEnd(frames'[k]) = FrameEnd(frames[k])
           /\ Window(frames'[k]) = Window(frames[k])
           /\ frames'[k].base = frames[k].base
           /\ frames'[k].table = frames[k].table
           /\ frames'[k].reader.operands < MaxOperands
  BY <1>1 DEF FrameEnd, Window
<1>4. localsTop <= n * MaxLocals /\ (n = 0 => localsTop = 0)
      /\ (n # 0 => localsTop = FrameEnd(frames[n]))
  <2>1. CASE n = 0
    <3>1. loops = <<>>
      <4>1. loops \in Seq([slot : 1 .. FrameMax, floor : Nat]) /\ Len(loops) = 0
        BY <2>1 DEF FrameInv, TypeOK
      <4> QED BY <4>1
    <3>2. localsTop = 0
      BY <3>1 DEF FrameInv, FramesNested
    <3> QED BY <1>1, <2>1, <3>2
  <2>2. CASE n # 0
    <3>1. n \in 1 .. Len(loops) /\ loops # <<>>
      BY <2>2
    <3>2. localsTop = FrameEnd(frames[n])
      BY <3>1 DEF FrameInv, FramesNested
    <3>3. FrameEnd(frames[n]) <= n * MaxLocals
      BY <3>1 DEF FrameInv, Room
    <3> QED BY <2>2, <3>2, <3>3
  <2> QED BY <2>1, <2>2
<1>5. localsTop' \in Nat /\ localsTop' <= (n + 1) * MaxLocals
      /\ localsTop' = FrameEnd(f)
  <2> DEFINE p == n * MaxLocals
             q == (n + 1) * MaxLocals
  <2>1. p \in Nat /\ q = p + MaxLocals /\ localsTop <= p
    BY <1>1, <1>4
  <2>2. localsTop' = FrameEnd(f)
    BY DEF FrameEnd
  <2> HIDE DEF p, q
  <2>3. localsTop' \in Nat /\ localsTop' <= q
    BY <1>1, <2>1
  <2> QED BY <2>2, <2>3 DEF q
<1>6. TypeOK'
  BY <1>1, <1>2, <1>3, <1>5 DEF FrameInv, TypeOK
<1>7. Cleared'
  BY <1>1 DEF Cleared, LocalsCleared
<1>8. FramesNested'
  <2>1. frameCount' = Len(loops') /\ loops' # <<>>
    BY <1>2
  <2>2. ASSUME NEW k \in 1 .. Len(loops')
        PROVE  /\ loops'[k].slot = k
               /\ frames'[k].table # "freed"
               /\ frames'[k].base = IF k = 1 THEN 0 ELSE FrameEnd(frames'[k - 1])
    <3>1. CASE k \in 1 .. n
      <4>1. /\ loops[k].slot = k /\ frames[k].table # "freed"
            /\ frames[k].base = IF k = 1 THEN 0 ELSE FrameEnd(frames[k - 1])
        BY <3>1 DEF FrameInv, FramesNested
      <4>2. k # 1 => k - 1 \in 1 .. n
        BY <3>1
      <4> QED BY <1>2, <1>3, <3>1, <4>1, <4>2
    <3>2. CASE k = n + 1
      <4>1. k # 1 => k - 1 = n /\ n \in 1 .. n
        BY <3>2
      <4>2. k = 1 => n = 0
        BY <3>2
      <4> QED BY <1>2, <1>3, <1>4, <3>2, <4>1, <4>2
    <3>3. k \in 1 .. n \/ k = n + 1
      BY <1>2
    <3> QED BY <3>1, <3>2, <3>3
  <2>3. localsTop' = FrameEnd(frames'[Len(loops')])
    BY <1>2, <1>3, <1>5
  <2> QED BY <2>1, <2>2, <2>3 DEF FramesNested
<1>9. Room'
  <2>1. ASSUME NEW k \in 1 .. Len(loops')
        PROVE  FrameEnd(frames'[k]) <= k * MaxLocals
    <3>1. CASE k \in 1 .. n
      <4>1. FrameEnd(frames[k]) <= k * MaxLocals
        BY <3>1 DEF FrameInv, Room
      <4> QED BY <1>3, <3>1, <4>1
    <3>2. CASE k = n + 1
      BY <1>3, <1>5, <3>2
    <3>3. k \in 1 .. n \/ k = n + 1
      BY <1>2
    <3> QED BY <3>1, <3>2, <3>3
  <2>2. ASSUME NEW i \in 0 .. localsTop' - 1
        PROVE  \E k \in 1 .. Len(loops') : i \in Window(frames'[k])
    <3>1. CASE i < localsTop
      <4>1. PICK k \in 1 .. n : i \in Window(frames[k])
        BY <1>1, <3>1 DEF FrameInv, Room
      <4>2. k \in 1 .. Len(loops') /\ i \in Window(frames'[k])
        BY <1>2, <1>3, <4>1
      <4> QED BY <4>2
    <3>2. CASE ~(i < localsTop)
      <4>1. i \in Window(f)
        BY <1>1, <3>2 DEF Window, FrameEnd
      <4>2. n + 1 \in 1 .. Len(loops') /\ i \in Window(frames'[n + 1])
        BY <1>2, <1>3, <4>1
      <4> QED BY <4>2
    <3> QED BY <3>1, <3>2
  <2>3. \A k \in 1 .. Len(loops') - 1 : frames'[k].reader.operands < MaxOperands
    BY <1>2, <1>3
  <2> QED BY <2>1, <2>2, <2>3 DEF FrameInv, Room
<1> QED BY <1>6, <1>7, <1>8, <1>9 DEF FrameInv

\* The host runs a chunk.
LEMMA RunInv ==
  ASSUME FrameInv, NEW count \in 0 .. MaxLocals, Run(count)
  PROVE  FrameInv'
<1> DEFINE f == [base |-> localsTop, count |-> count, table |-> "shared",
                 reader |-> Start]
<1>1. /\ loops = <<>> /\ ~FramesFull
      /\ frameCount' = frameCount + 1
      /\ frames' = [frames EXCEPT ![frameCount + 1] = f]
      /\ localsTop' = localsTop + count
      /\ locals' = locals \ (localsTop .. localsTop + count - 1)
      /\ loops' = <<[slot |-> frameCount + 1, floor |-> stackSize]>>
      /\ UNCHANGED <<stackSize, tries>>
  BY DEF Run, Running
<1>2. /\ Len(loops) = 0 /\ frameCount = 0 /\ 0 < FrameMax
  BY <1>1, InterpAssumption DEF FrameInv, FramesNested
<1>3. loops' = Append(loops, [slot |-> 0 + 1, floor |-> stackSize])
  BY <1>1, <1>2
<1>4. f \in CallFrame
  BY InterpAssumption DEF FrameInv, TypeOK, CallFrame, Reader, Start
<1>5. /\ locals' \subseteq Nat
      /\ ParamsFit => locals' \subseteq 0 .. localsTop + count - 1
  <2>1. localsTop \in Nat /\ count \in Nat /\ \A i \in locals : i \in Nat
    BY InterpAssumption DEF FrameInv, TypeOK
  <2>2. ParamsFit => \A i \in locals : i < localsTop
    BY DEF FrameInv, Cleared, LocalsCleared
  <2> QED BY <1>1, <2>1, <2>2
<1>6. /\ f.base = localsTop /\ f.count = count /\ f.table # "freed"
  OBVIOUS
<1> HIDE DEF f
<1>7. frames \in [1 .. FrameMax -> CallFrame] /\ stackSize \in Nat
  BY DEF FrameInv, TypeOK
<1> DEFINE n == Len(loops)
<1>8. /\ n \in Nat /\ n = Len(loops) /\ n < FrameMax
      /\ frameCount' = n + 1 /\ frames' = [frames EXCEPT ![n + 1] = f]
      /\ loops' = Append(loops, [slot |-> n + 1, floor |-> stackSize])
      /\ localsTop' = localsTop + count
      /\ stackSize' \in Nat /\ tries' = tries
      /\ \A k \in 1 .. n : frames[k].reader.operands < MaxOperands
  BY <1>1, <1>2, <1>3, <1>7
<1> HIDE DEF n
<1> QED BY ONLY FrameInv, <1>4, <1>5, <1>6, <1>7, <1>8,
                count \in 0 .. MaxLocals, PushInv

\* A function calls another.
LEMMA CallFunctionInv ==
  ASSUME FrameInv, NEW args \in Nat, NEW params \in Nat,
         NEW count \in 0 .. MaxLocals, CallFunction(args, params, count)
  PROVE  FrameInv'
<1> DEFINE n == Len(loops)
           f == [base |-> localsTop, count |-> count, table |-> "owned",
                 reader |-> Start]
           r == [Here EXCEPT !.operands = @ - (args + 1)]
           kept == [frames EXCEPT ![Slot].reader = r]
           floor == stackSize - (args + 1)
<1>1. /\ Running /\ ~FramesFull
      /\ Here.operands - (args + 1) >= Kept(Here) /\ stackSize >= args + 1
      /\ frameCount' = frameCount + 1
      /\ frames' = [frames EXCEPT ![Slot].reader = r, ![frameCount + 1] = f]
      /\ localsTop' = localsTop + count
      /\ locals' = (locals \ (localsTop .. localsTop + count - 1))
                     \cup (localsTop .. localsTop + params - 1)
      /\ ParamsFit => params <= count
      /\ loops' = Append(loops, [slot |-> frameCount + 1, floor |-> floor])
      /\ stackSize' = floor /\ tries' = tries
  BY InterpAssumption DEF CallFunction, Has, ParamsFit
<1>2. /\ n \in Nat \ {0} /\ Slot = n /\ frameCount = n /\ Slot \in 1 .. FrameMax
      /\ Here \in Reader /\ Kept(Here) \in Nat
  BY <1>1, Current
<1>3. n < FrameMax
  BY <1>1, <1>2, InterpAssumption DEF FramesFull
<1>4. floor \in Nat
  BY <1>1 DEF FrameInv, TypeOK
<1>5. f \in CallFrame /\ f.base = localsTop /\ f.count = count /\ f.table # "freed"
  BY InterpAssumption DEF FrameInv, TypeOK, CallFrame, Reader, Start
<1>6. r \in Reader /\ r.operands < MaxOperands
  <2>1. /\ Here.operands - (args + 1) \in 0 .. MaxOperands
        /\ Here.operands - (args + 1) < MaxOperands
    <3> DEFINE x == Here.operands
    <3>1. x \in 0 .. MaxOperands /\ x - (args + 1) >= Kept(Here)
      BY <1>1, <1>2 DEF Reader
    <3> HIDE DEF x
    <3>2. x - (args + 1) \in 0 .. MaxOperands /\ x - (args + 1) < MaxOperands
      BY <1>2, <3>1, InterpAssumption
    <3> QED BY <3>2 DEF x
  <2>2. r \in Reader /\ r.operands = Here.operands - (args + 1)
    BY <1>2, <2>1 DEF Reader
  <2> QED BY <2>1, <2>2
<1>7. /\ locals' \subseteq Nat
      /\ ParamsFit => locals' \subseteq 0 .. localsTop + count - 1
  <2>1. localsTop \in Nat /\ count \in Nat /\ \A i \in locals : i \in Nat
    BY InterpAssumption DEF FrameInv, TypeOK
  <2>2. \A i \in localsTop .. localsTop + params - 1 :
          i \in Nat /\ (ParamsFit => i \in 0 .. localsTop + count - 1)
    BY <1>1, <2>1
  <2>3. ParamsFit => \A i \in locals : i \in 0 .. localsTop + count - 1
    BY <2>1 DEF FrameInv, Cleared, LocalsCleared
  <2> QED BY <1>1, <2>1, <2>2, <2>3
<1> HIDE DEF f, r, floor
<1>8. frames \in [1 .. FrameMax -> CallFrame]
  BY DEF FrameInv, TypeOK
<1>9. kept = [frames EXCEPT ![Slot] = [frames[Slot] EXCEPT !.reader = r]]
  BY <1>2, <1>8
<1>10. [frames[Slot] EXCEPT !.reader = r] \in CallFrame
  BY <1>2, <1>6, <1>8 DEF CallFrame
<1>11. /\ kept \in [1 .. FrameMax -> CallFrame]
       /\ kept[Slot].reader = r
  BY <1>2, <1>6, <1>8, <1>9, <1>10 DEF CallFrame
<1>12. ASSUME NEW k \in 1 .. FrameMax
       PROVE  /\ kept[k].base = frames[k].base
              /\ kept[k].count = frames[k].count
              /\ kept[k].table = frames[k].table
              /\ k # Slot => kept[k] = frames[k]
  BY <1>2, <1>8, <1>9 DEF CallFrame
<1>13. ASSUME NEW k \in 1 .. n
       PROVE  kept[k].reader.operands < MaxOperands
  <2>1. CASE k = n
    BY <1>2, <1>6, <1>11, <2>1
  <2>2. CASE k # n
    <3>1. k \in 1 .. n - 1 /\ k \in 1 .. FrameMax
      BY <1>2, <2>2, InterpAssumption
    <3>2. frames[k].reader.operands < MaxOperands
      BY <3>1 DEF FrameInv, Room
    <3> QED BY <1>2, <1>12, <2>2, <3>1, <3>2
  <2> QED BY <2>1, <2>2
<1>14. frames' = [kept EXCEPT ![n + 1] = f]
  BY <1>1, <1>2
<1> HIDE DEF kept
<1>15. n \in Nat /\ n = Len(loops) /\ frameCount' = n + 1
       /\ loops' = Append(loops, [slot |-> n + 1, floor |-> floor])
       /\ stackSize' \in Nat
       /\ localsTop' = localsTop + count /\ tries' = tries
  BY <1>1, <1>2, <1>4
<1>16. kept \in [1 .. FrameMax -> CallFrame]
       /\ \A k \in 1 .. FrameMax : /\ kept[k].base = frames[k].base
                                   /\ kept[k].count = frames[k].count
                                   /\ kept[k].table = frames[k].table
  BY <1>11, <1>12
<1> HIDE DEF n
<1> QED BY ONLY FrameInv, <1>3, <1>4, <1>5, <1>7, <1>13, <1>14, <1>15, <1>16,
                count \in 0 .. MaxLocals, PushInv

\* Deleting the symbol table of a frame changes nothing else in it.
LEMMA FreedFrame ==
  ASSUME NEW f \in CallFrame
  PROVE  /\ Freed(f) \in CallFrame
         /\ Freed(f).base = f.base /\ Freed(f).count = f.count
         /\ Freed(f).reader = f.reader
<1>1. CASE f.table = "owned"
  <2>1. Freed(f) = [f EXCEPT !.table = "freed"]
    BY <1>1 DEF Freed
  <2> QED BY <2>1 DEF CallFrame
<1>2. CASE f.table # "owned"
  <2>1. Freed(f) = [f EXCEPT !.table = f.table]
    BY <1>2 DEF Freed
  <2> QED BY <2>1 DEF CallFrame
<1> QED BY <1>1, <1>2

\* The innermost loop returns: its frame goes, and its caller's is on top.
LEMMA LeaveInv ==
  ASSUME FrameInv, NEW popped \in Nat, Leave(popped)
  PROVE  FrameInv'
<1> DEFINE n == Len(loops)
           size == stackSize - popped
           freed == [frames EXCEPT ![Slot] = Freed(frames[Slot])]
           caller == loops[n - 1].slot
<1>1. /\ Running /\ stackSize >= popped
      /\ frameCount' = frameCount - 1
      /\ locals' = locals \ LocalsOf({Slot})
      /\ localsTop' = frames[Slot].base
      /\ loops' = ButLast(loops)
      /\ tries' = tries
      /\ IF n = 1
         THEN stackSize' = size /\ frames' = freed
         ELSE /\ stackSize' = size + 1
              /\ frames' = [freed EXCEPT ![caller].reader.operands = @ + 1]
  BY DEF Leave, Has, EndLoop, GiveBack
<1>2. /\ n \in Nat \ {0} /\ Slot = n /\ frameCount = n /\ n \in 1 .. FrameMax
      /\ frames[n] \in CallFrame /\ localsTop = FrameEnd(frames[n])
      /\ n <= FrameMax
  BY <1>1, Current, InterpAssumption
<1>3. frames \in [1 .. FrameMax -> CallFrame] /\ size \in Nat /\ stackSize' \in Nat
  BY <1>1 DEF FrameInv, TypeOK
<1>4. /\ loops' \in Seq([slot : 1 .. FrameMax, floor : Nat])
      /\ Len(loops') = n - 1
      /\ \A k \in 1 .. n - 1 : loops'[k] = loops[k]
  BY <1>1, LastOfSeq DEF FrameInv, TypeOK, Running
<1>5. freed \in [1 .. FrameMax -> CallFrame]
  BY <1>2, <1>3, FreedFrame
<1>6. \A k \in 1 .. FrameMax :
        k # n => freed[k] = frames[k]
  BY <1>2, <1>3
<1> HIDE DEF freed, size
<1>7. /\ frames' \in [1 .. FrameMax -> CallFrame]
      /\ \A k \in 1 .. n - 1 :
           /\ frames'[k].base = frames[k].base
           /\ frames'[k].count = frames[k].count
           /\ frames'[k].table = frames[k].table
           /\ k # n - 1 => frames'[k].reader = frames[k].reader
  <2>1. CASE n = 1
    <3>1. frames' = freed
      BY <1>1, <2>1
    <3> QED BY <1>5, <2>1, <3>1
  <2>2. CASE n # 1
    <3> DEFINE m == n - 1
    <3>1. m \in 1 .. FrameMax /\ m \in 1 .. n /\ m # n /\ m \in 1 .. n - 1
      BY <1>2, <2>2, InterpAssumption
    <3>2. caller = m
      BY <3>1 DEF FrameInv, FramesNested
    <3>3. freed[m] = frames[m] /\ frames[m] \in CallFrame
      BY <1>3, <1>6, <3>1
    <3> DEFINE r == [frames[m].reader EXCEPT !.operands = @ + 1]
    <3>4. r \in Reader
      <4>1. frames[m].reader \in Reader /\ frames[m].reader.operands < MaxOperands
        BY <3>1, <3>3 DEF CallFrame, FrameInv, Room
      <4>2. frames[m].reader.operands + 1 \in 0 .. MaxOperands
        BY <4>1, InterpAssumption DEF Reader
      <4> QED BY <4>1, <4>2 DEF Reader
    <3>5. frames' = [freed EXCEPT ![m] = [freed[m] EXCEPT !.reader = r]]
      <4>1. frames' = [freed EXCEPT ![m].reader.operands = @ + 1]
        BY <1>1, <2>2, <3>2
      <4>2. freed[m].reader = frames[m].reader
        BY <3>3
      <4> QED BY <4>1, <4>2
    <3> HIDE DEF r
    <3>6. [freed[m] EXCEPT !.reader = r] \in CallFrame
      BY <3>3, <3>4 DEF CallFrame
    <3>7. frames' \in [1 .. FrameMax -> CallFrame]
      BY <1>5, <3>1, <3>5, <3>6
    <3>8. ASSUME NEW k \in 1 .. n - 1
          PROVE  /\ frames'[k].base = frames[k].base
                 /\ frames'[k].count = frames[k].count
                 /\ frames'[k].table = frames[k].table
                 /\ k # m => frames'[k].reader = frames[k].reader
      <4>1. k \in 1 .. FrameMax /\ k # n /\ frames[k] \in CallFrame
        BY <1>2, <1>3, InterpAssumption
      <4>2. CASE k = m
        <5>1. frames'[k] = [frames[k] EXCEPT !.reader = r]
          BY <1>5, <3>1, <3>3, <3>5, <4>2
        <5> QED BY <4>1, <4>2, <5>1 DEF CallFrame
      <4>3. CASE k # m
        <5>1. frames'[k] = frames[k]
          BY <1>5, <1>6, <3>1, <3>5, <4>1, <4>3
        <5> QED BY <5>1
      <4> QED BY <4>2, <4>3
    <3> QED BY <3>7, <3>8
  <2> QED BY <2>1, <2>2
<1>8. \A k \in 1 .. n - 1 :
        /\ FrameEnd(frames'[k]) = FrameEnd(frames[k])
        /\ Window(frames'[k]) = Window(frames[k])
  BY <1>7 DEF FrameEnd, Window
<1>9. /\ localsTop' = IF n = 1 THEN 0 ELSE FrameEnd(frames[n - 1])
      /\ localsTop' \in Nat
      /\ localsTop' <= localsTop
  <2>1. frames[n].base = IF n = 1 THEN 0 ELSE FrameEnd(frames[n - 1])
    BY <1>2 DEF FrameInv, FramesNested
  <2>2. frames[n].base \in Nat /\ frames[n].count \in Nat
    BY <1>2, InterpAssumption DEF CallFrame
  <2>3. localsTop' = frames[n].base
    BY <1>1, <1>2
  <2>4. frames[n].base <= FrameEnd(frames[n])
    BY <2>2 DEF FrameEnd
  <2> QED BY <1>2, <2>1, <2>2, <2>3, <2>4
<1>10. TypeOK'
  <2>1. frameCount' \in 0 .. FrameMax
    BY <1>1, <1>2, InterpAssumption
  <2> QED BY <1>1, <1>3, <1>4, <1>7, <1>9, <2>1 DEF FrameInv, TypeOK
<1>11. Cleared'
  <2>1. ASSUME ParamsFit, NEW i \in locals'
        PROVE  i < localsTop'
    <3>1. i \in locals /\ i \notin Window(frames[n])
      BY <1>1, <1>2, <2>1 DEF LocalsOf
    <3>2. i \in Nat /\ i < FrameEnd(frames[n])
      BY <1>2, <2>1, <3>1 DEF FrameInv, TypeOK, Cleared, LocalsCleared
    <3> QED BY <1>1, <1>2, <3>1, <3>2, InterpAssumption DEF Window, FrameEnd, CallFrame
  <2> QED BY <2>1 DEF Cleared, LocalsCleared
<1>12. FramesNested'
  <2>1. frameCount' = Len(loops')
    BY <1>1, <1>2, <1>4
  <2>2. ASSUME NEW k \in 1 .. Len(loops')
        PROVE  /\ loops'[k].slot = k
               /\ frames'[k].table # "freed"
               /\ frames'[k].base = IF k = 1 THEN 0 ELSE FrameEnd(frames'[k - 1])
    <3>1. k \in 1 .. n - 1 /\ k \in 1 .. n /\ (k # 1 => k - 1 \in 1 .. n - 1)
      BY <1>2, <1>4
    <3>2. /\ loops[k].slot = k /\ frames[k].table # "freed"
          /\ frames[k].base = IF k = 1 THEN 0 ELSE FrameEnd(frames[k - 1])
      BY <3>1 DEF FrameInv, FramesNested
    <3> QED BY <1>4, <1>7, <1>8, <3>1, <3>2
  <2>3. localsTop' = IF loops' = <<>> THEN 0 ELSE FrameEnd(frames'[Len(loops')])
    <3>1. CASE n = 1
      BY <1>4, <1>9, <3>1
    <3>2. CASE n # 1
      <4>1. n - 1 \in 1 .. n - 1 /\ Len(loops') # 0
        BY <1>2, <1>4, <3>2
      <4> QED BY <1>4, <1>8, <1>9, <3>2, <4>1
    <3> QED BY <3>1, <3>2
  <2> QED BY <2>1, <2>2, <2>3 DEF FramesNested
<1>13. Room'
  <2>1. ASSUME NEW k \in 1 .. Len(loops')
        PROVE  FrameEnd(frames'[k]) <= k * MaxLocals
    <3>1. k \in 1 .. n - 1 /\ k \in 1 .. n
      BY <1>2, <1>4
    <3>2. FrameEnd(frames[k]) <= k * MaxLocals
      BY <3>1 DEF FrameInv, Room
    <3> QED BY <1>8, <3>1, <3>2
  <2>2. ASSUME NEW i \in 0 .. localsTop' - 1
        PROVE  \E k \in 1 .. Len(loops') : i \in Window(frames'[k])
    <3>1. i \in 0 .. localsTop - 1
      BY <1>9 DEF FrameInv, TypeOK
    <3>2. PICK k \in 1 .. n : i \in Window(frames[k])
      BY <3>1 DEF FrameInv, Room
    <3>3. k # n
      BY <1>1, <1>2, <3>2, InterpAssumption DEF Window, CallFrame
    <3>4. k \in 1 .. n - 1 /\ k \in 1 .. Len(loops')
      BY <1>2, <1>4, <3>3
    <3>5. i \in Window(frames'[k])
      BY <1>8, <3>2, <3>4
    <3> QED BY <3>4, <3>5
  <2>3. ASSUME NEW k \in 1 .. Len(loops') - 1
        PROVE  frames'[k].reader.operands < MaxOperands
    <3>1. k \in 1 .. n - 1 /\ k # n - 1
      BY <1>2, <1>4
    <3>2. frames[k].reader.operands < MaxOperands
      BY <3>1 DEF FrameInv, Room
    <3> QED BY <1>7, <3>1, <3>2
  <2>4. \A i \in 1 .. Len(tries') : tries'[i].reader.operands < MaxOperands
    BY <1>1 DEF FrameInv, Room
  <2> QED BY <2>1, <2>2, <2>3, <2>4 DEF Room
<1> QED BY <1>10, <1>11, <1>12, <1>13 DEF FrameInv

\* A frame slot that was never used.
LEMMA UnusedFrame ==
  [base |-> 0, count |-> 0, table |-> "none", reader |-> Start] \in CallFrame
<1>1. Start \in Reader
  BY InterpAssumption DEF Start, Reader
<1> QED BY <1>1, InterpAssumption DEF CallFrame

LEMMA RecreateInv ==
  ASSUME Recreate
  PROVE  FrameInv'
<1>1. TypeOK'
  <2>1. frames' \in [1 .. FrameMax -> CallFrame]
    BY UnusedFrame DEF Recreate
  <2>2. /\ frameCount' \in 0 .. FrameMax /\ localsTop' \in Nat
        /\ Len(tries') <= TryMax
    BY InterpAssumption DEF Recreate
  <2> QED BY <2>1, <2>2 DEF Recreate, TypeOK
<1> QED BY <1>1 DEF Recreate, FrameInv, FramesNested, Cleared, LocalsCleared, Room

-----------------------------------------------------------------------------

LEMMA InitInv ==
  ASSUME Init
  PROVE  FrameInv
<1>1. TypeOK
  <2>1. frames \in [1 .. FrameMax -> CallFrame]
    BY UnusedFrame DEF Init
  <2>2. /\ frameCount \in 0 .. FrameMax /\ localsTop \in Nat
        /\ Len(tries) <= TryMax
    BY InterpAssumption DEF Init
  <2> QED BY <2>1, <2>2 DEF Init, TypeOK
<1> QED BY <1>1 DEF Init, FrameInv, FramesNested, Cleared, LocalsCleared, Room

\* Every opcode but Call and those that end a loop.
LEMMA OperationInv ==
  ASSUME FrameInv, CaughtLocally, Operation
  PROVE  FrameInv'
<1>1. \A pops, pushes \in Nat : Operate(pops, pushes) => FrameInv'
  BY OperateInv
<1>2. \A pops \in Nat : Fail(pops) => FrameInv'
  BY FailInv
<1>3. 0 \in Nat /\ 1 \in Nat /\ 2 \in Nat /\ 3 \in Nat
  OBVIOUS
<1>4. CASE LoadConst \/ LoadVar \/ StoreVar \/ Pop \/ JumpIfFalse
  BY <1>1, <1>2, <1>3, <1>4 DEF LoadConst, LoadVar, StoreVar, Pop, JumpIfFalse
<1>5. CASE \/ Arithmetic \/ Neg \/ Not \/ Equality \/ Order \/ Logic
           \/ ForPrep \/ ForIter
  BY <1>1, <1>2, <1>3, <1>5
     DEF Arithmetic, Neg, Not, Equality, Order, Logic, ForPrep, ForIter
<1>6. CASE IndexGet \/ IndexSet \/ PropertyAccess \/ PropertySet
  BY <1>1, <1>2, <1>3, <1>6 DEF IndexGet, IndexSet, PropertyAccess, PropertySet
<1>7. CASE BuildList
  <2>1. PICK n \in 0 .. MaxOperands : Operate(n, 1)
    BY <1>7 DEF BuildList
  <2>2. n \in Nat
    BY InterpAssumption
  <2> QED BY <1>1, <1>3, <2>1, <2>2
<1>8. CASE LoadLocal
  <2>1. Operate(0, 1) \/ Fail(0)
    BY <1>8 DEF LoadLocal
  <2> QED BY <1>1, <1>2, <1>3, <2>1
<1>9. CASE StoreLocal \/ TryPush \/ TryPop
  BY <1>9, StoreLocalInv, TryPushInv, TryPopInv
<1> QED BY <1>4, <1>5, <1>6, <1>7, <1>8, <1>9 DEF Operation

LEMMA CallInv ==
  ASSUME FrameInv, CaughtLocally, Call
  PROVE  FrameInv'
<1>1. PICK args \in 0 .. MaxArgs :
        \/ CallNative(args)
        \/ \E params \in 0 .. args, count \in 0 .. MaxLocals :
             CallFunction(args, params, count)
        \/ CallOverflow(args)
  BY DEF Call
<1>2. args \in Nat /\ args + 1 \in Nat /\ 1 \in Nat
  BY InterpAssumption
<1>3. CASE CallNative(args)
  <2>1. Operate(args + 1, 1) \/ Fail(args + 1)
    BY <1>3 DEF CallNative
  <2> QED BY <1>2, <2>1, OperateInv, FailInv
<1>4. CASE \E params \in 0 .. args, count \in 0 .. MaxLocals :
             CallFunction(args, params, count)
  BY <1>2, <1>4, CallFunctionInv
<1>5. CASE CallOverflow(args)
  <2>1. Fail(args + 1)
    BY <1>5 DEF CallOverflow
  <2> QED BY <1>2, <2>1, FailInv
<1> QED BY <1>1, <1>3, <1>4, <1>5

LEMMA NextInv ==
  ASSUME FrameInv, CaughtLocally, [Next]_vars
  PROVE  FrameInv'
<1>1. CASE \E count \in 0 .. MaxLocals : Run(count)
  BY <1>1, RunInv
<1>2. CASE Recreate
  BY <1>2, RecreateInv
<1>3. CASE Operation
  BY <1>3, OperationInv
<1>4. CASE Call
  BY <1>4, CallInv
<1>5. CASE Return \/ Halt \/ Break \/ FallOff
  <2>1. Leave(0) \/ Leave(1)
    BY <1>5 DEF Return, Halt, Break, FallOff
  <2> QED BY <2>1, LeaveInv
<1>6. CASE UNCHANGED vars
  BY <1>6 DEF vars, FrameInv, TypeOK, FramesNested, Cleared, LocalsCleared, Room
<1> QED BY <1>1, <1>2, <1>3, <1>4, <1>5, <1>6 DEF Next

\* The inductive invariant of programs in which no caller catches an error of
\* its callee.
LEMMA FrameInvariant ==
  ASSUME CaughtLocally
  PROVE  Spec => []FrameInv
<1>1. Init => FrameInv
  BY InitInv
<1>2. FrameInv /\ [Next]_vars => FrameInv'
  BY NextInv
<1> QED BY <1>1, <1>2, PTL DEF Spec

\* As long as no caller catches an error of its callee, every state is well
\* typed: frames_ and try_stack_ keep to kFrameMax and kTryMax, and the number
\* of frames never drops below 0.
THEOREM InterpTypeCorrect ==
  ASSUME CaughtLocally
  PROVE  Spec => []TypeOK
<1>1. FrameInv => TypeOK
  BY DEF FrameInv
<1> QED BY <1>1, FrameInvariant, PTL

\* As long as no caller catches an error of its callee, the C++ recursion and the
\* frames stay in step and no two functions share a local slot, also where
\* functions end inside try regions (their stale entries catch errors later),
\* leave operands behind or bind more parameters than they have locals.
THEOREM FramesNestedSafe ==
  ASSUME CaughtLocally
  PROVE  Spec => []FramesNested
<1>1. FrameInv => FramesNested
  BY DEF FrameInv
<1> QED BY <1>1, FrameInvariant, PTL

\* As long as, besides, no function binds more parameters than it has locals, no
\* value of an ended function stays in a local slot.
THEOREM LocalsClearedSafe ==
  ASSUME CaughtLocally, ParamsFit
  PROVE  Spec => []LocalsCleared
<1>1. FrameInv => LocalsCleared
  BY DEF FrameInv, Cleared
<1> QED BY <1>1, FrameInvariant, PTL

\* The array locals_ of kLocalsMax slots is written inside its bounds by programs
\* that meet the premises of LocalsClearedSafe and in which kFrameMax frames of
\* the largest function fit into it.  The code checks neither: with 1024 frames
\* and 65536 slots the second says that no max_locals is above 64.
THEOREM LocalsInBounds ==
  ASSUME CaughtLocally, ParamsFit,
         NEW kLocalsMax \in Nat, FrameMax * MaxLocals <= kLocalsMax
  PROVE  Spec => [](localsTop <= kLocalsMax /\ locals \subseteq 0 .. kLocalsMax - 1)
<1>1. FrameInv => localsTop <= kLocalsMax /\ locals \subseteq 0 .. kLocalsMax - 1
  <2> SUFFICES ASSUME FrameInv
               PROVE  localsTop <= kLocalsMax /\ locals \subseteq 0 .. kLocalsMax - 1
    OBVIOUS
  <2> DEFINE n == Len(loops)
  <2>1. n \in Nat /\ n <= FrameMax /\ FrameMax \in Nat /\ MaxLocals \in Nat
        /\ localsTop \in Nat
    BY InterpAssumption DEF FrameInv, TypeOK, FramesNested
  <2>2. localsTop <= n * MaxLocals
    <3>1. CASE loops = <<>>
      BY <2>1, <3>1 DEF FrameInv, FramesNested
    <3>2. CASE loops # <<>>
      <4>1. n \in 1 .. n
        BY <2>1, <3>2 DEF FrameInv, TypeOK
      <4> QED BY <3>2, <4>1 DEF FrameInv, FramesNested, Room
    <3> QED BY <3>1, <3>2
  <2> HIDE DEF n
  <2>3. n * MaxLocals <= FrameMax * MaxLocals /\ n * MaxLocals \in Nat
        /\ FrameMax * MaxLocals \in Nat
    BY <2>1
  <2> DEFINE p == n * MaxLocals
             q == FrameMax * MaxLocals
  <2>4. p \in Nat /\ q \in Nat /\ localsTop <= p /\ p <= q /\ q <= kLocalsMax
    BY <2>2, <2>3
  <2> HIDE DEF p, q
  <2>5. localsTop <= kLocalsMax
    BY <2>1, <2>4
  <2>6. \A i \in locals : i \in Nat /\ i < localsTop
    BY DEF FrameInv, TypeOK, Cleared, LocalsCleared
  <2> QED BY <2>1, <2>5, <2>6
<1> QED BY <1>1, FrameInvariant, PTL

-----------------------------------------------------------------------------
(* The operand stack and the try regions *)

\* The try regions a function is in, before and after a step.
Regions(k) == frames[k].reader.regions
NextRegions(k) == frames'[k].reader.regions

\* A try entry is the reader as it was when the region was entered.
EntryLive(t, open, floor) ==
  /\ t.stackTop = floor + t.reader.operands
  /\ Len(t.reader.regions) < Len(open)
  /\ \A p \in 1 .. Len(t.reader.regions) : t.reader.regions[p] = open[p]
  /\ t.reader.operands = open[Len(t.reader.regions) + 1]

\* Entries lie in the order of the regions they guard.
Inside(t, u) ==
  \/ t.frame < u.frame
  \/ t.frame = u.frame /\ Len(t.reader.regions) < Len(u.reader.regions)

\* TriesLive, with the prefix of the regions spelled out.
EntriesLive ==
  \A i \in 1 .. Len(tries) :
    /\ tries[i].frame \in 1 .. Len(loops)
    /\ EntryLive(tries[i], Regions(tries[i].frame), loops[tries[i].frame].floor)
EntriesOrdered == \A i, j \in 1 .. Len(tries) : i < j => Inside(tries[i], tries[j])
EntriesComplete ==
  \A k \in 1 .. Len(loops) : \A n \in 1 .. Len(Regions(k)) :
    \E i \in 1 .. Len(tries) : tries[i].frame = k /\ Len(tries[i].reader.regions) = n - 1

TriesInv == EntriesLive /\ EntriesOrdered /\ EntriesComplete

NestInv == OperandsNested /\ TriesInv

-----------------------------------------------------------------------------

\* What the types say of frames, loops and try entries.
LEMMA Types ==
  ASSUME FrameInv
  PROVE  /\ Len(loops) \in Nat /\ Len(tries) \in Nat /\ stackSize \in Nat
         /\ FrameMax \in Nat /\ frameCount = Len(loops) /\ Len(loops) <= FrameMax
         /\ \A k \in 1 .. Len(loops) :
              /\ k \in 1 .. FrameMax /\ loops[k].floor \in Nat /\ loops[k].slot = k
         /\ \A k \in 1 .. FrameMax :
              /\ frames[k].reader \in Reader /\ frames[k].reader.operands \in Nat
              /\ Regions(k) \in Seq(0 .. MaxOperands) /\ Len(Regions(k)) \in Nat
         /\ \A i \in 1 .. Len(tries) :
              /\ tries[i] \in TryEntry /\ tries[i].reader \in Reader
              /\ tries[i].frame \in Nat /\ tries[i].stackTop \in Nat
              /\ tries[i].reader.operands \in Nat
              /\ tries[i].reader.regions \in Seq(0 .. MaxOperands)
              /\ Len(tries[i].reader.regions) \in Nat
<1>1. /\ frames \in [1 .. FrameMax -> CallFrame] /\ frameCount \in 0 .. FrameMax
      /\ loops \in Seq([slot : 1 .. FrameMax, floor : Nat]) /\ stackSize \in Nat
      /\ tries \in Seq(TryEntry) /\ FrameMax \in Nat /\ MaxOperands \in Nat
  BY InterpAssumption DEF FrameInv, TypeOK
<1>2. frameCount = Len(loops) /\ \A k \in 1 .. Len(loops) : loops[k].slot = k
  BY DEF FrameInv, FramesNested
<1>3. \A r \in Reader : /\ r.operands \in Nat /\ r.regions \in Seq(0 .. MaxOperands)
                        /\ Len(r.regions) \in Nat
  BY <1>1 DEF Reader
<1>4. \A k \in 1 .. FrameMax : frames[k].reader \in Reader
  BY <1>1 DEF CallFrame
<1>5. \A i \in 1 .. Len(tries) : /\ tries[i] \in TryEntry /\ tries[i].reader \in Reader
                                 /\ tries[i].frame \in Nat /\ tries[i].stackTop \in Nat
  <2> SUFFICES ASSUME NEW i \in 1 .. Len(tries)
               PROVE  /\ tries[i] \in TryEntry /\ tries[i].reader \in Reader
                      /\ tries[i].frame \in Nat /\ tries[i].stackTop \in Nat
    OBVIOUS
  <2>1. tries[i] \in TryEntry
    BY <1>1
  <2> QED BY <1>1, <2>1 DEF TryEntry
<1>6. \A k \in 1 .. Len(loops) : k \in 1 .. FrameMax /\ loops[k].floor \in Nat
  <2> TAKE k \in 1 .. Len(loops)
  <2> DEFINE Loop == [slot : 1 .. FrameMax, floor : Nat]
  <2>1. loops \in Seq(Loop)
    BY <1>1
  <2>2. loops[k] \in Loop
    <3> HIDE DEF Loop
    <3> QED BY <2>1, ElementOfSeq
  <2> QED BY <1>1, <1>2, <2>2
<1> QED BY <1>1, <1>2, <1>3, <1>4, <1>5, <1>6 DEF Regions

\* Entries that are live in this sense are so in the sense of TriesLive.
LEMMA LiveEntries ==
  ASSUME FrameInv, TriesInv
  PROVE  TriesLive
<1>1. ASSUME NEW i \in 1 .. Len(tries)
      PROVE  LET t == tries[i]
                 n == Len(t.reader.regions)
                 open == frames[t.frame].reader.regions
             IN /\ t.frame \in 1 .. Len(loops)
                /\ t.stackTop = loops[t.frame].floor + t.reader.operands
                /\ n < Len(open)
                /\ t.reader.regions = SubSeq(open, 1, n)
                /\ t.reader.operands = open[n + 1]
  <2> DEFINE r == tries[i].reader.regions
             open == Regions(tries[i].frame)
  <2>1. /\ tries[i].frame \in 1 .. Len(loops)
        /\ EntryLive(tries[i], Regions(tries[i].frame), loops[tries[i].frame].floor)
    BY DEF TriesInv, EntriesLive
  <2>2. /\ r \in Seq(0 .. MaxOperands) /\ open \in Seq(0 .. MaxOperands)
        /\ Len(r) \in Nat /\ Len(open) \in Nat
    BY <2>1, Types
  <2>3. Len(r) < Len(open) /\ \A p \in 1 .. Len(r) : r[p] = open[p]
    BY <2>1 DEF EntryLive
  <2> HIDE DEF r, open
  <2>4. r = SubSeq(open, 1, Len(r))
    <3> DEFINE q == SubSeq(open, 1, Len(r))
    <3>1. /\ q \in Seq(0 .. MaxOperands) /\ Len(q) = Len(r)
          /\ \A p \in 1 .. Len(r) : q[p] = open[p]
      <4> DEFINE n == Len(r)
      <4>0. n \in Nat /\ n <= Len(open)
        BY <2>2, <2>3
      <4>1. \A j \in 1 .. n : open[j] \in 0 .. MaxOperands
        <5> SUFFICES ASSUME NEW j \in 1 .. n
                     PROVE  open[j] \in 0 .. MaxOperands
          OBVIOUS
        <5>1. j \in 1 .. Len(open)
          BY <2>2, <4>0
        <5> QED BY ONLY <2>2, <5>1, ElementOfSeq
      <4> HIDE DEF n
      <4>2. /\ SubSeq(open, 1, n) \in Seq(0 .. MaxOperands)
            /\ Len(SubSeq(open, 1, n)) = IF 1 <= n THEN n - 1 + 1 ELSE 0
            /\ \A j \in 1 .. n - 1 + 1 : SubSeq(open, 1, n)[j] = open[1 + j - 1]
        BY <4>0, <4>1, SubSeqProperties
      <4> QED BY <4>0, <4>2 DEF n
    <3> HIDE DEF q
    <3>2. r = q
      BY <2>2, <2>3, <3>1, SeqEqual
    <3> QED BY <3>2 DEF q
  <2> QED BY <2>1, <2>4 DEF EntryLive, Regions, r, open
<1> QED BY <1>1 DEF TriesLive, TriesInv, EntriesOrdered, EntriesComplete, Inside, Regions

-----------------------------------------------------------------------------
(* Steps that leave the loops alone *)

\* Only the reader of the current function changes, with the operand stack.
LEMMA SameNesting ==
  ASSUME FrameInv, Running, OperandsNested, loops' = loops,
         \A k \in 1 .. FrameMax :
           k < Slot => frames'[k].reader.operands = frames[k].reader.operands,
         stackSize' = Inner.floor + frames'[Slot].reader.operands
  PROVE  OperandsNested'
<1>1. Slot = Len(loops) /\ Len(loops) \in Nat /\ Inner = loops[Len(loops)]
      /\ \A k \in 1 .. Len(loops) : k \in 1 .. FrameMax
  BY Current, Types DEF Inner, LastOf
<1> SUFFICES ASSUME NEW k \in 1 .. Len(loops)
             PROVE  loops[k].floor + frames'[k].reader.operands
                      = IF k = Len(loops) THEN stackSize' ELSE loops[k + 1].floor
  BY DEF OperandsNested
<1>2. CASE k = Len(loops)
  BY <1>1, <1>2
<1>3. CASE k # Len(loops)
  BY <1>1, <1>3 DEF OperandsNested
<1> QED BY <1>2, <1>3

\* The operands of the current function are the top of the stack.
LEMMA TopOperands ==
  ASSUME FrameInv, Running, OperandsNested
  PROVE  /\ stackSize = Inner.floor + Here.operands
         /\ Inner.floor \in Nat /\ Here.operands \in Nat
<1>1. Slot = Len(loops) /\ Len(loops) \in Nat \ {0} /\ Inner = loops[Len(loops)]
  BY Current DEF Inner, LastOf
<1>2. Len(loops) \in 1 .. Len(loops)
  BY <1>1
<1> QED BY <1>1, <1>2, Types DEF OperandsNested, Here

\* TriesInv after a step.
LEMMA NextTries ==
  ASSUME \A i \in 1 .. Len(tries') :
           /\ tries'[i].frame \in 1 .. Len(loops')
           /\ EntryLive(tries'[i], NextRegions(tries'[i].frame), loops'[tries'[i].frame].floor),
         \A i, j \in 1 .. Len(tries') : i < j => Inside(tries'[i], tries'[j]),
         \A k \in 1 .. Len(loops') : \A n \in 1 .. Len(NextRegions(k)) :
           \E i \in 1 .. Len(tries') :
             tries'[i].frame = k /\ Len(tries'[i].reader.regions) = n - 1
  PROVE  TriesInv'
<1>1. EntriesLive'
  BY DEF EntriesLive, EntryLive, Regions, NextRegions
<1>2. EntriesOrdered'
  BY DEF EntriesOrdered, Inside
<1>3. EntriesComplete'
  BY DEF EntriesComplete, Regions, NextRegions
<1> QED BY <1>1, <1>2, <1>3 DEF TriesInv

\* No region is entered or left.
LEMMA SameTries ==
  ASSUME FrameInv, TriesInv, tries' = tries, loops' = loops,
         \A k \in 1 .. FrameMax : NextRegions(k) = Regions(k)
  PROVE  TriesInv'
<1>1. \A k \in 1 .. Len(loops) : k \in 1 .. FrameMax
  BY Types
<1>2. EntriesLive'
  <2> SUFFICES ASSUME NEW i \in 1 .. Len(tries)
               PROVE  /\ tries[i].frame \in 1 .. Len(loops)
                      /\ EntryLive(tries[i], NextRegions(tries[i].frame),
                                   loops[tries[i].frame].floor)
    BY DEF EntriesLive, EntryLive, Regions, NextRegions
  <2>1. /\ tries[i].frame \in 1 .. Len(loops)
        /\ EntryLive(tries[i], Regions(tries[i].frame), loops[tries[i].frame].floor)
    BY DEF TriesInv, EntriesLive
  <2> QED BY <1>1, <2>1
<1>3. EntriesOrdered'
  BY DEF TriesInv, EntriesOrdered, Inside
<1>4. EntriesComplete'
  BY <1>1 DEF TriesInv, EntriesComplete, Regions, NextRegions
<1> QED BY <1>2, <1>3, <1>4 DEF TriesInv

-----------------------------------------------------------------------------
(* The innermost try region *)

\* While a function is inside a try region, the last entry is the region's.
LEMMA InnermostEntry ==
  ASSUME FrameInv, Running, TriesInv, Here.regions # <<>>
  PROVE  tries # <<>> /\ LastTry.frame = Slot
<1>1. /\ Slot = Len(loops) /\ Slot \in 1 .. Len(loops) /\ Slot \in 1 .. FrameMax
      /\ Here.regions = Regions(Slot)
  BY Current, Types DEF Here, Regions
<1>2. Regions(Slot) \in Seq(0 .. MaxOperands) /\ Len(Regions(Slot)) \in Nat
  BY <1>1, Types
<1>3. Len(Regions(Slot)) \in 1 .. Len(Regions(Slot))
  BY <1>1, <1>2
<1>4. PICK i \in 1 .. Len(tries) :
        tries[i].frame = Slot /\ Len(tries[i].reader.regions) = Len(Regions(Slot)) - 1
  BY <1>1, <1>3 DEF TriesInv, EntriesComplete
<1>5. Len(tries) \in Nat \ {0} /\ tries # <<>> /\ Len(tries) \in 1 .. Len(tries)
  BY <1>4, Types
<1>6. /\ tries[Len(tries)].frame \in 1 .. Len(loops)
      /\ EntryLive(tries[Len(tries)], Regions(tries[Len(tries)].frame),
                   loops[tries[Len(tries)].frame].floor)
  BY <1>5 DEF TriesInv, EntriesLive
<1>7. i = Len(tries)
  <2> SUFFICES ASSUME i # Len(tries)
               PROVE  FALSE
    OBVIOUS
  <2>1. Inside(tries[i], tries[Len(tries)])
    BY <1>5 DEF TriesInv, EntriesOrdered
  <2>2. /\ tries[Len(tries)].frame = Slot
        /\ Len(tries[i].reader.regions) < Len(tries[Len(tries)].reader.regions)
    BY <1>1, <1>4, <1>6, <2>1, Types DEF Inside
  <2>3. Len(tries[Len(tries)].reader.regions) < Len(Regions(Slot))
    BY <1>6, <2>2 DEF EntryLive
  <2> QED BY <1>2, <1>4, <1>5, <2>2, <2>3, Types
<1> QED BY <1>4, <1>5, <1>7 DEF LastTry, LastOf

\* The last entry, if it is the current function's, is its innermost region's:
\* it remembers the operands below the region and the regions around it.
LEMMA InnermostOpen ==
  ASSUME FrameInv, Running, TriesInv, tries # <<>>, LastTry.frame = Slot
  PROVE  /\ Len(Here.regions) = Len(LastTry.reader.regions) + 1
         /\ LastTry.reader.operands = Kept(Here)
         /\ LastTry.stackTop = Inner.floor + LastTry.reader.operands
         /\ \A p \in 1 .. Len(LastTry.reader.regions) :
              LastTry.reader.regions[p] = Here.regions[p]
<1> DEFINE m == Len(tries)
           t == tries[m]
<1>1. /\ Slot = Len(loops) /\ Slot \in 1 .. Len(loops) /\ Slot \in 1 .. FrameMax
      /\ Here.regions = Regions(Slot) /\ Inner = loops[Slot]
  BY Current, Types DEF Here, Regions, Inner, LastOf
<1>2. m \in Nat \ {0} /\ m \in 1 .. Len(tries) /\ LastTry = t
  <2>1. m \in Nat /\ m # 0
    BY DEF FrameInv, TypeOK
  <2> QED BY <2>1 DEF LastTry, LastOf
<1>3. /\ t.frame = Slot /\ EntryLive(t, Regions(Slot), loops[Slot].floor)
      /\ Len(t.reader.regions) \in Nat
      /\ Regions(Slot) \in Seq(0 .. MaxOperands) /\ Len(Regions(Slot)) \in Nat
  BY <1>1, <1>2, Types DEF TriesInv, EntriesLive
<1>4. Len(Regions(Slot)) \in 1 .. Len(Regions(Slot))
  BY <1>3 DEF EntryLive
<1>5. PICK i \in 1 .. Len(tries) :
        tries[i].frame = Slot /\ Len(tries[i].reader.regions) = Len(Regions(Slot)) - 1
  BY <1>1, <1>4 DEF TriesInv, EntriesComplete
<1>6. i = m
  <2> SUFFICES ASSUME i # m
               PROVE  FALSE
    OBVIOUS
  <2>1. Inside(tries[i], t)
    BY <1>2 DEF TriesInv, EntriesOrdered
  <2>2. Len(tries[i].reader.regions) < Len(t.reader.regions)
    BY <1>1, <1>3, <1>5, <2>1 DEF Inside
  <2>3. Len(t.reader.regions) < Len(Regions(Slot))
    BY <1>3 DEF EntryLive
  <2> QED BY <1>3, <1>5, <2>2, <2>3
<1>7. Len(Regions(Slot)) = Len(t.reader.regions) + 1
  BY <1>3, <1>5, <1>6
<1>8. t.reader.operands = Regions(Slot)[Len(Regions(Slot))]
  BY <1>3, <1>7 DEF EntryLive
<1>9. Regions(Slot) # <<>>
  BY <1>3, <1>4
<1>10. t.reader.operands = Kept(Here)
  BY <1>1, <1>8, <1>9 DEF Kept, LastOf
<1> HIDE DEF m, t
<1> QED BY <1>1, <1>2, <1>3, <1>7, <1>10 DEF EntryLive

\* The innermost region is left, with its entry: by TryPop or by an error.
LEMMA DropTry ==
  ASSUME FrameInv, Running, TriesInv, tries # <<>>, LastTry.frame = Slot,
         tries' = ButLast(tries), loops' = loops,
         \A k \in 1 .. FrameMax : k < Slot => NextRegions(k) = Regions(k),
         NEW left, left = NextRegions(Slot),
         Len(left) = Len(Here.regions) - 1,
         \A p \in 1 .. Len(left) : left[p] = Here.regions[p]
  PROVE  TriesInv'
<1> DEFINE m == Len(tries)
           old == Here.regions
<1>1. /\ Slot = Len(loops) /\ Slot \in 1 .. Len(loops) /\ Slot \in 1 .. FrameMax
      /\ old = Regions(Slot) /\ Len(old) \in Nat /\ Len(loops) \in Nat
      /\ \A k \in 1 .. Len(loops) : k \in 1 .. FrameMax /\ (k = Slot \/ k < Slot)
  BY Current, Types DEF Here, Regions
<1>2. /\ m \in Nat \ {0} /\ LastTry = tries[m]
      /\ Len(tries') = m - 1 /\ \A i \in 1 .. m - 1 : tries'[i] = tries[i]
  <2>1. tries \in Seq(TryEntry)
    BY DEF FrameInv, TypeOK
  <2> QED BY <2>1, LastOfSeq DEF LastTry, LastOf
<1>3. Len(old) = Len(tries[m].reader.regions) + 1 /\ Len(tries[m].reader.regions) \in Nat
  BY <1>2, InnermostOpen, Types
<1>4. ASSUME NEW i \in 1 .. m - 1, tries[i].frame = Slot
      PROVE  Len(tries[i].reader.regions) < Len(left)
  <2>1. i \in 1 .. Len(tries) /\ m \in 1 .. Len(tries) /\ i < m
    BY <1>2
  <2>2. Inside(tries[i], tries[m])
    BY <2>1 DEF TriesInv, EntriesOrdered
  <2> QED BY <1>1, <1>2, <1>3, <1>4, <2>2 DEF Inside
<1> HIDE DEF m, old
<1>5. \A i \in 1 .. m - 1 : /\ tries[i].frame \in 1 .. Len(loops)
                           /\ EntryLive(tries[i], NextRegions(tries[i].frame),
                                        loops[tries[i].frame].floor)
  <2> SUFFICES ASSUME NEW i \in 1 .. m - 1
               PROVE  /\ tries[i].frame \in 1 .. Len(loops)
                      /\ EntryLive(tries[i], NextRegions(tries[i].frame),
                                   loops[tries[i].frame].floor)
    OBVIOUS
  <2>0. i \in 1 .. Len(tries)
    BY <1>2 DEF m
  <2>1. /\ tries[i].frame \in 1 .. Len(loops)
        /\ EntryLive(tries[i], Regions(tries[i].frame), loops[tries[i].frame].floor)
    BY <2>0 DEF TriesInv, EntriesLive
  <2>2. CASE tries[i].frame = Slot
    <3>1. Len(tries[i].reader.regions) \in Nat
      BY <2>0, Types
    <3>2. Len(tries[i].reader.regions) < Len(left) /\ Len(left) = Len(old) - 1
      BY <1>4, <2>2 DEF old
    <3>3. \A p \in 1 .. Len(left) : left[p] = old[p]
      BY DEF old
    <3>a. Len(left) \in Int
      BY <1>1, <3>2
    <3>4. /\ \A p \in 1 .. Len(tries[i].reader.regions) : p \in 1 .. Len(left)
          /\ Len(tries[i].reader.regions) + 1 \in 1 .. Len(left)
      BY ONLY <3>1, <3>2, <3>a
    <3>5. EntryLive(tries[i], old, loops[tries[i].frame].floor)
      BY <1>1, <2>1, <2>2
    <3>6. EntryLive(tries[i], left, loops[tries[i].frame].floor)
      BY <3>2, <3>3, <3>4, <3>5 DEF EntryLive
    <3> QED BY <2>1, <2>2, <3>6
  <2>3. CASE tries[i].frame # Slot
    BY <1>1, <2>1, <2>3
  <2> QED BY <2>2, <2>3
<1>6. \A i, j \in 1 .. m - 1 : i < j => Inside(tries[i], tries[j])
  <2> SUFFICES ASSUME NEW i \in 1 .. m - 1, NEW j \in 1 .. m - 1, i < j
               PROVE  Inside(tries[i], tries[j])
    OBVIOUS
  <2>1. i \in 1 .. Len(tries) /\ j \in 1 .. Len(tries)
    BY <1>2 DEF m
  <2> QED BY <2>1 DEF TriesInv, EntriesOrdered
<1>7. \A k \in 1 .. Len(loops) : \A n \in 1 .. Len(NextRegions(k)) :
        \E i \in 1 .. m - 1 :
          tries[i].frame = k /\ Len(tries[i].reader.regions) = n - 1
  <2> SUFFICES ASSUME NEW k \in 1 .. Len(loops), NEW n \in 1 .. Len(NextRegions(k))
               PROVE  \E i \in 1 .. m - 1 :
                        tries[i].frame = k /\ Len(tries[i].reader.regions) = n - 1
    OBVIOUS
  <2>1. n \in 1 .. Len(Regions(k)) /\ ~ (k = Slot /\ n = Len(old))
    <3>1. CASE k = Slot
      <4>1. Len(NextRegions(k)) = Len(old) - 1 /\ Regions(k) = old
        BY <1>1, <3>1 DEF old
      <4> QED BY <1>1, <4>1
    <3>2. CASE k # Slot
      BY <1>1, <3>2
    <3> QED BY <3>1, <3>2
  <2>2. PICK i \in 1 .. Len(tries) :
          tries[i].frame = k /\ Len(tries[i].reader.regions) = n - 1
    BY <2>1 DEF TriesInv, EntriesComplete
  <2>3. i # m
    <3>1. tries[m].frame = Slot
      BY <1>2
    <3>2. n \in Nat /\ Len(old) = Len(tries[m].reader.regions) + 1
      BY <1>3
    <3> QED BY <1>3, <2>1, <2>2, <3>1, <3>2
  <2>4. i \in 1 .. m - 1
    BY <1>2, <2>3 DEF m
  <2> QED BY <2>2, <2>4
<1>8. /\ \A i \in 1 .. Len(tries') :
           /\ tries'[i].frame \in 1 .. Len(loops')
           /\ EntryLive(tries'[i], NextRegions(tries'[i].frame), loops'[tries'[i].frame].floor)
      /\ \A i, j \in 1 .. Len(tries') : i < j => Inside(tries'[i], tries'[j])
  BY <1>2, <1>5, <1>6
<1>9. \A k \in 1 .. Len(loops') : \A n \in 1 .. Len(NextRegions(k)) :
        \E i \in 1 .. Len(tries') :
          tries'[i].frame = k /\ Len(tries'[i].reader.regions) = n - 1
  <2> SUFFICES ASSUME NEW k \in 1 .. Len(loops), NEW n \in 1 .. Len(NextRegions(k))
               PROVE  \E i \in 1 .. Len(tries') :
                        tries'[i].frame = k /\ Len(tries'[i].reader.regions) = n - 1
    OBVIOUS
  <2>1. PICK i \in 1 .. m - 1 :
          tries[i].frame = k /\ Len(tries[i].reader.regions) = n - 1
    BY <1>7
  <2>2. i \in 1 .. Len(tries') /\ tries'[i] = tries[i]
    BY <1>2
  <2> QED BY <2>1, <2>2
<1> QED BY <1>8, <1>9, NextTries

-----------------------------------------------------------------------------
(* The steps *)

\* A step that gives the current function another reader.
LEMMA NewReader ==
  ASSUME FrameInv, Running, NEW r, frames' = [frames EXCEPT ![Slot].reader = r]
  PROVE  /\ frames'[Slot].reader = r
         /\ \A k \in 1 .. FrameMax : k # Slot => frames'[k] = frames[k]
<1>1. Slot \in 1 .. FrameMax /\ frames \in [1 .. FrameMax -> CallFrame]
      /\ frames[Slot] \in CallFrame
  BY Current DEF FrameInv, TypeOK
<1>2. frames' = [frames EXCEPT ![Slot] = [frames[Slot] EXCEPT !.reader = r]]
  OBVIOUS
<1>3. [frames[Slot] EXCEPT !.reader = r].reader = r
  BY <1>1 DEF CallFrame
<1> QED BY <1>1, <1>2, <1>3

LEMMA OperateNest ==
  ASSUME FrameInv, NestInv, NEW pops \in Nat, NEW pushes \in Nat, Operate(pops, pushes)
  PROVE  NestInv'
<1> DEFINE r == [Here EXCEPT !.operands = Here.operands - pops + pushes]
<1>1. /\ Running /\ stackSize' = stackSize - pops + pushes
      /\ frames' = [frames EXCEPT ![Slot].reader = r]
      /\ loops' = loops /\ tries' = tries
  BY DEF Operate, Has
<1>2. Here \in Reader
  BY <1>1, Current
<1>3. r.operands = Here.operands - pops + pushes /\ r.regions = Here.regions
  BY <1>2 DEF Reader
<1> HIDE DEF r
<1>4. /\ frames'[Slot].reader = r
      /\ \A k \in 1 .. FrameMax : k # Slot => frames'[k] = frames[k]
  BY <1>1, NewReader
<1>5. stackSize = Inner.floor + Here.operands /\ Inner.floor \in Nat /\ Here.operands \in Nat
  BY <1>1, TopOperands DEF NestInv
<1>6. Slot \in 1 .. FrameMax /\ FrameMax \in Nat
  BY <1>1, Current, Types
<1>7. OperandsNested'
  <2>1. stackSize' = Inner.floor + frames'[Slot].reader.operands
    BY <1>1, <1>3, <1>4, <1>5
  <2>2. \A k \in 1 .. FrameMax :
          k < Slot => frames'[k].reader.operands = frames[k].reader.operands
    BY <1>4, <1>6
  <2> QED BY <1>1, <2>1, <2>2, SameNesting DEF NestInv
<1>8. TriesInv'
  <2>1. \A k \in 1 .. FrameMax : NextRegions(k) = Regions(k)
    BY <1>3, <1>4 DEF NextRegions, Regions, Here
  <2> QED BY <1>1, <2>1, SameTries DEF NestInv
<1> QED BY <1>7, <1>8 DEF NestInv

\* The catch block finds its own operands and the message, whatever was above
\* them when the error was raised.
LEMMA CatchNest ==
  ASSUME FrameInv, Tidy, NestInv, NEW pops \in Nat, Has(pops), Catch(stackSize - pops)
  PROVE  NestInv'
<1> DEFINE t == LastTry
           caught == [t.reader EXCEPT !.operands = t.reader.operands + 1]
           gone == t.frame + 1 .. frameCount
<1>1. /\ Running /\ tries # <<>> /\ ~ (t.frame < frameCount)
      /\ tries' = ButLast(tries) /\ loops' = loops
      /\ stackSize' = Truncated(stackSize - pops) + 1
      /\ frames' = [k \in 1 .. FrameMax |->
           LET f == IF k \in gone THEN Freed(frames[k]) ELSE frames[k]
           IN IF k = Slot THEN [f EXCEPT !.reader = caught]
              ELSE IF k = t.frame THEN [f EXCEPT !.reader = t.reader] ELSE f]
  BY DEF Catch, Has, Tidy
<1>2. /\ Slot = Len(loops) /\ Slot \in 1 .. FrameMax /\ frameCount = Slot
      /\ FrameMax \in Nat /\ Here.operands - pops >= Kept(Here) /\ Kept(Here) \in Nat
  BY <1>1, Current, Types DEF Has
<1>3. /\ t \in TryEntry /\ t.reader \in Reader /\ t.frame \in 1 .. Len(loops)
      /\ t.reader.operands \in Nat /\ t.stackTop \in Nat
      /\ t.reader.regions \in Seq(0 .. MaxOperands) /\ Len(t.reader.regions) \in Nat
  <2>1. Len(tries) \in 1 .. Len(tries) /\ t = tries[Len(tries)]
    <3>1. Len(tries) \in Nat /\ Len(tries) # 0
      BY <1>1, Types DEF FrameInv, TypeOK
    <3> QED BY <3>1 DEF LastTry, LastOf
  <2> QED BY <2>1, Types DEF NestInv, TriesInv, EntriesLive
<1>4. t.frame = Slot
  BY <1>1, <1>2, <1>3
<1>5. /\ Len(Here.regions) = Len(t.reader.regions) + 1
      /\ t.reader.operands = Kept(Here)
      /\ t.stackTop = Inner.floor + t.reader.operands
      /\ \A p \in 1 .. Len(t.reader.regions) : t.reader.regions[p] = Here.regions[p]
  BY <1>1, <1>4, InnermostOpen DEF NestInv
<1>6. stackSize = Inner.floor + Here.operands /\ Inner.floor \in Nat /\ Here.operands \in Nat
  BY <1>1, TopOperands DEF NestInv
<1>7. stackSize' = t.stackTop + 1
  <2>1. stackSize - pops >= t.stackTop
    BY <1>2, <1>3, <1>5, <1>6
  <2>2. Truncated(stackSize - pops) = t.stackTop
    BY <1>3, <1>6, <2>1 DEF Truncated
  <2> QED BY <1>1, <2>2
<1>8. caught.operands = t.reader.operands + 1 /\ caught.regions = t.reader.regions
  BY <1>3 DEF Reader
<1>9. /\ frames'[Slot].reader = caught
      /\ \A k \in 1 .. FrameMax : k < Slot => frames'[k] = frames[k]
  <2>1. gone = {}
    BY <1>2, <1>4
  <2>2. frames[Slot] \in CallFrame
    BY <1>1, Current
  <2> HIDE DEF caught, t, gone
  <2>3. frames'[Slot] = [frames[Slot] EXCEPT !.reader = caught]
    BY <1>1, <1>2, <2>1
  <2>4. \A k \in 1 .. FrameMax : k < Slot => frames'[k] = frames[k]
    BY <1>1, <1>2, <1>4, <2>1
  <2> QED BY <2>2, <2>3, <2>4 DEF CallFrame
<1> HIDE DEF caught, t
<1>10. OperandsNested'
  <2>1. stackSize' = Inner.floor + frames'[Slot].reader.operands
    <3>1. frames'[Slot].reader.operands = t.reader.operands + 1
      BY <1>8, <1>9
    <3>2. t.stackTop = Inner.floor + t.reader.operands /\ t.reader.operands \in Nat
      BY <1>3, <1>5
    <3> QED BY ONLY <1>6, <1>7, <3>1, <3>2
  <2> QED BY <1>1, <1>9, <2>1, SameNesting DEF NestInv
<1>11. TriesInv'
  <2>1. NextRegions(Slot) = t.reader.regions
    BY <1>8, <1>9 DEF NextRegions
  <2>2. \A k \in 1 .. FrameMax : k < Slot => NextRegions(k) = Regions(k)
    BY <1>9 DEF NextRegions, Regions
  <2>3. Len(t.reader.regions) = Len(Here.regions) - 1
    BY <1>3, <1>5
  <2> QED BY <1>1, <1>4, <1>5, <2>1, <2>2, <2>3, DropTry DEF NestInv, t
<1> QED BY <1>10, <1>11 DEF NestInv

\* An error that nothing catches ends every function, and no entry is left.
LEMMA PropagateNest ==
  ASSUME NEW size, Propagate(size)
  PROVE  NestInv'
<1>1. loops' = <<>> /\ tries' = <<>>
  BY DEF Propagate
<1>2. Len(loops') = 0 /\ Len(tries') = 0
  BY <1>1
<1>3. TriesInv'
  BY <1>2, NextTries
<1> QED BY <1>2, <1>3 DEF NestInv, OperandsNested

LEMMA FailNest ==
  ASSUME FrameInv, Tidy, NestInv, NEW pops \in Nat, Fail(pops)
  PROVE  NestInv'
BY CatchNest, PropagateNest DEF Fail

LEMMA StoreLocalNest ==
  ASSUME FrameInv, Tidy, NestInv, StoreLocal
  PROVE  NestInv'
<1>1. \/ Running /\ UNCHANGED <<frames, loops, stackSize, tries>>
      \/ Fail(0)
  BY DEF StoreLocal, Has
<1>2. CASE Running /\ UNCHANGED <<frames, loops, stackSize, tries>>
  <2>1. TriesInv'
    BY <1>2, SameTries DEF NestInv, NextRegions, Regions
  <2>2. OperandsNested'
    BY <1>2 DEF NestInv, OperandsNested
  <2> QED BY <2>1, <2>2 DEF NestInv
<1>3. CASE Fail(0)
  BY <1>3, FailNest
<1> QED BY <1>1, <1>2, <1>3

\* The entry remembers the operands below its region.
LEMMA TryPushNest ==
  ASSUME FrameInv, Tidy, NestInv, TryPush
  PROVE  NestInv'
<1> DEFINE m == Len(tries)
           e == [frame |-> frameCount, reader |-> Here, stackTop |-> stackSize]
           r == [Here EXCEPT !.regions = Append(Here.regions, Here.operands)]
           old == Here.regions
           new == Append(Here.regions, Here.operands)
<1>1. CASE Len(tries) >= TryMax
  <2>1. Fail(0)
    BY <1>1 DEF TryPush
  <2> QED BY <2>1, FailNest
<1>2. CASE ~ (Len(tries) >= TryMax)
  <2>1. /\ Running /\ tries' = Append(tries, e)
        /\ frames' = [frames EXCEPT ![Slot].reader = r]
        /\ loops' = loops /\ stackSize' = stackSize
    BY <1>2 DEF TryPush
  <2>2. /\ Slot = Len(loops) /\ Slot \in 1 .. FrameMax /\ frameCount = Slot
        /\ FrameMax \in Nat /\ Here \in Reader /\ Len(loops) \in Nat \ {0}
        /\ Inner = loops[Slot] /\ old = Regions(Slot)
        /\ \A k \in 1 .. Len(loops) : k \in 1 .. FrameMax
    BY <2>1, Current, Types DEF Inner, LastOf, Here, Regions
  <2>3. r.operands = Here.operands /\ r.regions = new
    BY <2>2 DEF Reader
  <2>4. /\ old \in Seq(0 .. MaxOperands) /\ Len(old) \in Nat
        /\ Here.operands \in 0 .. MaxOperands
    BY <2>2 DEF Reader
  <2>5. /\ Len(new) = Len(old) + 1 /\ new[Len(old) + 1] = Here.operands
        /\ \A p \in 1 .. Len(old) : new[p] = old[p]
    BY <2>4
  <2>6. /\ m \in Nat /\ Len(tries') = m + 1 /\ tries'[m + 1] = e
        /\ \A i \in 1 .. m : tries'[i] = tries[i]
    <3>1. tries \in Seq(TryEntry)
      BY DEF FrameInv, TypeOK
    <3> HIDE DEF e
    <3> QED BY <2>1, <3>1
  <2>7. e.frame = Slot /\ e.reader = Here /\ e.stackTop = stackSize
    BY <2>2
  <2> HIDE DEF m, e, r, old, new
  <2>8. /\ frames'[Slot].reader = r
        /\ \A k \in 1 .. FrameMax : k # Slot => frames'[k] = frames[k]
    BY <2>1, NewReader
  <2>9. stackSize = Inner.floor + Here.operands /\ Inner.floor \in Nat
        /\ Here.operands \in Nat
    BY <2>1, TopOperands DEF NestInv
  <2>10. OperandsNested'
    <3>1. stackSize' = Inner.floor + frames'[Slot].reader.operands
      BY <2>1, <2>3, <2>8, <2>9
    <3>2. \A k \in 1 .. FrameMax :
            k < Slot => frames'[k].reader.operands = frames[k].reader.operands
      BY <2>2, <2>8
    <3> QED BY <2>1, <3>1, <3>2, SameNesting DEF NestInv
  <2>11. /\ NextRegions(Slot) = new
         /\ \A k \in 1 .. Len(loops) : k # Slot => NextRegions(k) = Regions(k)
    BY <2>2, <2>3, <2>8 DEF NextRegions, Regions
  <2>12. EntryLive(e, new, loops[Slot].floor)
    BY <2>2, <2>4, <2>5, <2>7, <2>9 DEF EntryLive, old
  <2>13. ASSUME NEW i \in 1 .. m
         PROVE  /\ tries[i].frame \in 1 .. Len(loops)
                /\ EntryLive(tries[i], NextRegions(tries[i].frame),
                             loops[tries[i].frame].floor)
                /\ Inside(tries[i], e)
    <3>1. i \in 1 .. Len(tries)
      BY DEF m
    <3>2. /\ tries[i].frame \in 1 .. Len(loops)
          /\ EntryLive(tries[i], Regions(tries[i].frame), loops[tries[i].frame].floor)
      BY <3>1 DEF NestInv, TriesInv, EntriesLive
    <3>3. CASE tries[i].frame = Slot
      <4>1. EntryLive(tries[i], old, loops[Slot].floor)
            /\ Len(tries[i].reader.regions) \in Nat
        BY <2>2, <3>1, <3>2, <3>3, Types
      <4>2. /\ Len(tries[i].reader.regions) < Len(old)
            /\ Len(tries[i].reader.regions) < Len(new)
            /\ \A p \in 1 .. Len(tries[i].reader.regions) : p \in 1 .. Len(old)
            /\ Len(tries[i].reader.regions) + 1 \in 1 .. Len(old)
        BY <2>4, <2>5, <4>1 DEF EntryLive
      <4>3. EntryLive(tries[i], new, loops[Slot].floor)
        BY <2>5, <4>1, <4>2 DEF EntryLive
      <4>4. Inside(tries[i], e)
        BY <2>7, <3>3, <4>2 DEF Inside, old
      <4> QED BY <2>11, <3>2, <3>3, <4>3, <4>4
    <3>4. CASE tries[i].frame # Slot
      <4>1. Inside(tries[i], e)
        BY <2>2, <2>7, <3>2, <3>4 DEF Inside
      <4> QED BY <2>11, <3>2, <3>4, <4>1
    <3> QED BY <3>3, <3>4
  <2>14. /\ \A i \in 1 .. Len(tries') :
              /\ tries'[i].frame \in 1 .. Len(loops')
              /\ EntryLive(tries'[i], NextRegions(tries'[i].frame),
                           loops'[tries'[i].frame].floor)
         /\ \A i, j \in 1 .. Len(tries') : i < j => Inside(tries'[i], tries'[j])
    <3>1. ASSUME NEW i \in 1 .. Len(tries')
          PROVE  /\ tries'[i].frame \in 1 .. Len(loops')
                 /\ EntryLive(tries'[i], NextRegions(tries'[i].frame),
                              loops'[tries'[i].frame].floor)
      <4>1. CASE i = m + 1
        BY <2>1, <2>2, <2>6, <2>7, <2>11, <2>12, <4>1
      <4>2. CASE i \in 1 .. m
        BY <2>1, <2>6, <2>13, <4>2
      <4> QED BY <2>6, <4>1, <4>2
    <3>2. ASSUME NEW i \in 1 .. Len(tries'), NEW j \in 1 .. Len(tries'), i < j
          PROVE  Inside(tries'[i], tries'[j])
      <4>1. CASE j = m + 1
        BY <2>6, <2>13, <3>2, <4>1
      <4>2. CASE i \in 1 .. Len(tries) /\ j \in 1 .. Len(tries)
        BY <2>6, <3>2, <4>2 DEF NestInv, TriesInv, EntriesOrdered, m
      <4> QED BY <2>6, <3>2, <4>1, <4>2 DEF m
    <3> QED BY <3>1, <3>2
  <2>15. \A k \in 1 .. Len(loops') : \A n \in 1 .. Len(NextRegions(k)) :
           \E i \in 1 .. Len(tries') :
             tries'[i].frame = k /\ Len(tries'[i].reader.regions) = n - 1
    <3> SUFFICES ASSUME NEW k \in 1 .. Len(loops), NEW n \in 1 .. Len(NextRegions(k))
                 PROVE  \E i \in 1 .. Len(tries') :
                          tries'[i].frame = k /\ Len(tries'[i].reader.regions) = n - 1
      BY <2>1
    <3>1. CASE k = Slot /\ n = Len(old) + 1
      <4>1. Len(e.reader.regions) = n - 1 /\ e.frame = k
        BY <2>4, <2>7, <3>1 DEF old
      <4> QED BY <2>6, <4>1
    <3>2. CASE ~ (k = Slot /\ n = Len(old) + 1)
      <4>1. n \in 1 .. Len(Regions(k))
        <5>1. CASE k = Slot
          BY <2>2, <2>4, <2>5, <2>11, <3>2, <5>1
        <5>2. CASE k # Slot
          BY <2>11, <5>2
        <5> QED BY <5>1, <5>2
      <4>2. PICK i \in 1 .. Len(tries) :
              tries[i].frame = k /\ Len(tries[i].reader.regions) = n - 1
        BY <4>1 DEF NestInv, TriesInv, EntriesComplete
      <4>3. i \in 1 .. Len(tries') /\ tries'[i] = tries[i]
        BY <2>6 DEF m
      <4> QED BY <4>2, <4>3
    <3> QED BY <3>1, <3>2
  <2>16. TriesInv'
    BY <2>14, <2>15, NextTries
  <2> QED BY <2>10, <2>16 DEF NestInv
<1> QED BY <1>1, <1>2

LEMMA TryPopNest ==
  ASSUME FrameInv, NestInv, TryPop
  PROVE  NestInv'
<1> DEFINE r == [Here EXCEPT !.regions = ButLast(Here.regions)]
           left == ButLast(Here.regions)
<1>1. /\ Running /\ Here.regions # <<>> /\ loops' = loops /\ stackSize' = stackSize
      /\ tries' = IF tries = <<>> THEN tries ELSE ButLast(tries)
      /\ frames' = [frames EXCEPT ![Slot].reader = r]
  BY DEF TryPop
<1>2. tries # <<>> /\ LastTry.frame = Slot
  BY <1>1, InnermostEntry DEF NestInv
<1>3. /\ Here \in Reader /\ Slot \in 1 .. FrameMax /\ FrameMax \in Nat
  BY <1>1, Current, Types
<1>4. /\ Len(left) = Len(Here.regions) - 1
      /\ \A p \in 1 .. Len(left) : left[p] = Here.regions[p]
  <2>1. Here.regions \in Seq(0 .. MaxOperands)
    BY <1>3 DEF Reader
  <2> QED BY <1>1, <2>1, LastOfSeq
<1>5. r.operands = Here.operands /\ r.regions = left
  BY <1>3 DEF Reader
<1> HIDE DEF r, left
<1>6. /\ frames'[Slot].reader = r
      /\ \A k \in 1 .. FrameMax : k # Slot => frames'[k] = frames[k]
  BY <1>1, NewReader
<1>7. /\ NextRegions(Slot) = left
      /\ \A k \in 1 .. FrameMax : k < Slot => NextRegions(k) = Regions(k)
  BY <1>3, <1>5, <1>6 DEF NextRegions, Regions
<1>8. TriesInv'
  BY <1>1, <1>2, <1>4, <1>7, DropTry DEF NestInv
<1>9. OperandsNested'
  <2>1. stackSize' = Inner.floor + frames'[Slot].reader.operands
    BY <1>1, <1>5, <1>6, TopOperands DEF NestInv
  <2>2. \A k \in 1 .. FrameMax :
          k < Slot => frames'[k].reader.operands = frames[k].reader.operands
    BY <1>3, <1>6
  <2> QED BY <1>1, <2>1, <2>2, SameNesting DEF NestInv
<1> QED BY <1>8, <1>9 DEF NestInv

\* The callee begins above what the caller keeps, in no try region.
LEMMA CallFunctionNest ==
  ASSUME FrameInv, NestInv, NEW args \in Nat, NEW params \in Nat,
         NEW count \in 0 .. MaxLocals, CallFunction(args, params, count)
  PROVE  NestInv'
<1> DEFINE n == Len(loops)
           rest == stackSize - (args + 1)
           r == [Here EXCEPT !.operands = Here.operands - (args + 1)]
           f == [base |-> localsTop, count |-> count, table |-> "owned", reader |-> Start]
<1>1. /\ Running /\ ~ FramesFull /\ Here.operands - (args + 1) >= Kept(Here)
      /\ frames' = [frames EXCEPT ![Slot].reader = r, ![frameCount + 1] = f]
      /\ loops' = Append(loops, [slot |-> frameCount + 1, floor |-> rest])
      /\ stackSize' = rest /\ tries' = tries
  BY DEF CallFunction, Has
<1>2. /\ n \in Nat \ {0} /\ Slot = n /\ frameCount = n /\ Slot \in 1 .. FrameMax
      /\ FrameMax \in Nat /\ n < FrameMax /\ Inner = loops[n]
      /\ Here \in Reader /\ frames[Slot] \in CallFrame
      /\ \A k \in 1 .. n : k \in 1 .. FrameMax
  <2>1. n < FrameMax
    BY <1>1, Current, Types DEF FramesFull
  <2> QED BY <1>1, <2>1, Current, Types DEF Inner, LastOf
<1>3. /\ r.operands = Here.operands - (args + 1) /\ r.regions = Here.regions
      /\ f.reader.operands = 0 /\ f.reader.regions = <<>>
  BY <1>2 DEF Reader, Start
<1>4. stackSize = Inner.floor + Here.operands /\ Inner.floor \in Nat /\ Here.operands \in Nat
  BY <1>1, TopOperands DEF NestInv
<1>5. /\ Len(loops') = n + 1 /\ loops'[n + 1].floor = rest
      /\ \A k \in 1 .. n : loops'[k] = loops[k]
  <2> DEFINE Loop == [slot : 1 .. FrameMax, floor : Nat]
             new == [slot |-> frameCount + 1, floor |-> rest]
  <2>1. loops \in Seq(Loop)
    BY DEF FrameInv, TypeOK
  <2>2. new.floor = rest
    OBVIOUS
  <2> HIDE DEF Loop, new
  <2>3. /\ Len(Append(loops, new)) = n + 1 /\ Append(loops, new)[n + 1] = new
        /\ \A k \in 1 .. n : Append(loops, new)[k] = loops[k]
    BY <1>2, <2>1
  <2> QED BY <1>1, <2>2, <2>3 DEF new
<1>6. /\ frames'[n + 1] = f /\ frames'[n].reader = r
      /\ \A k \in 1 .. n : k # n => frames'[k] = frames[k]
  <2>1. frames \in [1 .. FrameMax -> CallFrame]
    BY DEF FrameInv, TypeOK
  <2>2. frames' = [[frames EXCEPT ![n] = [frames[n] EXCEPT !.reader = r]] EXCEPT ![n + 1] = f]
    BY <1>1, <1>2
  <2>3. [frames[n] EXCEPT !.reader = r].reader = r
    BY <1>2 DEF CallFrame
  <2> HIDE DEF f, r
  <2>4. n \in 1 .. FrameMax /\ n + 1 \in 1 .. FrameMax /\ n # n + 1
    BY <1>2
  <2>5. frames'[n + 1] = f /\ frames'[n] = [frames[n] EXCEPT !.reader = r]
    BY <2>1, <2>2, <2>4
  <2>6. \A k \in 1 .. n : k # n => frames'[k] = frames[k]
    BY <1>2, <2>1, <2>2
  <2> QED BY <2>3, <2>5, <2>6
<1> HIDE DEF n, r, f, rest
<1>7. OperandsNested'
  <2> SUFFICES ASSUME NEW k \in 1 .. n + 1
               PROVE  loops'[k].floor + frames'[k].reader.operands
                        = IF k = n + 1 THEN stackSize' ELSE loops'[k + 1].floor
    BY <1>5 DEF OperandsNested
  <2>1. CASE k = n + 1
    <3>1. rest \in Int /\ stackSize' = rest
      BY <1>1, <1>4 DEF rest
    <3>2. frames'[n + 1].reader.operands = 0 /\ loops'[n + 1].floor = rest
      BY <1>3, <1>5, <1>6
    <3> QED BY <2>1, <3>1, <3>2
  <2>2. CASE k = n
    <3>1. loops'[n].floor = Inner.floor /\ loops'[n + 1].floor = rest /\ n # n + 1
      BY <1>2, <1>5
    <3>2. frames'[n].reader.operands = Here.operands - (args + 1)
      BY <1>3, <1>6
    <3>3. rest = Inner.floor + (Here.operands - (args + 1))
      BY <1>4 DEF rest
    <3> QED BY <2>2, <3>1, <3>2, <3>3
  <2>3. CASE k \in 1 .. n - 1
    <3>1. k \in 1 .. n /\ k + 1 \in 1 .. n /\ k # n
      BY <1>2, <2>3
    <3>2. loops[k].floor + frames[k].reader.operands = loops[k + 1].floor
      BY <3>1 DEF NestInv, OperandsNested, n
    <3> QED BY <1>2, <1>5, <1>6, <3>1, <3>2
  <2> QED BY <1>2, <2>1, <2>2, <2>3
<1>8. /\ \A k \in 1 .. n : NextRegions(k) = Regions(k)
      /\ NextRegions(n + 1) = <<>>
  BY <1>2, <1>3, <1>6 DEF NextRegions, Regions, Here
<1>9. \A i \in 1 .. Len(tries') :
        /\ tries'[i].frame \in 1 .. Len(loops')
        /\ EntryLive(tries'[i], NextRegions(tries'[i].frame), loops'[tries'[i].frame].floor)
  <2> SUFFICES ASSUME NEW i \in 1 .. Len(tries)
               PROVE  /\ tries[i].frame \in 1 .. n + 1
                      /\ EntryLive(tries[i], NextRegions(tries[i].frame),
                                   loops'[tries[i].frame].floor)
    BY <1>1, <1>5
  <2>1. /\ tries[i].frame \in 1 .. n
        /\ EntryLive(tries[i], Regions(tries[i].frame), loops[tries[i].frame].floor)
    BY DEF NestInv, TriesInv, EntriesLive, n
  <2> QED BY <1>2, <1>5, <1>8, <2>1
<1>10. \A i, j \in 1 .. Len(tries') : i < j => Inside(tries'[i], tries'[j])
  BY <1>1 DEF NestInv, TriesInv, EntriesOrdered
<1>11. \A k \in 1 .. Len(loops') : \A q \in 1 .. Len(NextRegions(k)) :
         \E i \in 1 .. Len(tries') :
           tries'[i].frame = k /\ Len(tries'[i].reader.regions) = q - 1
  <2> SUFFICES ASSUME NEW k \in 1 .. n + 1, NEW q \in 1 .. Len(NextRegions(k))
               PROVE  \E i \in 1 .. Len(tries) :
                        tries[i].frame = k /\ Len(tries[i].reader.regions) = q - 1
    BY <1>1, <1>5
  <2>1. k # n + 1
    BY <1>8
  <2>2. k \in 1 .. n /\ q \in 1 .. Len(Regions(k))
    BY <1>2, <1>8, <2>1
  <2> QED BY <2>2 DEF NestInv, TriesInv, EntriesComplete, n
<1>12. TriesInv'
  BY <1>9, <1>10, <1>11, NextTries
<1> QED BY <1>7, <1>12 DEF NestInv

\* A tidy function ends with its result alone and outside its try regions: it
\* leaves the caller's operands and entries, and the result on top.
LEMMA LeaveNest ==
  ASSUME FrameInv, Tidy, NestInv, NEW popped \in {0, 1}, Leave(popped)
  PROVE  NestInv'
<1> DEFINE n == Len(loops)
           size == stackSize - popped
           freed == [frames EXCEPT ![Slot] = Freed(frames[Slot])]
           caller == loops[n - 1].slot
<1>1. /\ Running /\ Here.regions = <<>>
      /\ Here.operands - popped >= 0
      /\ n > 1 => ~ (Here.operands > popped)
      /\ loops' = ButLast(loops) /\ tries' = tries
      /\ n # 1 => /\ stackSize' = size + 1
                  /\ frames' = [freed EXCEPT ![caller].reader =
                                  [freed[caller].reader EXCEPT !.operands =
                                     freed[caller].reader.operands + 1]]
  BY DEF Leave, EndLoop, Has, Tidy, Kept
<1>2. /\ n \in Nat \ {0} /\ Slot = n /\ Slot \in 1 .. FrameMax /\ Inner = loops[n]
      /\ FrameMax \in Nat /\ frames \in [1 .. FrameMax -> CallFrame]
      /\ \A k \in 1 .. n : k \in 1 .. FrameMax /\ loops[k].slot = k /\ loops[k].floor \in Nat
  BY <1>1, Current, Types DEF Inner, LastOf, FrameInv, TypeOK
<1>3. stackSize = Inner.floor + Here.operands /\ Inner.floor \in Nat /\ Here.operands \in Nat
  BY <1>1, TopOperands DEF NestInv
<1>4. Len(loops') = n - 1 /\ \A k \in 1 .. n - 1 : loops'[k] = loops[k]
  <2> DEFINE Loop == [slot : 1 .. FrameMax, floor : Nat]
  <2>1. loops \in Seq(Loop) /\ loops # <<>>
    BY <1>1 DEF FrameInv, TypeOK, Running
  <2> HIDE DEF Loop
  <2> QED BY <1>1, <2>1, LastOfSeq
<1> HIDE DEF n
<1>5. \A i \in 1 .. Len(tries) : tries[i].frame \in 1 .. n - 1
  <2> TAKE i \in 1 .. Len(tries)
  <2>1. /\ tries[i].frame \in 1 .. n
        /\ EntryLive(tries[i], Regions(tries[i].frame), loops[tries[i].frame].floor)
        /\ Len(tries[i].reader.regions) \in Nat
    BY Types DEF NestInv, TriesInv, EntriesLive, n
  <2>2. tries[i].frame # n
    <3>1. Len(Regions(n)) = 0
      BY <1>1, <1>2 DEF Regions, Here
    <3>2. ~ (Len(tries[i].reader.regions) < 0)
      BY <2>1
    <3> QED BY <2>1, <3>1, <3>2 DEF EntryLive
  <2> QED BY <1>2, <2>1, <2>2
<1>6. n # 1 => /\ \A k \in 1 .. n - 2 : frames'[k] = frames[k]
               /\ frames'[n - 1].reader.operands = frames[n - 1].reader.operands + 1
               /\ frames'[n - 1].reader.regions = frames[n - 1].reader.regions
  <2> SUFFICES ASSUME n # 1
               PROVE  /\ \A k \in 1 .. n - 2 : frames'[k] = frames[k]
                      /\ frames'[n - 1].reader.operands = frames[n - 1].reader.operands + 1
                      /\ frames'[n - 1].reader.regions = frames[n - 1].reader.regions
    OBVIOUS
  <2>1. n - 1 \in 1 .. n /\ n - 1 \in 1 .. FrameMax /\ caller = n - 1 /\ n - 1 # n
    BY <1>2
  <2>2. /\ freed[n - 1] = frames[n - 1] /\ DOMAIN freed = 1 .. FrameMax
        /\ \A k \in 1 .. n - 2 : freed[k] = frames[k]
    BY <1>2, <2>1
  <2>3. frames[n - 1] \in CallFrame /\ frames[n - 1].reader \in Reader
    BY <1>2, <2>1 DEF CallFrame
  <2> DEFINE went == [frames[n - 1].reader EXCEPT !.operands = frames[n - 1].reader.operands + 1]
  <2>4. went.operands = frames[n - 1].reader.operands + 1
        /\ went.regions = frames[n - 1].reader.regions
    BY <2>3 DEF Reader
  <2> HIDE DEF freed, caller
  <2>5. frames' = [freed EXCEPT ![n - 1] = [frames[n - 1] EXCEPT !.reader = went]]
    BY <1>1, <2>1, <2>2
  <2> HIDE DEF went
  <2>6. [frames[n - 1] EXCEPT !.reader = went].reader = went
    BY <2>3 DEF CallFrame
  <2>7. frames'[n - 1] = [frames[n - 1] EXCEPT !.reader = went]
    BY <2>1, <2>2, <2>5
  <2>8. \A k \in 1 .. n - 2 : frames'[k] = frames[k]
    BY <1>2, <2>1, <2>2, <2>5
  <2> QED BY <2>4, <2>6, <2>7, <2>8
<1> HIDE DEF freed, caller
<1>7. OperandsNested'
  <2> SUFFICES ASSUME NEW k \in 1 .. n - 1
               PROVE  loops[k].floor + frames'[k].reader.operands
                        = IF k = n - 1 THEN stackSize' ELSE loops'[k + 1].floor
    BY <1>4 DEF OperandsNested
  <2>1. k \in 1 .. n /\ k # n /\ n # 1 /\ n > 1
    BY <1>2
  <2>2. loops[k].floor + frames[k].reader.operands = loops[k + 1].floor
    BY <2>1 DEF NestInv, OperandsNested, n
  <2>3. CASE k = n - 1
    <3>1. stackSize' = Inner.floor + 1
      BY <1>1, <1>3, <2>1
    <3>2. loops[n - 1].floor \in Nat /\ frames[n - 1].reader.operands \in Nat
      BY <1>2, <2>1, <2>3, Types
    <3>3. k + 1 = n
      BY <1>2, <2>3
    <3>4. frames'[n - 1].reader.operands = frames[n - 1].reader.operands + 1
      BY <1>6, <2>1
    <3>5. loops[n - 1].floor + frames[n - 1].reader.operands = Inner.floor
      BY <1>2, <2>2, <2>3, <3>3
    <3>6. loops[n - 1].floor + frames'[n - 1].reader.operands = stackSize'
      BY ONLY <3>1, <3>2, <3>4, <3>5
    <3> QED BY <2>3, <3>6
  <2>4. CASE k # n - 1
    <3>1. k \in 1 .. n - 2 /\ k + 1 \in 1 .. n - 1
      BY <1>2, <2>4
    <3> QED BY <1>4, <1>6, <2>1, <2>2, <2>4, <3>1
  <2> QED BY <2>3, <2>4
<1>8. \A k \in 1 .. n - 1 : NextRegions(k) = Regions(k)
  <2> TAKE k \in 1 .. n - 1
  <2>1. n # 1 /\ (k = n - 1 \/ k \in 1 .. n - 2)
    BY <1>2
  <2> QED BY <1>6, <2>1 DEF NextRegions, Regions
<1>9. \A i \in 1 .. Len(tries') :
        /\ tries'[i].frame \in 1 .. Len(loops')
        /\ EntryLive(tries'[i], NextRegions(tries'[i].frame), loops'[tries'[i].frame].floor)
  <2> SUFFICES ASSUME NEW i \in 1 .. Len(tries)
               PROVE  /\ tries[i].frame \in 1 .. n - 1
                      /\ EntryLive(tries[i], NextRegions(tries[i].frame),
                                   loops'[tries[i].frame].floor)
    BY <1>1, <1>4
  <2>1. EntryLive(tries[i], Regions(tries[i].frame), loops[tries[i].frame].floor)
    BY DEF NestInv, TriesInv, EntriesLive
  <2> QED BY <1>4, <1>5, <1>8, <2>1
<1>10. \A i, j \in 1 .. Len(tries') : i < j => Inside(tries'[i], tries'[j])
  BY <1>1 DEF NestInv, TriesInv, EntriesOrdered
<1>11. \A k \in 1 .. Len(loops') : \A q \in 1 .. Len(NextRegions(k)) :
         \E i \in 1 .. Len(tries') :
           tries'[i].frame = k /\ Len(tries'[i].reader.regions) = q - 1
  <2> SUFFICES ASSUME NEW k \in 1 .. n - 1, NEW q \in 1 .. Len(NextRegions(k))
               PROVE  \E i \in 1 .. Len(tries) :
                        tries[i].frame = k /\ Len(tries[i].reader.regions) = q - 1
    BY <1>1, <1>4
  <2>1. k \in 1 .. n /\ q \in 1 .. Len(Regions(k))
    BY <1>2, <1>8
  <2> QED BY <2>1 DEF NestInv, TriesInv, EntriesComplete, n
<1>12. TriesInv'
  BY <1>9, <1>10, <1>11, NextTries
<1> QED BY <1>7, <1>12 DEF NestInv

\* run begins with no entry left over: each of them was a running function's.
LEMMA RunNest ==
  ASSUME FrameInv, NestInv, NEW count \in 0 .. MaxLocals, Run(count)
  PROVE  NestInv'
<1> DEFINE f == [base |-> localsTop, count |-> count, table |-> "shared", reader |-> Start]
<1>1. /\ loops = <<>> /\ tries' = tries /\ stackSize' = stackSize
      /\ loops' = <<[slot |-> frameCount + 1, floor |-> stackSize]>>
      /\ frames' = [frames EXCEPT ![frameCount + 1] = f]
  BY DEF Run, Running
<1>2. Len(loops) = 0 /\ frameCount = 0 /\ FrameMax \in Nat \ {0} /\ stackSize \in Nat
  BY <1>1, Types, InterpAssumption
<1>3. Len(tries) = 0
  <2>1. ~ \E i \in 1 .. Len(tries) : TRUE
    BY <1>2 DEF NestInv, TriesInv, EntriesLive
  <2> QED BY <2>1, Types
<1>4. /\ Len(loops') = 1 /\ loops'[1].floor = stackSize
      /\ frames'[1].reader.operands = 0 /\ NextRegions(1) = <<>>
  <2>1. f.reader = Start /\ Start.operands = 0 /\ Start.regions = <<>>
    BY DEF Start
  <2>2. frames \in [1 .. FrameMax -> CallFrame] /\ 1 \in 1 .. FrameMax
    BY <1>2 DEF FrameInv, TypeOK
  <2> HIDE DEF f
  <2>3. frames'[1] = f
    BY <1>1, <1>2, <2>2
  <2> QED BY <1>1, <2>1, <2>3 DEF NextRegions
<1>5. OperandsNested'
  BY <1>1, <1>2, <1>4 DEF OperandsNested
<1>6. TriesInv'
  <2>1. Len(tries') = 0 /\ \A k \in 1 .. Len(loops') : Len(NextRegions(k)) = 0
    BY <1>1, <1>3, <1>4
  <2> QED BY <2>1, NextTries
<1> QED BY <1>5, <1>6 DEF NestInv

LEMMA RecreateNest ==
  ASSUME Recreate
  PROVE  NestInv'
<1>1. Len(loops') = 0 /\ Len(tries') = 0
  BY DEF Recreate
<1>2. TriesInv'
  BY <1>1, NextTries
<1> QED BY <1>1, <1>2 DEF NestInv, OperandsNested

LEMMA InitNest ==
  ASSUME Init
  PROVE  NestInv
<1>1. Len(loops) = 0 /\ Len(tries) = 0
  BY DEF Init
<1> QED BY <1>1 DEF NestInv, OperandsNested, TriesInv, EntriesLive, EntriesOrdered,
              EntriesComplete

\* Every opcode but Call and those that end a loop.
LEMMA OperationNest ==
  ASSUME FrameInv, Tidy, NestInv, Operation
  PROVE  NestInv'
<1>1. \A pops, pushes \in Nat : Operate(pops, pushes) => NestInv'
  BY OperateNest
<1>2. \A pops \in Nat : Fail(pops) => NestInv'
  BY FailNest
<1>3. 0 \in Nat /\ 1 \in Nat /\ 2 \in Nat /\ 3 \in Nat
  OBVIOUS
<1>4. CASE LoadConst \/ LoadVar \/ StoreVar \/ Pop \/ JumpIfFalse
  BY <1>1, <1>2, <1>3, <1>4 DEF LoadConst, LoadVar, StoreVar, Pop, JumpIfFalse
<1>5. CASE \/ Arithmetic \/ Neg \/ Not \/ Equality \/ Order \/ Logic
           \/ ForPrep \/ ForIter
  BY <1>1, <1>2, <1>3, <1>5
     DEF Arithmetic, Neg, Not, Equality, Order, Logic, ForPrep, ForIter
<1>6. CASE IndexGet \/ IndexSet \/ PropertyAccess \/ PropertySet
  BY <1>1, <1>2, <1>3, <1>6 DEF IndexGet, IndexSet, PropertyAccess, PropertySet
<1>7. CASE BuildList
  <2>1. PICK n \in 0 .. MaxOperands : Operate(n, 1)
    BY <1>7 DEF BuildList
  <2>2. n \in Nat
    BY InterpAssumption
  <2> QED BY <1>1, <1>3, <2>1, <2>2
<1>8. CASE LoadLocal
  <2>1. Operate(0, 1) \/ Fail(0)
    BY <1>8 DEF LoadLocal
  <2> QED BY <1>1, <1>2, <1>3, <2>1
<1>9. CASE StoreLocal \/ TryPush \/ TryPop
  BY <1>9, StoreLocalNest, TryPushNest, TryPopNest
<1> QED BY <1>4, <1>5, <1>6, <1>7, <1>8, <1>9 DEF Operation

LEMMA CallNest ==
  ASSUME FrameInv, Tidy, NestInv, Call
  PROVE  NestInv'
<1>1. PICK args \in 0 .. MaxArgs :
        \/ CallNative(args)
        \/ \E params \in 0 .. args, count \in 0 .. MaxLocals :
             CallFunction(args, params, count)
        \/ CallOverflow(args)
  BY DEF Call
<1>2. args \in Nat /\ args + 1 \in Nat /\ 1 \in Nat
  BY InterpAssumption
<1>3. CASE CallNative(args)
  <2>1. Operate(args + 1, 1) \/ Fail(args + 1)
    BY <1>3 DEF CallNative
  <2> QED BY <1>2, <2>1, OperateNest, FailNest
<1>4. CASE \E params \in 0 .. args, count \in 0 .. MaxLocals :
             CallFunction(args, params, count)
  BY <1>2, <1>4, CallFunctionNest
<1>5. CASE CallOverflow(args)
  <2>1. Fail(args + 1)
    BY <1>5 DEF CallOverflow
  <2> QED BY <1>2, <2>1, FailNest
<1> QED BY <1>1, <1>3, <1>4, <1>5

LEMMA NextNest ==
  ASSUME FrameInv, Tidy, NestInv, [Next]_vars
  PROVE  NestInv'
<1>1. CASE \E count \in 0 .. MaxLocals : Run(count)
  BY <1>1, RunNest
<1>2. CASE Recreate
  BY <1>2, RecreateNest
<1>3. CASE Operation
  BY <1>3, OperationNest
<1>4. CASE Call
  BY <1>4, CallNest
<1>5. CASE Return \/ Halt \/ Break \/ FallOff
  <2>1. Leave(0) \/ Leave(1)
    BY <1>5 DEF Return, Halt, Break, FallOff
  <2> QED BY <2>1, LeaveNest
<1>6. CASE UNCHANGED vars
  <2>1. UNCHANGED <<frames, loops, stackSize, tries>>
    BY <1>6 DEF vars
  <2>2. TriesInv'
    BY <2>1, SameTries DEF NestInv, NextRegions, Regions
  <2> QED BY <2>1, <2>2 DEF NestInv, OperandsNested
<1> QED BY <1>1, <1>2, <1>3, <1>4, <1>5, <1>6 DEF Next

LEMMA NestInvariant ==
  ASSUME Tidy
  PROVE  Spec => [](FrameInv /\ NestInv)
<1>1. Init => NestInv
  BY InitNest
<1>2. FrameInv /\ NestInv /\ [Next]_vars => NestInv'
  BY NextNest
<1>3. CaughtLocally
  BY DEF Tidy, CaughtLocally
<1> QED BY <1>1, <1>2, <1>3, FrameInvariant, PTL DEF Spec

-----------------------------------------------------------------------------

\* The operand stack is what each running function has pushed, in the order of
\* the calls: calls, returns and caught errors leave nothing between.
THEOREM OperandsNestedSafe ==
  ASSUME Tidy
  PROVE  Spec => []OperandsNested
<1>1. NestInv => OperandsNested
  BY DEF NestInv
<1> QED BY <1>1, NestInvariant, PTL

\* An error resumes in a function that still runs, in the region it was in,
\* and with that function's own operands.
THEOREM TriesLiveSafe ==
  ASSUME Tidy
  PROVE  Spec => []TriesLive
<1>1. FrameInv /\ NestInv => TriesLive
  BY LiveEntries DEF NestInv
<1> QED BY <1>1, NestInvariant, PTL

\* The call frame and the operands that a caller goes on with are its own, as
\* long as no error of a callee is caught by a caller: the run InterpCatch
\* shows that this is needed.
THEOREM ReturnRestoresCallerSafe ==
  ASSUME Tidy
  PROVE  Spec => ReturnRestoresCaller
<1> DEFINE Restored ==
      (Len(loops') < Len(loops) /\ loops' # <<>>) =>
        LET caller == loops'[Len(loops')]
        IN /\ frameCount' = caller.slot
           /\ stackSize' = caller.floor + frames'[caller.slot].reader.operands
<1>1. FrameInv' /\ NestInv' => Restored
  <2> SUFFICES ASSUME FrameInv', NestInv', loops' # <<>>
               PROVE  LET caller == loops'[Len(loops')]
                      IN /\ frameCount' = caller.slot
                         /\ stackSize' = caller.floor + frames'[caller.slot].reader.operands
    OBVIOUS
  <2>1. loops' \in Seq([slot : 1 .. FrameMax, floor : Nat])
    BY DEF FrameInv, TypeOK
  <2>2. Len(loops') \in Nat \ {0} /\ Len(loops') \in 1 .. Len(loops')
    BY <2>1
  <2> QED BY <2>2 DEF FrameInv, FramesNested, NestInv, OperandsNested
<1> QED BY <1>1, NestInvariant, PTL DEF ReturnRestoresCaller
=============================================================================
