------------------------------ MODULE JoltChunk -----------------------------
(***************************************************************************)
(* Tier 1 on one chunk: lower_chunk_to_tier1, Tier1Compiler::compile       *)
(* (src/src/tier1/tier1.cpp) and a run of the code, beside what Spark      *)
(* makes of the chunk.                                                     *)
(***************************************************************************)
EXTENDS JoltRun

VARIABLES
  chunk,   \* the chunk
  spark,   \* what Spark makes of it
  answer   \* what the code of Jolt and of Surge returned

chunkVars == <<chunk, spark>>

Opcodes ==
  Binary \cup Jumps \cup
  {"LoadConst", "LoadLocal", "LoadVar", "StoreLocal", "StoreVar", "Pop", "Div", "Pow",
   "Neg", "Not", "Break", "Continue", "Halt", "Return", "TryPop", "Import", "ForPrep",
   "BuildList", "IndexGet", "IndexSet", "Call", "PropertyAccess", "PropertySet"}

\* Operands are in range: Spark and ChunkLowerer index with them unchecked.
IsChunk(c) ==
  /\ c.code \in Seq([op : Opcodes, arg : Int])
  /\ c.maxLocals \in Nat
  /\ \A k \in DOMAIN c.code :
       LET ins == c.code[k]
       IN /\ ins.op = "LoadConst" => ins.arg \in DOMAIN c.constants /\ c.constants[ins.arg].i \in Int
          /\ ins.op \in {"LoadLocal", "StoreLocal"} => ins.arg \in 0 .. c.maxLocals - 1
          /\ ins.op \in {"BuildList", "Call"} => ins.arg \in Nat

\* linear_scan starts on the intervals of a function.
Scan(s) ==
  /\ intervals' = s
  /\ next' = 1
  /\ active' = {} /\ used' = {}
  /\ reg' = [i \in DOMAIN s |-> NoReg]
  /\ slot' = [i \in DOMAIN s |-> NoSlot]
  /\ slots' = 0

Idle ==
  /\ BeginScan(<<>>)
  /\ fn = Tier1Function(<<>>, 0)
  /\ mach = Nothing /\ virt = Nothing
  /\ answer = [Jolt |-> Junk, Surge |-> Junk]
  /\ deviations = {}

ChunkInit ==
  /\ Idle
  /\ stage = "lower"
  /\ IsChunk(chunk)
  /\ Forward(lower_chunk_to_tier1(chunk)) \/ Enclosed(lower_chunk_to_tier1(chunk))
  /\ spark = SparkRun(chunk)

Lower ==
  /\ stage = "lower"
  /\ fn' = lower_chunk_to_tier1(chunk)
  /\ \E s \in {Intervals(fn')} : Scan(s)
  /\ stage' = "scan"
  /\ UNCHANGED <<chunkVars, runVars, answer, deviations>>

Compile ==
  /\ Place \/ Reject \/ Enter(chunk.maxLocals) \/ Step
  /\ UNCHANGED <<chunkVars, answer>>

\* Code that does not end in a Return yields whatever rax holds.
Answer(tier) ==
  /\ stage = "run"
  /\ Ends(fn, mach)
  /\ answer' = [answer EXCEPT ![tier] = mach.rax]
  /\ deviations' = deviations \cup
       (IF mach.status = "returned" THEN {} ELSE {"halted"})
  /\ stage' = IF tier = "Jolt" THEN "answered" ELSE "done"
  /\ UNCHANGED <<chunkVars, codeVars, runVars>>

ChunkNext == Lower \/ Compile \/ Answer("Jolt")

ChunkSpec == ChunkInit /\ [][ChunkNext]_<<joltVars, chunkVars, answer>>

-----------------------------------------------------------------------------

\* Jolt's code returns what Spark returns, whenever Spark returns an integer,
\* the operand stack is empty at every jump (a join does not merge it,
\* tier1.cpp:700-960) and the code leaves with its result in rax.
JoltAgreesWithSpark ==
  /\ stage = "answered"
  /\ spark.status = "int" /\ ~spark.carried /\ spark.fresh
  => answer.Jolt = spark.value

=============================================================================
