----------------------------- MODULE TierLadder -----------------------------
(***************************************************************************)
(* The tier ladder of src/src/runtime/runtime.cpp: how a chunk climbs from *)
(* the interpreter (Spark) to baseline (Jolt) and optimised code (Surge),  *)
(* and how invalidate_chunk brings it down again.                          *)
(*                                                                         *)
(* Host threads call run, compile_tier1/2 and invalidate_chunk; enkiTS     *)
(* workers execute the queued Tier1/Tier2CompileTasks.  Every shared       *)
(* access that can be separated from the next one by another thread is an  *)
(* action of its own.  The fields of a ChunkEntry are read without a lock; *)
(* on x86-64 (the only target of the JIT) their loads and stores are       *)
(* single and in order, so the interleavings below are the outcomes the    *)
(* build can produce.                                                      *)
(***************************************************************************)
EXTENDS Integers

CONSTANTS
  Chunks,           \* bytecode chunks the host runs
  Threads,          \* host threads that call the Runtime
  Tasks,            \* compile task objects that can be alive at once
  Ops,              \* the Runtime operations the host uses
  MayFail,          \* chunks whose lowering or assembling may fail
  kHotThreshold,    \* 100 in runtime.h
  kTier2Threshold,  \* 1000 in runtime.h
  InvLimit,         \* 2^32: invocations is a uint32_t and wraps
  MaxEpoch,         \* bound: invalidations of one chunk
  nullptr           \* an entry point that is not set, a lock that is free

ASSUME LadderAssumption ==
  /\ kHotThreshold \in Nat /\ kTier2Threshold \in Nat
  /\ InvLimit \in Nat \ {0}
  /\ MaxEpoch \in Nat
  /\ Threads \cap Tasks = {}
  /\ nullptr \notin Nat /\ nullptr \notin Threads \cup Tasks

Interpreter == 0
Tier1Baseline == 1
Tier2Optimizing == 2
Tier == {Interpreter, Tier1Baseline, Tier2Optimizing}
JitTier == {Tier1Baseline, Tier2Optimizing}

Actors == Threads \cup Tasks

VARIABLES
  \* the ChunkEntry of every chunk
  invocations,   \* calls of run, modulo InvLimit
  currentTier,
  entry,         \* entry[c][t]: the code of tier t, named by the epoch it
                 \* was compiled in
  compiling,     \* compiling[c][t]: tier1_compiling / tier2_compiling
  compileMu,     \* the holder of compile_mu
  epoch,         \* history: invalidate_chunk calls completed for the chunk
  \* the local state of threads and tasks
  pc, chunk,
  level,         \* the tier an actor tries, considers or compiles
  due,           \* tiers whose threshold the sampled counter has reached
  born           \* history: the chunk's epoch when a compilation began

entryVars == <<invocations, currentTier, entry, compiling, compileMu, epoch>>
localVars == <<pc, chunk, level, due, born>>
vars == <<entryVars, localVars>>

(* Control points.  "idle": a thread outside the Runtime.  "fetched", "try": *)
(* run.  "slow", "tier", "flag", "check", "claim": maybe_compile_.  "free",  *)
(* "queued": a task object.  "compiling", "publish", "done": a compilation   *)
(* by either.  "clear1", "clear2": invalidate_chunk.                         *)
ThreadPC == {"idle", "fetched", "try", "slow", "tier", "flag", "check", "claim",
             "compiling", "publish", "done", "clear1", "clear2"}
TaskPC   == {"free", "queued", "compiling", "publish", "done"}

TypeOK ==
  /\ invocations \in [Chunks -> 0 .. InvLimit - 1]
  /\ currentTier \in [Chunks -> Tier]
  /\ entry \in [Chunks -> [JitTier -> Nat \cup {nullptr}]]
  /\ compiling \in [Chunks -> [JitTier -> BOOLEAN]]
  /\ compileMu \in [Chunks -> Actors \cup {nullptr}]
  /\ epoch \in [Chunks -> Nat]
  /\ pc \in [Actors -> ThreadPC \cup TaskPC]
  /\ \A m \in Threads : pc[m] \in ThreadPC
  /\ \A k \in Tasks : pc[k] \in TaskPC
  /\ chunk \in [Actors -> Chunks]
  /\ level \in [Actors -> Tier]
  /\ \A a \in Actors :
        pc[a] \in {"queued", "compiling", "publish", "done", "tier", "flag", "check", "claim"}
          => level[a] \in JitTier
  /\ due \in [Actors -> SUBSET JitTier]
  /\ born \in [Actors -> Nat]

Init ==
  /\ invocations = [c \in Chunks |-> 0]
  /\ currentTier = [c \in Chunks |-> Interpreter]
  /\ entry = [c \in Chunks |-> [t \in JitTier |-> nullptr]]
  /\ compiling = [c \in Chunks |-> [t \in JitTier |-> FALSE]]
  /\ compileMu = [c \in Chunks |-> nullptr]
  /\ epoch = [c \in Chunks |-> 0]
  /\ pc = [a \in Actors |-> IF a \in Tasks THEN "free" ELSE "idle"]
  /\ chunk \in [Actors -> Chunks]
  /\ level = [a \in Actors |-> Interpreter]
  /\ due = [a \in Actors |-> {}]
  /\ born = [a \in Actors |-> 0]

Goto(a, from, to) == pc[a] = from /\ pc' = [pc EXCEPT ![a] = to]

-----------------------------------------------------------------------------
(* Runtime::run *)

(* An operator whose comment begins with "Fault" is not part of the model: it *)
(* is the operator after it with a plausible bug, for the mutants of          *)
(* PROJECT.json, which show that a property can fail.                         *)

\* Fault: the counter saturates one too late instead of wrapping.
RunOverflows(m, c) ==
  /\ "run" \in Ops
  /\ Goto(m, "idle", "fetched")
  /\ invocations' = [invocations EXCEPT ![c] = IF @ < InvLimit THEN @ + 1 ELSE @]
  /\ chunk' = [chunk EXCEPT ![m] = c]
  /\ UNCHANGED <<currentTier, entry, compiling, compileMu, epoch, level, born, due>>

\* run counts the call.
Run(m, c) ==
  /\ "run" \in Ops
  /\ Goto(m, "idle", "fetched")
  /\ invocations' = [invocations EXCEPT ![c] = (@ + 1) % InvLimit]
  /\ chunk' = [chunk EXCEPT ![m] = c]
  /\ UNCHANGED <<currentTier, entry, compiling, compileMu, epoch, level, born, due>>

\* It loads current_tier once, to decide which entry points to try.
LoadTier(m) ==
  /\ Goto(m, "fetched", "try")
  /\ level' = [level EXCEPT ![m] = currentTier[chunk[m]]]
  /\ UNCHANGED <<entryVars, chunk, born, due>>

\* From the loaded tier downwards it calls the first entry point it finds set;
\* with none it goes to maybe_compile_.
TryEntry(m) ==
  /\ pc[m] = "try"
  /\ \/ /\ level[m] = Interpreter
        /\ pc' = [pc EXCEPT ![m] = "slow"]
        /\ UNCHANGED level
     \/ /\ level[m] \in JitTier /\ entry[chunk[m]][level[m]] = nullptr
        /\ level' = [level EXCEPT ![m] = @ - 1]
        /\ UNCHANGED pc
     \/ /\ level[m] \in JitTier /\ entry[chunk[m]][level[m]] # nullptr
        /\ pc' = [pc EXCEPT ![m] = "idle"]
        /\ level' = [level EXCEPT ![m] = Interpreter]
  /\ UNCHANGED <<entryVars, chunk, born, due>>

-----------------------------------------------------------------------------
(* Runtime::maybe_compile_, once for Tier 1 and then for Tier 2 *)

Threshold(t) == IF t = Tier1Baseline THEN kHotThreshold ELSE kTier2Threshold

\* maybe_compile_ loads the counter once, for both tiers.
SampleInvocations(m) ==
  /\ Goto(m, "slow", "tier")
  /\ due' = [due EXCEPT ![m] = {t \in JitTier : invocations[chunk[m]] >= Threshold(t)}]
  /\ level' = [level EXCEPT ![m] = Tier1Baseline]
  /\ UNCHANGED <<entryVars, chunk, born>>

\* Once tier t is dealt with the thread considers Tier 2, or interprets the
\* chunk and returns.
PCAfterTier(m)    == IF level[m] = Tier1Baseline THEN "tier" ELSE "idle"
LevelAfterTier(m) == IF level[m] = Tier1Baseline THEN Tier2Optimizing ELSE Interpreter
DueAfterTier(m)   == IF level[m] = Tier1Baseline THEN due[m] ELSE {}

SkipTier(m) ==
  /\ pc' = [pc EXCEPT ![m] = PCAfterTier(m)]
  /\ level' = [level EXCEPT ![m] = LevelAfterTier(m)]
  /\ due' = [due EXCEPT ![m] = DueAfterTier(m)]

\* Three conditions, each a load of its own: the chunk runs in the tier below ...
CheckTier(m) ==
  /\ pc[m] = "tier"
  /\ \/ /\ level[m] \in due[m] /\ currentTier[chunk[m]] = level[m] - 1
        /\ Goto(m, "tier", "flag") /\ UNCHANGED <<level, due>>
     \/ /\ ~ (level[m] \in due[m] /\ currentTier[chunk[m]] = level[m] - 1)
        /\ SkipTier(m)
  /\ UNCHANGED <<entryVars, chunk, born>>

\* ... no compilation of the tier is under way ...
CheckFlag(m) ==
  /\ pc[m] = "flag"
  /\ \/ /\ ~ compiling[chunk[m]][level[m]]
        /\ Goto(m, "flag", "check") /\ UNCHANGED <<level, due>>
     \/ compiling[chunk[m]][level[m]] /\ SkipTier(m)
  /\ UNCHANGED <<entryVars, chunk, born>>

\* Fault: the entry point is not looked at again before the claim.
CheckEntrySkipped(m) ==
  /\ Goto(m, "check", "claim")
  /\ UNCHANGED <<entryVars, chunk, level, due, born>>

\* ... and the tier has no entry point yet.
CheckEntry(m) ==
  /\ pc[m] = "check"
  /\ \/ /\ entry[chunk[m]][level[m]] = nullptr
        /\ Goto(m, "check", "claim") /\ UNCHANGED <<level, due>>
     \/ entry[chunk[m]][level[m]] # nullptr /\ SkipTier(m)
  /\ UNCHANGED <<entryVars, chunk, born>>

\* Fault: the flag is stored, not compare-exchanged.
ClaimUnchecked(m, k) ==
  /\ pc[m] = "claim" /\ pc[k] = "free"
  /\ compiling' = [compiling EXCEPT ![chunk[m]][level[m]] = TRUE]
  /\ pc' = [pc EXCEPT ![m] = PCAfterTier(m), ![k] = "queued"]
  /\ level' = [level EXCEPT ![m] = LevelAfterTier(m), ![k] = level[m]]
  /\ due' = [due EXCEPT ![m] = DueAfterTier(m)]
  /\ chunk' = [chunk EXCEPT ![k] = chunk[m]]
  /\ UNCHANGED <<invocations, currentTier, entry, compileMu, epoch, born>>

\* Fault: the task is not handed to the scheduler.
ClaimDropsTask(m, k) ==
  /\ pc[m] = "claim"
  /\ ~ compiling[chunk[m]][level[m]]
  /\ compiling' = [compiling EXCEPT ![chunk[m]][level[m]] = TRUE]
  /\ SkipTier(m)
  /\ UNCHANGED <<invocations, currentTier, entry, compileMu, epoch, chunk, born>>

\* The compare-exchange on the compiling flag; its winner queues a task.
Claim(m, k) ==
  /\ pc[m] = "claim" /\ pc[k] = "free"
  /\ ~ compiling[chunk[m]][level[m]]
  /\ compiling' = [compiling EXCEPT ![chunk[m]][level[m]] = TRUE]
  /\ pc' = [pc EXCEPT ![m] = PCAfterTier(m), ![k] = "queued"]
  /\ level' = [level EXCEPT ![m] = LevelAfterTier(m), ![k] = level[m]]
  /\ due' = [due EXCEPT ![m] = DueAfterTier(m)]
  /\ chunk' = [chunk EXCEPT ![k] = chunk[m]]
  /\ UNCHANGED <<invocations, currentTier, entry, compileMu, epoch, born>>

\* The loser of the compare-exchange goes on.
LoseClaim(m) ==
  /\ pc[m] = "claim"
  /\ compiling[chunk[m]][level[m]]
  /\ SkipTier(m)
  /\ UNCHANGED <<entryVars, chunk, born>>

-----------------------------------------------------------------------------
(* Compilation: by a worker that executes a task, or by a host thread *)

\* A worker takes the task and lowers the chunk.
StartTask(k) ==
  /\ Goto(k, "queued", "compiling")
  /\ born' = [born EXCEPT ![k] = epoch[chunk[k]]]
  /\ UNCHANGED <<entryVars, chunk, level, due>>

\* Fault: the early return leaves the flag set.
FailTaskKeepsFlag(k) ==
  /\ chunk[k] \in MayFail
  /\ Goto(k, "compiling", "free")
  /\ level' = [level EXCEPT ![k] = Interpreter]
  /\ born' = [born EXCEPT ![k] = 0]
  /\ UNCHANGED <<invocations, currentTier, entry, compiling, compileMu, epoch, chunk, due>>

\* Lowering or assembling fails: the task resets the flag and ends.
FailTask(k) ==
  /\ chunk[k] \in MayFail
  /\ Goto(k, "compiling", "free")
  /\ compiling' = [compiling EXCEPT ![chunk[k]][level[k]] = FALSE]
  /\ level' = [level EXCEPT ![k] = Interpreter]
  /\ born' = [born EXCEPT ![k] = 0]
  /\ UNCHANGED <<invocations, currentTier, entry, compileMu, epoch, chunk, due>>

\* compile_tier1 and compile_tier2, also reached from run_at_tier and
\* osr_to_tier1/2, compile on the calling thread; a failure changes nothing.
Compile(m, c, t) ==
  /\ "compile" \in Ops
  /\ Goto(m, "idle", "compiling")
  /\ chunk' = [chunk EXCEPT ![m] = c]
  /\ level' = [level EXCEPT ![m] = t]
  /\ born' = [born EXCEPT ![m] = epoch[c]]
  /\ UNCHANGED <<entryVars, due>>

\* Fault: the Tier-2 task stores into tier1_entry, like the Tier-1 task.
PublishEntryAsJolt(a) ==
  /\ compileMu[chunk[a]] = nullptr
  /\ Goto(a, "compiling", "publish")
  /\ compileMu' = [compileMu EXCEPT ![chunk[a]] = a]
  /\ entry' = [entry EXCEPT ![chunk[a]][Tier1Baseline] = born[a]]
  /\ UNCHANGED <<invocations, currentTier, compiling, epoch, chunk, level, born, due>>

\* Under compile_mu: the entry point first ...
PublishEntry(a) ==
  /\ compileMu[chunk[a]] = nullptr
  /\ Goto(a, "compiling", "publish")
  /\ compileMu' = [compileMu EXCEPT ![chunk[a]] = a]
  /\ entry' = [entry EXCEPT ![chunk[a]][level[a]] = born[a]]
  /\ UNCHANGED <<invocations, currentTier, compiling, epoch, chunk, level, born, due>>

\* ... then the tier, and compile_mu is released.
PublishTier(a) ==
  /\ Goto(a, "publish", "done")
  /\ currentTier' = [currentTier EXCEPT ![chunk[a]] = level[a]]
  /\ compileMu' = [compileMu EXCEPT ![chunk[a]] = nullptr]
  /\ UNCHANGED <<invocations, entry, compiling, epoch, chunk, level, born, due>>

\* The task's last statement resets the compiling flag.
EndTask(k) ==
  /\ Goto(k, "done", "free")
  /\ compiling' = [compiling EXCEPT ![chunk[k]][level[k]] = FALSE]
  /\ level' = [level EXCEPT ![k] = Interpreter]
  /\ born' = [born EXCEPT ![k] = 0]
  /\ UNCHANGED <<invocations, currentTier, entry, compileMu, epoch, chunk, due>>

\* compile_tier1/2 read the entry point again, without the lock, and return it.
EndCompile(m) ==
  /\ Goto(m, "done", "idle")
  /\ level' = [level EXCEPT ![m] = Interpreter]
  /\ born' = [born EXCEPT ![m] = 0]
  /\ UNCHANGED <<entryVars, chunk, due>>

-----------------------------------------------------------------------------
(* Runtime::invalidate_chunk, which holds chunks_mu_ throughout *)

Invalidating(m) == pc[m] \in {"clear1", "clear2"}

\* The tier is reset first, before compile_mu is taken.
ResetTier(m, c) ==
  /\ "invalidate" \in Ops
  /\ epoch[c] < MaxEpoch
  /\ \A n \in Threads : ~ Invalidating(n)
  /\ Goto(m, "idle", "clear1")
  /\ currentTier' = [currentTier EXCEPT ![c] = Interpreter]
  /\ chunk' = [chunk EXCEPT ![m] = c]
  /\ UNCHANGED <<invocations, entry, compiling, compileMu, epoch, level, born, due>>

ClearJolt(m) ==
  /\ compileMu[chunk[m]] = nullptr
  /\ Goto(m, "clear1", "clear2")
  /\ compileMu' = [compileMu EXCEPT ![chunk[m]] = m]
  /\ entry' = [entry EXCEPT ![chunk[m]][Tier1Baseline] = nullptr]
  /\ UNCHANGED <<invocations, currentTier, compiling, epoch, chunk, level, born, due>>

ClearSurge(m) ==
  /\ Goto(m, "clear2", "idle")
  /\ compileMu' = [compileMu EXCEPT ![chunk[m]] = nullptr]
  /\ entry' = [entry EXCEPT ![chunk[m]][Tier2Optimizing] = nullptr]
  /\ epoch' = [epoch EXCEPT ![chunk[m]] = @ + 1]
  /\ UNCHANGED <<invocations, currentTier, compiling, chunk, level, born, due>>

-----------------------------------------------------------------------------

ThreadStep(m) ==
  \/ \E c \in Chunks : Run(m, c)
  \/ LoadTier(m) \/ TryEntry(m)
  \/ SampleInvocations(m) \/ CheckTier(m) \/ CheckFlag(m) \/ CheckEntry(m)
  \/ (\E k \in Tasks : Claim(m, k)) \/ LoseClaim(m)
  \/ \E c \in Chunks, t \in JitTier : Compile(m, c, t)
  \/ PublishEntry(m) \/ PublishTier(m) \/ EndCompile(m)
  \/ \E c \in Chunks : ResetTier(m, c)
  \/ ClearJolt(m) \/ ClearSurge(m)

TaskStep(k) ==
  \/ StartTask(k) \/ FailTask(k)
  \/ PublishEntry(k) \/ PublishTier(k) \/ EndTask(k)

Next == (\E m \in Threads : ThreadStep(m)) \/ (\E k \in Tasks : TaskStep(k))

Spec == Init /\ [][Next]_vars

(* The host keeps calling and a thread that runs is scheduled; an idle       *)
(* enkiTS worker picks up a queued task and the task runs to its end.        *)
Fairness ==
  /\ \A m \in Threads : WF_vars(ThreadStep(m))
  /\ \A k \in Tasks : WF_vars(TaskStep(k))

FairSpec == Spec /\ Fairness

-----------------------------------------------------------------------------
(* Safety *)

InFlight(k) == pc[k] # "free"
Compiles(k, c, t) == InFlight(k) /\ chunk[k] = c /\ level[k] = t

\* The compiling flag of a chunk and tier is set exactly while a task for them
\* is queued or runs: a failed task never leaves it set, and no task outlives it.
FlagTracksTask ==
  \A c \in Chunks, t \in JitTier :
     compiling[c][t] <=> \E k \in Tasks : Compiles(k, c, t)

\* tier1_compiling / tier2_compiling admit one background job per chunk and tier
\* at a time, whatever threads and workers do.
SingleFlight ==
  \A c \in Chunks, t \in JitTier : \A j, k \in Tasks :
     Compiles(j, c, t) /\ Compiles(k, c, t) => j = k

\* The chunk was never invalidated.
Pristine(c) == epoch[c] = 0 /\ ~ \E m \in Threads : Invalidating(m) /\ chunk[m] = c

\* Until a chunk is first invalidated, the tier it announces has an entry point:
\* the lock-free readers of run never find the announced tier empty.
TierBacked ==
  \A c \in Chunks :
     Pristine(c) /\ currentTier[c] # Interpreter => entry[c][currentTier[c]] # nullptr

\* run uses "the highest available compiled tier": once Surge code is published
\* (nobody holds compile_mu, no invalidation runs) the chunk announces Tier 2.
HighestTierUsed ==
  \A c \in Chunks :
     (/\ entry[c][Tier2Optimizing] # nullptr
      /\ compileMu[c] = nullptr
      /\ ~ \E m \in Threads : Invalidating(m) /\ chunk[m] = c)
        => currentTier[c] = Tier2Optimizing

\* "Invalidate all compiled code for a chunk": when invalidate_chunk has returned
\* no entry point leads to code compiled before it.
InvalidatesAllCode ==
  \A c \in Chunks, t \in JitTier :
     entry[c][t] # nullptr => entry[c][t] = epoch[c]

\* The flag "prevents duplicate jobs": a job is queued only while the chunk has
\* no code of that tier.
NoDuplicateJob ==
  [][\A k \in Tasks :
        pc[k] = "free" /\ pc'[k] = "queued" => entry[chunk'[k]][level'[k]] = nullptr]_vars

-----------------------------------------------------------------------------
(* Liveness *)

\* A chunk that reaches the hot threshold gets Jolt code, while the host keeps
\* calling it and compilation succeeds.
HotGetsJolt ==
  \A c \in Chunks :
     c \notin MayFail =>
        (invocations[c] >= kHotThreshold ~> entry[c][Tier1Baseline] # nullptr)

\* A compilation that fails does not wedge the chunk: its flag is released.
FlagReleased ==
  \A c \in Chunks, t \in JitTier : compiling[c][t] ~> ~ compiling[c][t]

\* "After kTier2Threshold invocations at Tier 1, Runtime kicks off Tier-2
\* compilation": a chunk called often enough while it has Jolt code gets a job.
SurgeKicksOff ==
  \A c \in Chunks :
     (invocations[c] >= kTier2Threshold /\ currentTier[c] = Tier1Baseline)
        ~> (compiling[c][Tier2Optimizing] \/ entry[c][Tier2Optimizing] # nullptr)
=============================================================================
