-------------------------- MODULE TierLadderProofs --------------------------
(***************************************************************************)
(* Theorems of TierLadder, for every number of chunks, threads and tasks   *)
(* and all thresholds: type correctness, the single-flight discipline of   *)
(* the compiling flags, and that an announced tier is backed by code until *)
(* the chunk is first invalidated.                                         *)
(***************************************************************************)
EXTENDS TierLadder, TLAPS

-----------------------------------------------------------------------------
(* Type correctness *)

\* Every step of a host thread keeps the state well typed.
LEMMA ThreadTypeOK ==
  ASSUME TypeOK, NEW m \in Threads, ThreadStep(m)
  PROVE  TypeOK'
<1> USE LadderAssumption DEF TypeOK, Tier, JitTier, Interpreter, Tier1Baseline,
        Tier2Optimizing, Actors, ThreadPC, TaskPC, Goto
<1>1. ASSUME NEW c \in Chunks, Run(m, c) PROVE TypeOK'
  <2>1. (invocations[c] + 1) % InvLimit \in 0 .. InvLimit - 1
    OBVIOUS
  <2> QED BY <1>1, <2>1 DEF Run
<1>2. CASE LoadTier(m)
  BY <1>2 DEF LoadTier, entryVars
<1>3. CASE TryEntry(m)
  <2>1. /\ pc[m] = "try" /\ m \in Actors /\ m \notin Tasks
        /\ UNCHANGED <<entryVars, chunk, born, due>>
    BY <1>3 DEF TryEntry
  <2>2. CASE pc' = [pc EXCEPT ![m] = "slow"] /\ UNCHANGED level
    BY <2>1, <2>2 DEF entryVars
  <2>3. CASE /\ level[m] \in JitTier /\ UNCHANGED pc
             /\ level' = [level EXCEPT ![m] = @ - 1]
    <3>1. level[m] - 1 \in Tier
      BY <2>3
    <3>2. level' \in [Actors -> Tier]
      BY <2>1, <2>3, <3>1
    <3>3. \A a \in Actors \ {m} : level'[a] = level[a]
      BY <2>3
    <3> QED BY <2>1, <2>3, <3>2, <3>3 DEF entryVars
  <2>4. CASE pc' = [pc EXCEPT ![m] = "idle"] /\ level' = [level EXCEPT ![m] = Interpreter]
    BY <2>1, <2>4 DEF entryVars
  <2> QED BY <1>3, <2>2, <2>3, <2>4 DEF TryEntry
<1>15. CASE SampleInvocations(m)
  BY <1>15 DEF SampleInvocations, Threshold, entryVars
<1>4. CASE CheckTier(m)
  <2>1. CASE Goto(m, "tier", "flag") /\ UNCHANGED <<level, due>>
    BY <1>4, <2>1 DEF CheckTier, entryVars
  <2>2. CASE SkipTier(m)
    BY <1>4, <2>2 DEF CheckTier, SkipTier, PCAfterTier, LevelAfterTier, DueAfterTier, entryVars
  <2> QED BY <1>4, <2>1, <2>2 DEF CheckTier
<1>16. CASE CheckFlag(m)
  <2>1. CASE Goto(m, "flag", "check") /\ UNCHANGED <<level, due>>
    BY <1>16, <2>1 DEF CheckFlag, entryVars
  <2>2. CASE SkipTier(m)
    BY <1>16, <2>2 DEF CheckFlag, SkipTier, PCAfterTier, LevelAfterTier, DueAfterTier, entryVars
  <2> QED BY <1>16, <2>1, <2>2 DEF CheckFlag
<1>5. CASE CheckEntry(m)
  <2>1. CASE Goto(m, "check", "claim") /\ UNCHANGED <<level, due>>
    BY <1>5, <2>1 DEF CheckEntry, entryVars
  <2>2. CASE SkipTier(m)
    BY <1>5, <2>2 DEF CheckEntry, SkipTier, PCAfterTier, LevelAfterTier, DueAfterTier, entryVars
  <2> QED BY <1>5, <2>1, <2>2 DEF CheckEntry
<1>6. ASSUME NEW k \in Tasks, Claim(m, k) PROVE TypeOK'
  <2>1. level[m] \in JitTier /\ m # k
    BY <1>6 DEF Claim
  <2> QED BY <1>6, <2>1 DEF Claim, PCAfterTier, LevelAfterTier, DueAfterTier
<1>14. CASE LoseClaim(m)
  BY <1>14 DEF LoseClaim, SkipTier, PCAfterTier, LevelAfterTier, DueAfterTier, entryVars
<1>7. ASSUME NEW c \in Chunks, NEW t \in JitTier, Compile(m, c, t) PROVE TypeOK'
  BY <1>7 DEF Compile, entryVars
<1>8. CASE PublishEntry(m)
  BY <1>8 DEF PublishEntry
<1>9. CASE PublishTier(m)
  BY <1>9 DEF PublishTier
<1>10. CASE EndCompile(m)
  BY <1>10 DEF EndCompile, entryVars
<1>11. ASSUME NEW c \in Chunks, ResetTier(m, c) PROVE TypeOK'
  BY <1>11 DEF ResetTier
<1>12. CASE ClearJolt(m)
  BY <1>12 DEF ClearJolt
<1>13. CASE ClearSurge(m)
  BY <1>13 DEF ClearSurge
<1> HIDE DEF TypeOK, Tier, JitTier, Interpreter, Tier1Baseline, Tier2Optimizing,
        Actors, ThreadPC, TaskPC, Goto
<1> QED
  BY <1>1, <1>2, <1>3, <1>4, <1>5, <1>6, <1>7, <1>8, <1>9, <1>10, <1>11, <1>12, <1>13,
     <1>14, <1>15, <1>16
  DEF ThreadStep

\* Every step of a compile task keeps the state well typed.
LEMMA TaskTypeOK ==
  ASSUME TypeOK, NEW k \in Tasks, TaskStep(k)
  PROVE  TypeOK'
<1> USE LadderAssumption DEF TypeOK, Tier, JitTier, Interpreter, Tier1Baseline,
        Tier2Optimizing, Actors, ThreadPC, TaskPC, Goto
<1>1. CASE StartTask(k)
  BY <1>1 DEF StartTask, entryVars
<1>2. CASE FailTask(k)
  BY <1>2 DEF FailTask
<1>3. CASE PublishEntry(k)
  BY <1>3 DEF PublishEntry
<1>4. CASE PublishTier(k)
  BY <1>4 DEF PublishTier
<1>5. CASE EndTask(k)
  BY <1>5 DEF EndTask
<1> HIDE DEF TypeOK, Tier, JitTier, Interpreter, Tier1Baseline, Tier2Optimizing,
        Actors, ThreadPC, TaskPC, Goto
<1> QED
  BY <1>1, <1>2, <1>3, <1>4, <1>5 DEF TaskStep

\* The state of the ladder is always well typed: in particular invocations keeps
\* its width, a task is always in a task's control point and no thread or task
\* compiles for the interpreter tier.
THEOREM TypeCorrect == Spec => []TypeOK
<1>1. Init => TypeOK
  BY LadderAssumption DEF Init, TypeOK, Tier, JitTier, Interpreter, Tier1Baseline,
     Tier2Optimizing, Actors, ThreadPC, TaskPC
<1>2. TypeOK /\ [Next]_vars => TypeOK'
  <2>1. ASSUME TypeOK, UNCHANGED vars PROVE TypeOK'
    BY <2>1 DEF TypeOK, vars, entryVars, localVars
  <2> QED BY <2>1, ThreadTypeOK, TaskTypeOK DEF Next
<1> QED
  BY <1>1, <1>2, PTL DEF Spec

-----------------------------------------------------------------------------
(* Single flight *)

\* FlagTracksTask alone would let two tasks share a flag and SingleFlight alone
\* does not say that a claimed flag implies no task: together they are inductive.
FlightInv == FlagTracksTask /\ SingleFlight

\* A step that leaves the flags alone, and the tasks in flight where they are,
\* preserves the invariant.
LEMMA FlightFrame ==
  ASSUME FlightInv, compiling' = compiling,
         \A k \in Tasks : InFlight(k)' <=> InFlight(k),
         \A k \in Tasks : InFlight(k) => chunk'[k] = chunk[k] /\ level'[k] = level[k]
  PROVE  FlightInv'
BY DEF FlightInv, FlagTracksTask, SingleFlight, Compiles

\* No step of a host thread except a won compare-exchange moves a task.
LEMMA ThreadFlight ==
  ASSUME TypeOK, FlightInv, NEW m \in Threads, ThreadStep(m)
  PROVE  FlightInv'
<1>1. m \in Actors /\ m \notin Tasks /\ Tasks \subseteq Actors
  BY LadderAssumption DEF Actors
<1>2. ASSUME NEW k \in Tasks, Claim(m, k) PROVE FlightInv'
  <2>1. /\ level[m] \in JitTier /\ chunk[m] \in Chunks
        /\ m # k /\ k \in Actors
    BY <1>1, <1>2 DEF Claim, TypeOK
  <2>2. ~ \E j \in Tasks : Compiles(j, chunk[m], level[m])
    BY <1>2, <2>1 DEF Claim, FlightInv, FlagTracksTask
  <2>3. /\ ~ InFlight(k) /\ InFlight(k)'
        /\ chunk'[k] = chunk[m] /\ level'[k] = level[m]
    BY <1>1, <1>2, <2>1 DEF Claim, InFlight, TypeOK
  <2>4. \A j \in Tasks \ {k} : /\ InFlight(j)' <=> InFlight(j)
                               /\ chunk'[j] = chunk[j] /\ level'[j] = level[j]
    BY <1>1, <1>2 DEF Claim, InFlight, TypeOK
  <2>5. \A c \in Chunks, t \in JitTier, j \in Tasks :
           Compiles(j, c, t)' <=> (Compiles(j, c, t) \/ (j = k /\ c = chunk[m] /\ t = level[m]))
    BY <2>3, <2>4 DEF Compiles
  <2>6. \A c \in Chunks, t \in JitTier :
           compiling'[c][t] = IF c = chunk[m] /\ t = level[m] THEN TRUE ELSE compiling[c][t]
    BY <1>2, <2>1 DEF Claim, TypeOK
  <2>7. FlagTracksTask'
    <3> SUFFICES ASSUME NEW c \in Chunks, NEW t \in JitTier
                 PROVE  compiling'[c][t] <=> \E j \in Tasks : Compiles(j, c, t)'
      BY DEF FlagTracksTask
    <3>1. CASE c = chunk[m] /\ t = level[m]
      BY <2>5, <2>6, <3>1
    <3>2. CASE ~ (c = chunk[m] /\ t = level[m])
      BY <2>5, <2>6, <3>2 DEF FlightInv, FlagTracksTask
    <3> QED BY <3>1, <3>2
  <2>8. SingleFlight'
    BY <2>2, <2>5 DEF FlightInv, SingleFlight
  <2> QED BY <2>7, <2>8 DEF FlightInv
<1>3. ASSUME ~ \E k \in Tasks : Claim(m, k) PROVE FlightInv'
  <2>1. /\ compiling' = compiling
        /\ \A k \in Tasks : pc'[k] = pc[k] /\ chunk'[k] = chunk[k] /\ level'[k] = level[k]
    BY <1>1, <1>3 DEF ThreadStep, Run, LoadTier, TryEntry, SampleInvocations, CheckTier, CheckFlag, CheckEntry, LoseClaim,
       SkipTier, Compile, PublishEntry, PublishTier, EndCompile, ResetTier, ClearJolt,
       ClearSurge, Goto, entryVars, TypeOK
  <2> QED BY <2>1, FlightFrame DEF InFlight
<1> QED BY <1>2, <1>3

\* A task that ends resets its own flag, and it was the only one to hold it.
LEMMA EndFlight ==
  ASSUME TypeOK, FlightInv, NEW k \in Tasks, InFlight(k), pc[k] \in {"compiling", "done"},
         pc' = [pc EXCEPT ![k] = "free"],
         compiling' = [compiling EXCEPT ![chunk[k]][level[k]] = FALSE],
         level' = [level EXCEPT ![k] = Interpreter], chunk' = chunk
  PROVE  FlightInv'
<1>1. /\ level[k] \in JitTier /\ chunk[k] \in Chunks /\ k \in Actors
      /\ Tasks \subseteq Actors
  BY DEF TypeOK, Actors
<1>2. ~ InFlight(k)'
  BY <1>1 DEF InFlight, TypeOK
<1>3. \A j \in Tasks \ {k} : /\ InFlight(j)' <=> InFlight(j)
                             /\ chunk'[j] = chunk[j] /\ level'[j] = level[j]
  BY <1>1 DEF InFlight, TypeOK
<1>4. \A c \in Chunks, t \in JitTier, j \in Tasks :
         Compiles(j, c, t)' <=> (Compiles(j, c, t) /\ j # k)
  BY <1>2, <1>3 DEF Compiles
<1>5. \A c \in Chunks, t \in JitTier :
         compiling'[c][t] = IF c = chunk[k] /\ t = level[k] THEN FALSE ELSE compiling[c][t]
  BY <1>1 DEF TypeOK
<1>6. \A j \in Tasks : Compiles(j, chunk[k], level[k]) => j = k
  BY <1>1 DEF FlightInv, SingleFlight, Compiles
<1>7. FlagTracksTask'
  <2> SUFFICES ASSUME NEW c \in Chunks, NEW t \in JitTier
               PROVE  compiling'[c][t] <=> \E j \in Tasks : Compiles(j, c, t)'
    BY DEF FlagTracksTask
  <2>1. CASE c = chunk[k] /\ t = level[k]
    BY <1>4, <1>5, <1>6, <2>1
  <2>2. CASE ~ (c = chunk[k] /\ t = level[k])
    <3>1. ~ Compiles(k, c, t)
      BY <2>2 DEF Compiles
    <3> QED BY <1>4, <1>5, <2>2, <3>1 DEF FlightInv, FlagTracksTask
  <2> QED BY <2>1, <2>2
<1>8. SingleFlight'
  BY <1>4 DEF FlightInv, SingleFlight
<1> QED BY <1>7, <1>8 DEF FlightInv

\* Every step of a task preserves the invariant.
LEMMA TaskFlight ==
  ASSUME TypeOK, FlightInv, NEW k \in Tasks, TaskStep(k)
  PROVE  FlightInv'
<1>1. k \in Actors /\ Tasks \subseteq Actors
  BY DEF Actors
<1>2. CASE FailTask(k) \/ EndTask(k)
  BY <1>2, EndFlight DEF FailTask, EndTask, Goto, InFlight
<1>3. CASE StartTask(k) \/ PublishEntry(k) \/ PublishTier(k)
  BY <1>1, <1>3, FlightFrame
  DEF StartTask, PublishEntry, PublishTier, Goto, InFlight, entryVars, TypeOK
<1> QED BY <1>2, <1>3 DEF TaskStep

\* The compiling flags admit one background job per chunk and tier at a time, and
\* a flag is set exactly while its job is alive: no interleaving of threads and
\* workers queues two, and no failure leaves a flag set.
THEOREM SingleFlightSafe == Spec => [](FlagTracksTask /\ SingleFlight)
<1>1. Init => FlightInv
  BY LadderAssumption DEF Init, FlightInv, FlagTracksTask, SingleFlight, Compiles, InFlight, Actors
<1>2. TypeOK /\ FlightInv /\ [Next]_vars => FlightInv'
  <2>1. ASSUME FlightInv, UNCHANGED vars PROVE FlightInv'
    BY <2>1, FlightFrame DEF vars, entryVars, localVars, InFlight
  <2> QED BY <2>1, ThreadFlight, TaskFlight DEF Next
<1>3. FlightInv => FlagTracksTask /\ SingleFlight
  BY DEF FlightInv
<1> QED
  BY <1>1, <1>2, <1>3, TypeCorrect, PTL DEF Spec

\* The compiling flags are the queued and running tasks: no path of a task,
\* failed or not, leaves one set, and none outlives its flag.
THEOREM FlagTracksTaskSafe == Spec => []FlagTracksTask
BY SingleFlightSafe, PTL

-----------------------------------------------------------------------------
(* An announced tier has code *)

\* Between the two stores of a publication the entry point is already set.
PublishBacked ==
  \A a \in Actors :
     pc[a] = "publish" /\ Pristine(chunk[a]) => entry[chunk[a]][level[a]] # nullptr

BackedInv == TierBacked /\ PublishBacked

\* A chunk that is pristine after a step was so before it, and the step cleared
\* none of its entry points.
LEMMA PristineStep ==
  ASSUME TypeOK, Next, NEW c \in Chunks, Pristine(c)'
  PROVE  /\ Pristine(c)
         /\ \A t \in JitTier : entry[c][t] # nullptr => entry'[c][t] # nullptr
<1>0. /\ Threads \subseteq Actors /\ Tasks \subseteq Actors /\ Threads \cap Tasks = {}
      /\ nullptr \notin Nat
  BY LadderAssumption DEF Actors
<1>1. ASSUME NEW m \in Threads, ClearSurge(m)
      PROVE  Pristine(c) /\ entry'[c] = entry[c]
  <2>1. /\ epoch' = [epoch EXCEPT ![chunk[m]] = @ + 1] /\ chunk' = chunk
        /\ entry' = [entry EXCEPT ![chunk[m]][Tier2Optimizing] = nullptr]
        /\ \A n \in Threads \ {m} : pc'[n] = pc[n]
    BY <1>0, <1>1 DEF ClearSurge, Goto, TypeOK
  <2>2. epoch[c] \in Nat /\ chunk[m] \in Chunks
    BY <1>0 DEF TypeOK
  <2>3. chunk[m] # c
    BY <2>1, <2>2 DEF Pristine, TypeOK
  <2> QED BY <2>1, <2>2, <2>3 DEF Pristine, Invalidating, TypeOK
<1>2. ASSUME NEW m \in Threads, ClearJolt(m)
      PROVE  Pristine(c) /\ entry'[c] = entry[c]
  <2>1. /\ epoch' = epoch /\ chunk' = chunk /\ Invalidating(m)'
        /\ entry' = [entry EXCEPT ![chunk[m]][Tier1Baseline] = nullptr]
        /\ \A n \in Threads \ {m} : pc'[n] = pc[n]
    BY <1>0, <1>2 DEF ClearJolt, Goto, TypeOK, Invalidating
  <2>2. chunk[m] # c
    BY <2>1 DEF Pristine
  <2> QED BY <2>1, <2>2 DEF Pristine, Invalidating, TypeOK
<1>3. ASSUME NEW a \in Actors, PublishEntry(a)
      PROVE  /\ Pristine(c)
             /\ \A t \in JitTier : entry[c][t] # nullptr => entry'[c][t] # nullptr
  <2>1. /\ epoch' = epoch /\ chunk' = chunk /\ born[a] \in Nat /\ chunk[a] \in Chunks
        /\ level[a] \in JitTier
        /\ entry' = [entry EXCEPT ![chunk[a]][level[a]] = born[a]]
        /\ \A n \in Threads : Invalidating(n) => Invalidating(n)'
    BY <1>0, <1>3 DEF PublishEntry, Goto, TypeOK, Invalidating
  <2>2. Pristine(c)
    BY <2>1 DEF Pristine
  <2>3. \A t \in JitTier : entry[c][t] # nullptr => entry'[c][t] # nullptr
    BY <1>0, <2>1 DEF TypeOK
  <2> QED BY <2>2, <2>3
<1>4. ASSUME NEW m \in Threads, ThreadStep(m),
             ~ ClearSurge(m), ~ ClearJolt(m), ~ PublishEntry(m)
      PROVE  Pristine(c) /\ entry' = entry
  <2>1. /\ epoch' = epoch /\ entry' = entry
        /\ \A n \in Threads : Invalidating(n) => pc'[n] = pc[n] /\ chunk'[n] = chunk[n]
    BY <1>0, <1>4 DEF ThreadStep, Run, LoadTier, TryEntry, SampleInvocations, CheckTier, CheckFlag, CheckEntry, Claim,
       LoseClaim, SkipTier, Compile, PublishTier, EndCompile, ResetTier, Goto,
       entryVars, TypeOK, Invalidating
  <2> QED BY <2>1 DEF Pristine, Invalidating
<1>5. ASSUME NEW k \in Tasks, TaskStep(k), ~ PublishEntry(k)
      PROVE  Pristine(c) /\ entry' = entry
  <2>1. /\ epoch' = epoch /\ entry' = entry
        /\ \A n \in Threads : pc'[n] = pc[n] /\ chunk'[n] = chunk[n]
    BY <1>0, <1>5 DEF TaskStep, StartTask, FailTask, PublishTier, EndTask, Goto,
       entryVars, TypeOK
  <2> QED BY <2>1 DEF Pristine, Invalidating
<1> QED
  BY <1>0, <1>1, <1>2, <1>3, <1>4, <1>5 DEF Next

\* A step announces a tier only by PublishTier or ResetTier.
LEMMA AnnounceStep ==
  ASSUME TypeOK, Next
  PROVE  \/ currentTier' = currentTier
         \/ \E a \in Actors : PublishTier(a)
         \/ \E m \in Threads, c \in Chunks : ResetTier(m, c)
BY DEF Next, ThreadStep, TaskStep, Run, LoadTier, TryEntry, SampleInvocations, CheckTier, CheckFlag, CheckEntry, Claim,
   LoseClaim, Compile, PublishEntry, EndCompile, ClearJolt, ClearSurge, StartTask, FailTask,
   EndTask, entryVars, Actors

\* An actor between the two stores was there before the step, with the same chunk
\* and tier, or has just stored its entry point.
LEMMA PublishStep ==
  ASSUME TypeOK, Next, NEW a \in Actors, pc'[a] = "publish"
  PROVE  \/ pc[a] = "publish" /\ chunk'[a] = chunk[a] /\ level'[a] = level[a]
         \/ PublishEntry(a)
<1>0. /\ Threads \subseteq Actors /\ Tasks \subseteq Actors /\ Threads \cap Tasks = {}
  BY LadderAssumption DEF Actors
<1>1. ASSUME NEW m \in Threads, ThreadStep(m), ~ PublishEntry(a)
      PROVE  pc[a] = "publish" /\ chunk'[a] = chunk[a] /\ level'[a] = level[a]
  BY <1>0, <1>1 DEF ThreadStep, Run, LoadTier, TryEntry, SampleInvocations, CheckTier, CheckFlag, CheckEntry, Claim,
     LoseClaim, SkipTier, PCAfterTier, Compile, PublishEntry, PublishTier, EndCompile,
     ResetTier, ClearJolt, ClearSurge, Goto, entryVars, TypeOK
<1>2. ASSUME NEW k \in Tasks, TaskStep(k), ~ PublishEntry(a)
      PROVE  pc[a] = "publish" /\ chunk'[a] = chunk[a] /\ level'[a] = level[a]
  BY <1>0, <1>2 DEF TaskStep, StartTask, FailTask, PublishEntry, PublishTier, EndTask, Goto,
     entryVars, TypeOK
<1> QED BY <1>1, <1>2 DEF Next

\* Every step preserves the invariant.
LEMMA BackedStep == TypeOK /\ BackedInv /\ Next => BackedInv'
<1> SUFFICES ASSUME TypeOK, BackedInv, Next PROVE BackedInv'
  OBVIOUS
<1>0. nullptr \notin Nat
  BY LadderAssumption
<1>1. TierBacked'
  <2> SUFFICES ASSUME NEW c \in Chunks, Pristine(c)', currentTier'[c] # Interpreter
               PROVE  entry'[c][currentTier'[c]] # nullptr
    BY DEF TierBacked
  <2>1. Pristine(c) /\ \A t \in JitTier : entry[c][t] # nullptr => entry'[c][t] # nullptr
    BY PristineStep
  <2>2. ASSUME currentTier'[c] = currentTier[c] PROVE entry'[c][currentTier'[c]] # nullptr
    <3>1. currentTier[c] \in JitTier
      BY <2>2 DEF TypeOK, Tier, JitTier
    <3> QED BY <2>1, <2>2, <3>1 DEF BackedInv, TierBacked
  <2>3. ASSUME NEW a \in Actors, PublishTier(a), currentTier'[c] # currentTier[c]
        PROVE  entry'[c][currentTier'[c]] # nullptr
    <3>1. /\ pc[a] = "publish" /\ entry' = entry
          /\ currentTier' = [currentTier EXCEPT ![chunk[a]] = level[a]]
      BY <2>3 DEF PublishTier, Goto
    <3>2. c = chunk[a] /\ currentTier'[c] = level[a]
      BY <2>3, <3>1 DEF TypeOK
    <3> QED BY <2>1, <3>1, <3>2 DEF BackedInv, PublishBacked
  <2>4. ASSUME NEW m \in Threads, NEW d \in Chunks, ResetTier(m, d),
               currentTier'[c] # currentTier[c]
        PROVE  FALSE
    BY <2>4 DEF ResetTier, TypeOK
  <2> QED BY <2>2, <2>3, <2>4, AnnounceStep
<1>2. PublishBacked'
  <2> SUFFICES ASSUME NEW a \in Actors, pc'[a] = "publish", Pristine(chunk[a])'
               PROVE  entry'[chunk'[a]][level'[a]] # nullptr
    BY DEF PublishBacked
  <2>1. CASE PublishEntry(a)
    <3>1. /\ born[a] \in Nat /\ chunk' = chunk /\ level' = level
          /\ chunk[a] \in Chunks /\ level[a] \in JitTier
          /\ entry' = [entry EXCEPT ![chunk[a]][level[a]] = born[a]]
      BY <2>1 DEF PublishEntry, Goto, TypeOK
    <3>2. entry'[chunk[a]][level[a]] = born[a]
      BY <3>1 DEF TypeOK
    <3> QED BY <1>0, <3>1, <3>2
  <2>2. CASE pc[a] = "publish" /\ chunk'[a] = chunk[a] /\ level'[a] = level[a]
    <3>1. chunk[a] \in Chunks /\ level[a] \in JitTier
      BY <2>2 DEF TypeOK
    <3>2. Pristine(chunk[a]) /\ (entry[chunk[a]][level[a]] # nullptr
                                   => entry'[chunk[a]][level[a]] # nullptr)
      <4>1. ASSUME NEW c \in Chunks, c = chunk[a], Pristine(c)'
            PROVE  Pristine(c) /\ (entry[c][level[a]] # nullptr => entry'[c][level[a]] # nullptr)
        BY <3>1, <4>1, PristineStep
      <4>2. \A c \in Chunks : c = chunk'[a] => Pristine(c)'
        BY DEF Pristine
      <4> QED BY <2>2, <3>1, <4>1, <4>2
    <3> QED BY <2>2, <3>2 DEF BackedInv, PublishBacked
  <2> QED BY <2>1, <2>2, PublishStep
<1> QED BY <1>1, <1>2 DEF BackedInv

\* Until a chunk is first invalidated, run's lock-free readers find code behind the
\* tier it announces: both publications store the entry point before the tier.
THEOREM TierBackedSafe == Spec => []TierBacked
<1>1. Init => BackedInv
  BY LadderAssumption DEF Init, BackedInv, TierBacked, PublishBacked, Actors
<1>2. TypeOK /\ BackedInv /\ [Next]_vars => BackedInv'
  <2>1. ASSUME BackedInv, UNCHANGED vars PROVE BackedInv'
    BY <2>1 DEF BackedInv, TierBacked, PublishBacked, Pristine, Invalidating, vars,
       entryVars, localVars
  <2> QED BY <2>1, BackedStep
<1>3. BackedInv => TierBacked
  BY DEF BackedInv
<1> QED
  BY <1>1, <1>2, <1>3, TypeCorrect, PTL DEF Spec

-----------------------------------------------------------------------------
(* The highest tier is used *)

\* One host thread, which only calls run.
SoloOnly == Ops = {"run"} /\ \A m, n \in Threads : m = n

\* Only tasks compile, and one that publishes holds the lock.
OnlyTasksCompile ==
  /\ \A m \in Threads :
       pc[m] \in {"idle", "fetched", "try", "slow", "tier", "flag", "check", "claim"}
  /\ \A k \in Tasks : pc[k] = "publish" => compileMu[chunk[k]] = k

\* A chunk gets Jolt code once, and before anything else.
JoltFirst ==
  /\ \A c \in Chunks :
       currentTier[c] # Interpreter \/ entry[c][Tier2Optimizing] # nullptr
         => entry[c][Tier1Baseline] # nullptr
  /\ \A k \in Tasks : level[k] = Tier1Baseline =>
       /\ pc[k] \in {"queued", "compiling"} => entry[chunk[k]][Tier1Baseline] = nullptr
       /\ pc[k] = "publish" => /\ entry[chunk[k]][Tier1Baseline] # nullptr
                               /\ entry[chunk[k]][Tier2Optimizing] = nullptr
                               /\ currentTier[chunk[k]] = Interpreter

\* What the thread found out about a tier still holds when it claims the flag.
ChecksHold ==
  \A m \in Threads : pc[m] \in {"check", "claim"} =>
     /\ \A k \in Tasks : ~ Compiles(k, chunk[m], level[m])
     /\ pc[m] = "claim" => entry[chunk[m]][level[m]] = nullptr

\* Surge is considered and compiled only above Tier 0.
SurgeAboveJolt ==
  \A a \in Actors :
     level[a] = Tier2Optimizing
       /\ pc[a] \in {"flag", "check", "claim", "queued", "compiling", "publish"}
     => currentTier[chunk[a]] # Interpreter

SoloInv == OnlyTasksCompile /\ JoltFirst /\ ChecksHold /\ SurgeAboveJolt /\ HighestTierUsed

\* A step of the thread that claims nothing moves the thread alone.
LEMMA ThreadSolo ==
  ASSUME TypeOK, SoloOnly, SoloInv, FlagTracksTask, NEW m \in Threads, ThreadStep(m),
         \A k \in Tasks : ~ Claim(m, k)
  PROVE  SoloInv'
<1>0. /\ Threads \subseteq Actors /\ Tasks \subseteq Actors /\ Threads \cap Tasks = {}
      /\ \A n \in Threads : n = m
  BY LadderAssumption DEF Actors, SoloOnly
<1>1. /\ UNCHANGED <<currentTier, entry, compiling, compileMu>>
      /\ \A k \in Tasks : pc'[k] = pc[k] /\ level'[k] = level[k] /\ chunk'[k] = chunk[k]
      /\ pc'[m] \in {"idle", "fetched", "try", "slow", "tier", "flag", "check", "claim"}
      /\ pc'[m] \in {"flag", "check", "claim"} =>
           level'[m] = level[m] /\ chunk'[m] = chunk[m]
      /\ pc'[m] = "flag" => currentTier[chunk[m]] = level[m] - 1
      /\ pc'[m] = "check" => pc[m] = "flag" /\ ~ compiling[chunk[m]][level[m]]
      /\ pc'[m] = "claim" => pc[m] = "check" /\ entry[chunk[m]][level[m]] = nullptr
  BY <1>0 DEF ThreadStep, Run, LoadTier, TryEntry, SampleInvocations, CheckTier, CheckFlag,
     CheckEntry, LoseClaim, SkipTier, PCAfterTier, Compile, PublishEntry, PublishTier,
     EndCompile, ResetTier, ClearJolt, ClearSurge, Goto, entryVars, TypeOK, SoloOnly,
     SoloInv, OnlyTasksCompile
<1>2. OnlyTasksCompile'
  BY <1>0, <1>1 DEF SoloInv, OnlyTasksCompile
<1>3. JoltFirst'
  BY <1>0, <1>1 DEF SoloInv, JoltFirst
<1>4. ChecksHold'
  <2>1. CASE pc'[m] = "check"
    <3>1. /\ chunk[m] \in Chunks /\ level[m] \in JitTier
          /\ ~ compiling[chunk[m]][level[m]]
      BY <1>0, <1>1, <2>1 DEF TypeOK
    <3>2. \A k \in Tasks : ~ Compiles(k, chunk[m], level[m])
      BY <3>1 DEF FlagTracksTask
    <3> QED BY <1>0, <1>1, <2>1, <3>2 DEF ChecksHold, Compiles, InFlight
  <2>2. CASE pc'[m] = "claim"
    BY <1>0, <1>1, <2>2 DEF SoloInv, ChecksHold, Compiles, InFlight
  <2>3. CASE pc'[m] \notin {"check", "claim"}
    BY <1>0, <2>3 DEF ChecksHold
  <2> QED BY <2>1, <2>2, <2>3
<1>5. SurgeAboveJolt'
  <2> SUFFICES ASSUME NEW a \in Actors, level'[a] = Tier2Optimizing,
                      pc'[a] \in {"flag", "check", "claim", "queued", "compiling", "publish"}
               PROVE  currentTier[chunk'[a]] # Interpreter
    BY <1>1 DEF SurgeAboveJolt
  <2>1. CASE a \in Tasks
    BY <1>1, <2>1 DEF SoloInv, SurgeAboveJolt
  <2>2. CASE a = m
    BY <1>0, <1>1, <2>2 DEF SoloInv, SurgeAboveJolt, Tier2Optimizing, Interpreter
  <2> QED BY <1>0, <2>1, <2>2 DEF Actors
<1>6. HighestTierUsed'
  <2>1. \A n \in Threads : ~ Invalidating(n)
    BY DEF SoloInv, OnlyTasksCompile, Invalidating
  <2> QED BY <1>1, <2>1 DEF SoloInv, HighestTierUsed
<1> QED BY <1>2, <1>3, <1>4, <1>5, <1>6 DEF SoloInv

\* A task that is queued has passed the thread's three checks.
LEMMA ClaimSolo ==
  ASSUME TypeOK, SoloOnly, SoloInv, NEW m \in Threads, NEW k \in Tasks, Claim(m, k)
  PROVE  SoloInv'
<1>0. /\ Threads \subseteq Actors /\ Tasks \subseteq Actors /\ Threads \cap Tasks = {}
      /\ \A n \in Threads : n = m
  BY LadderAssumption DEF Actors, SoloOnly
<1>1. /\ UNCHANGED <<currentTier, entry, compileMu>>
      /\ \A j \in Tasks \ {k} : pc'[j] = pc[j] /\ level'[j] = level[j] /\ chunk'[j] = chunk[j]
      /\ pc[m] = "claim" /\ level[m] \in JitTier /\ chunk'[m] = chunk[m]
      /\ pc'[m] \in {"tier", "idle"}
      /\ pc'[k] = "queued" /\ level'[k] = level[m] /\ chunk'[k] = chunk[m]
  BY <1>0 DEF Claim, PCAfterTier, TypeOK
<1>2. OnlyTasksCompile'
  BY <1>0, <1>1 DEF SoloInv, OnlyTasksCompile
<1>3. JoltFirst'
  BY <1>0, <1>1 DEF SoloInv, JoltFirst, ChecksHold
<1>4. ChecksHold'
  BY <1>0, <1>1 DEF ChecksHold
<1>5. SurgeAboveJolt'
  BY <1>0, <1>1 DEF SoloInv, SurgeAboveJolt, Actors
<1>6. HighestTierUsed'
  <2>1. \A n \in Threads : ~ Invalidating(n)
    BY DEF SoloInv, OnlyTasksCompile, Invalidating
  <2> QED BY <1>1, <2>1 DEF SoloInv, HighestTierUsed
<1> QED BY <1>2, <1>3, <1>4, <1>5, <1>6 DEF SoloInv

\* What every step of a task leaves alone.
LEMMA TaskAlone ==
  ASSUME TypeOK, NEW k \in Tasks, TaskStep(k)
  PROVE  /\ \A a \in Actors \ {k} : pc'[a] = pc[a] /\ level'[a] = level[a]
         /\ chunk' = chunk /\ chunk[k] \in Chunks
         /\ pc'[k] # "free" => level'[k] = level[k]
<1>0. Tasks \subseteq Actors
  BY DEF Actors
<1> QED BY <1>0 DEF TaskStep, StartTask, FailTask, PublishEntry, PublishTier, EndTask, Goto,
       entryVars, TypeOK

\* Starting, failing and ending a task publish nothing.
LEMMA QuietTaskSolo ==
  ASSUME TypeOK, SoloOnly, SoloInv, NEW k \in Tasks, TaskStep(k),
         ~ PublishEntry(k), ~ PublishTier(k)
  PROVE  SoloInv'
<1>0. Threads \subseteq Actors /\ Tasks \subseteq Actors /\ Threads \cap Tasks = {}
  BY LadderAssumption DEF Actors
<1>1. /\ UNCHANGED <<currentTier, entry, compileMu>>
      /\ pc'[k] \in {"free", "compiling"} /\ pc[k] # "free"
      /\ pc'[k] = "compiling" => pc[k] = "queued"
  BY <1>0 DEF TaskStep, StartTask, FailTask, EndTask, Goto, entryVars, TypeOK
<1>2. OnlyTasksCompile'
  BY <1>0, <1>1, TaskAlone DEF SoloInv, OnlyTasksCompile
<1>3. JoltFirst'
  BY <1>0, <1>1, TaskAlone DEF SoloInv, JoltFirst
<1>4. ChecksHold'
  BY <1>0, <1>1, TaskAlone DEF SoloInv, ChecksHold, Compiles, InFlight
<1>5. SurgeAboveJolt'
  BY <1>0, <1>1, TaskAlone DEF SoloInv, SurgeAboveJolt
<1>6. HighestTierUsed'
  BY <1>0, <1>1, TaskAlone DEF SoloInv, HighestTierUsed, Invalidating
<1> QED BY <1>2, <1>3, <1>4, <1>5, <1>6 DEF SoloInv

\* The first store of a publication: Jolt code comes first, and a chunk has no
\* other job for the same tier.
LEMMA PublishEntrySolo ==
  ASSUME TypeOK, SoloOnly, SoloInv, SingleFlight, NEW k \in Tasks, PublishEntry(k)
  PROVE  SoloInv'
<1>0. /\ Threads \subseteq Actors /\ Tasks \subseteq Actors /\ Threads \cap Tasks = {}
      /\ nullptr \notin Nat /\ nullptr \notin Tasks
  BY LadderAssumption DEF Actors
<1> DEFINE c == chunk[k]
           t == level[k]
<1>1. /\ pc[k] = "compiling" /\ pc'[k] = "publish" /\ c \in Chunks /\ t \in JitTier
      /\ chunk' = chunk /\ level' = level /\ currentTier' = currentTier
      /\ \A a \in Actors \ {k} : pc'[a] = pc[a]
      /\ compileMu[c] = nullptr /\ compileMu'[c] = k
      /\ \A d \in Chunks \ {c} : compileMu'[d] = compileMu[d] /\ entry'[d] = entry[d]
      /\ entry'[c][t] # nullptr /\ \A u \in JitTier \ {t} : entry'[c][u] = entry[c][u]
      /\ \A j \in Actors : chunk[j] \in Chunks
  BY <1>0 DEF PublishEntry, Goto, TypeOK
<1>2. \A j \in Tasks : pc[j] = "publish" => chunk[j] # c
  BY <1>0, <1>1 DEF SoloInv, OnlyTasksCompile
<1>3. t = Tier1Baseline =>
        /\ entry[c][Tier1Baseline] = nullptr
        /\ entry[c][Tier2Optimizing] = nullptr /\ currentTier[c] = Interpreter
  BY <1>1 DEF SoloInv, JoltFirst
<1>4. t = Tier1Baseline =>
        \A j \in Tasks : pc[j] # "free" /\ chunk[j] = c /\ level[j] = t => j = k
  BY <1>1 DEF SingleFlight, Compiles, InFlight
<1>5. t = Tier2Optimizing => currentTier[c] # Interpreter /\ entry[c][Tier1Baseline] # nullptr
  BY <1>0, <1>1 DEF SoloInv, SurgeAboveJolt, JoltFirst
<1>6. JitTier = {Tier1Baseline, Tier2Optimizing} /\ Tier1Baseline # Tier2Optimizing
  BY DEF JitTier, Tier1Baseline, Tier2Optimizing
<1> HIDE DEF c, t
<1>7. OnlyTasksCompile'
  BY <1>0, <1>1, <1>2 DEF SoloInv, OnlyTasksCompile, c
<1>8. JoltFirst'
  <2>1. \A d \in Chunks :
          currentTier'[d] # Interpreter \/ entry'[d][Tier2Optimizing] # nullptr
            => entry'[d][Tier1Baseline] # nullptr
    BY <1>1, <1>3, <1>5, <1>6 DEF SoloInv, JoltFirst
  <2>2. ASSUME NEW j \in Tasks, level'[j] = Tier1Baseline
        PROVE  /\ pc'[j] \in {"queued", "compiling"} => entry'[chunk'[j]][Tier1Baseline] = nullptr
               /\ pc'[j] = "publish" => /\ entry'[chunk'[j]][Tier1Baseline] # nullptr
                                        /\ entry'[chunk'[j]][Tier2Optimizing] = nullptr
                                        /\ currentTier'[chunk'[j]] = Interpreter
    <3>1. CASE j = k
      BY <1>1, <1>3, <1>6, <2>2, <3>1 DEF c, t
    <3>2. CASE j # k /\ chunk[j] = c
      BY <1>0, <1>1, <1>2, <1>4, <1>6, <2>2, <3>2 DEF SoloInv, JoltFirst
    <3>3. CASE j # k /\ chunk[j] # c
      BY <1>0, <1>1, <2>2, <3>3 DEF SoloInv, JoltFirst
    <3> QED BY <3>1, <3>2, <3>3
  <2> QED BY <2>1, <2>2 DEF JoltFirst
<1>9. ChecksHold'
  <2> SUFFICES ASSUME NEW n \in Threads, pc[n] \in {"check", "claim"}
               PROVE  /\ \A j \in Tasks : ~ Compiles(j, chunk[n], level[n])'
                      /\ pc[n] = "claim" => entry'[chunk[n]][level[n]] = nullptr
    BY <1>0, <1>1 DEF ChecksHold
  <2>1. /\ \A j \in Tasks : ~ Compiles(j, chunk[n], level[n])
        /\ pc[n] = "claim" => entry[chunk[n]][level[n]] = nullptr
    BY DEF SoloInv, ChecksHold
  <2>2. ~ (chunk[n] = c /\ level[n] = t)
    BY <1>1, <2>1 DEF Compiles, InFlight, c, t
  <2>3. chunk[n] \in Chunks /\ level[n] \in JitTier
    BY <1>0 DEF TypeOK
  <2>4. entry'[chunk[n]][level[n]] = entry[chunk[n]][level[n]]
    BY <1>1, <2>2, <2>3
  <2>5. \A j \in Tasks : Compiles(j, chunk[n], level[n])' => Compiles(j, chunk[n], level[n])
    BY <1>0, <1>1 DEF Compiles, InFlight
  <2> QED BY <2>1, <2>4, <2>5
<1>10. SurgeAboveJolt'
  BY <1>0, <1>1 DEF SoloInv, SurgeAboveJolt
<1>11. HighestTierUsed'
  BY <1>0, <1>1, <1>6 DEF SoloInv, HighestTierUsed, Invalidating
<1> QED BY <1>7, <1>8, <1>9, <1>10, <1>11 DEF SoloInv

\* The second store: only a Surge job announces a tier over Surge code.
LEMMA PublishTierSolo ==
  ASSUME TypeOK, SoloOnly, SoloInv, NEW k \in Tasks, PublishTier(k)
  PROVE  SoloInv'
<1>0. /\ Threads \subseteq Actors /\ Tasks \subseteq Actors /\ Threads \cap Tasks = {}
      /\ nullptr \notin Tasks
  BY LadderAssumption DEF Actors
<1> DEFINE c == chunk[k]
           t == level[k]
<1>1. /\ pc[k] = "publish" /\ pc'[k] = "done" /\ c \in Chunks /\ t \in JitTier
      /\ chunk' = chunk /\ level' = level /\ entry' = entry
      /\ \A a \in Actors \ {k} : pc'[a] = pc[a]
      /\ compileMu[c] = k
      /\ \A d \in Chunks \ {c} : compileMu'[d] = compileMu[d] /\ currentTier'[d] = currentTier[d]
      /\ currentTier'[c] = t /\ t # Interpreter
  BY <1>0 DEF PublishTier, Goto, TypeOK, SoloInv, OnlyTasksCompile, JitTier,
     Tier1Baseline, Tier2Optimizing, Interpreter
<1>2. \A j \in Tasks \ {k} : pc[j] = "publish" => chunk[j] # c
  BY <1>0, <1>1 DEF SoloInv, OnlyTasksCompile
<1>3. /\ t = Tier1Baseline => /\ entry[c][Tier1Baseline] # nullptr
                              /\ entry[c][Tier2Optimizing] = nullptr
      /\ t = Tier2Optimizing => entry[c][Tier1Baseline] # nullptr
  BY <1>0, <1>1 DEF SoloInv, JoltFirst, SurgeAboveJolt
<1>4. t = Tier1Baseline \/ t = Tier2Optimizing
  BY <1>1 DEF JitTier
<1>5. \A a \in Actors : chunk[a] \in Chunks
  BY DEF TypeOK
<1>6. \A n \in Threads : pc'[n] = pc[n]
  BY <1>0, <1>1
<1> HIDE DEF c, t
<1>7. OnlyTasksCompile'
  <2>1. \A j \in Tasks : pc'[j] = "publish" => compileMu'[chunk'[j]] = j
    BY <1>0, <1>1, <1>2, <1>5 DEF SoloInv, OnlyTasksCompile
  <2> QED BY <1>6, <2>1 DEF SoloInv, OnlyTasksCompile
<1>8. JoltFirst'
  <2>1. \A d \in Chunks :
          currentTier'[d] # Interpreter \/ entry'[d][Tier2Optimizing] # nullptr
            => entry'[d][Tier1Baseline] # nullptr
    BY <1>1, <1>3, <1>4 DEF SoloInv, JoltFirst
  <2>2. \A j \in Tasks : level'[j] = Tier1Baseline =>
          /\ pc'[j] \in {"queued", "compiling"} => entry'[chunk'[j]][Tier1Baseline] = nullptr
          /\ pc'[j] = "publish" => /\ entry'[chunk'[j]][Tier1Baseline] # nullptr
                                   /\ entry'[chunk'[j]][Tier2Optimizing] = nullptr
                                   /\ currentTier'[chunk'[j]] = Interpreter
    BY <1>0, <1>1, <1>2, <1>5 DEF SoloInv, JoltFirst
  <2> QED BY <2>1, <2>2 DEF JoltFirst
<1>9. ChecksHold'
  BY <1>0, <1>1, <1>6 DEF SoloInv, ChecksHold, Compiles, InFlight
<1>10. SurgeAboveJolt'
  BY <1>0, <1>1, <1>5 DEF SoloInv, SurgeAboveJolt
<1>11. HighestTierUsed'
  BY <1>0, <1>1, <1>3, <1>4, <1>6 DEF SoloInv, HighestTierUsed, Invalidating
<1> QED BY <1>7, <1>8, <1>9, <1>10, <1>11 DEF SoloInv

\* The invariant of one host thread that only calls run.
LEMMA SoloInvariant ==
  ASSUME SoloOnly
  PROVE  Spec => [](TypeOK /\ SoloInv)
<1>1. Init => SoloInv
  BY LadderAssumption DEF Init, SoloInv, OnlyTasksCompile, JoltFirst, ChecksHold,
     SurgeAboveJolt, HighestTierUsed, Actors, Interpreter, Tier1Baseline, Tier2Optimizing,
     JitTier
<1>2. TypeOK /\ FlagTracksTask /\ SingleFlight /\ SoloInv /\ [Next]_vars => SoloInv'
  <2> SUFFICES ASSUME TypeOK, FlagTracksTask, SingleFlight, SoloInv, [Next]_vars
               PROVE  SoloInv'
    OBVIOUS
  <2>1. CASE UNCHANGED vars
    BY <2>1 DEF vars, entryVars, localVars, SoloInv, OnlyTasksCompile, JoltFirst, ChecksHold,
       SurgeAboveJolt, HighestTierUsed, Compiles, InFlight, Invalidating
  <2>2. CASE Next
    BY <2>2, ThreadSolo, ClaimSolo, QuietTaskSolo, PublishEntrySolo, PublishTierSolo DEF Next
  <2> QED BY <2>1, <2>2
<1> QED
  BY <1>1, <1>2, TypeCorrect, SingleFlightSafe, PTL DEF Spec

\* With one host thread that only calls run, published Surge code is announced:
\* no late Jolt job can take the chunk down a tier again.
THEOREM HighestTierUsedSafe ==
  ASSUME SoloOnly
  PROVE  Spec => []HighestTierUsed
<1>1. SoloInv => HighestTierUsed
  BY DEF SoloInv
<1> QED
  BY <1>1, SoloInvariant, PTL

\* With one host thread the four loads of maybe_compile_ are as good as one: a
\* job is queued only for a tier that has no code.
THEOREM NoDuplicateJobSafe ==
  ASSUME SoloOnly
  PROVE  Spec => NoDuplicateJob
<1> DEFINE NoDuplicate ==
             \A k \in Tasks :
               pc[k] = "free" /\ pc'[k] = "queued" => entry[chunk'[k]][level'[k]] = nullptr
<1>1. TypeOK /\ SoloInv /\ [Next]_vars => NoDuplicate
  <2> SUFFICES ASSUME TypeOK, SoloInv, [Next]_vars,
                      NEW k \in Tasks, pc[k] = "free", pc'[k] = "queued"
               PROVE  entry[chunk'[k]][level'[k]] = nullptr
    OBVIOUS
  <2>0. Threads \subseteq Actors /\ Tasks \subseteq Actors /\ Threads \cap Tasks = {}
    BY LadderAssumption DEF Actors
  <2>1. PICK m \in Threads : Claim(m, k)
    <3>1. ASSUME NEW m \in Threads, ThreadStep(m), ~ Claim(m, k)
          PROVE  FALSE
      BY <2>0, <3>1 DEF ThreadStep, Run, LoadTier, TryEntry, SampleInvocations, CheckTier,
         CheckFlag, CheckEntry, Claim, LoseClaim, SkipTier, PCAfterTier, Compile,
         PublishEntry, PublishTier, EndCompile, ResetTier, ClearJolt, ClearSurge, Goto, TypeOK
    <3>2. ASSUME NEW j \in Tasks, TaskStep(j)
          PROVE  FALSE
      BY <2>0, <3>2 DEF TaskStep, StartTask, FailTask, PublishEntry, PublishTier, EndTask,
         Goto, TypeOK
    <3>3. CASE UNCHANGED vars
      BY <3>3 DEF vars, localVars
    <3> QED BY <3>1, <3>2, <3>3 DEF Next
  <2>2. chunk'[k] = chunk[m] /\ level'[k] = level[m] /\ pc[m] = "claim"
    BY <2>0, <2>1 DEF Claim, TypeOK
  <2> QED BY <2>2 DEF SoloInv, ChecksHold
<1> QED
  BY <1>1, SoloInvariant, PTL DEF Spec, NoDuplicateJob
=============================================================================
