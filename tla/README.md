# A verification project for ArcJIT

ArcJIT runs bytecode chunks in three tiers: an interpreter (Tier 0, *Spark*), a
baseline compiler (Tier 1, *Jolt*) and an optimising compiler (Tier 2, *Surge*).
This directory holds TLA+ models of its core, the TLC runs that check them on
small instances, and theorems that TLAPS checks for every value of the constants.
Every definition is translated from the code under `src/src/`; `PROJECT.json` maps
each one to its lines.

    tlc -config LadderRace.cfg MCTierLadder      one run; PROJECT.json lists all
    tlc -config Compilers.cfg MCPipeline         the compilers, about a minute
    tlapm TierLadderProofs.tla                   one module of proofs

## 1. The system

| Component | State | Operations | Talks to |
|---|---|---|---|
| Runtime, `runtime/runtime.cpp` | one `ChunkEntry` per chunk: invocation counter, `current_tier`, two entry points, two compiling flags, `compile_mu`, record ids | `run`, `maybe_compile_`, `compile_tier1/2`, `osr_*`, `run_at_tier`, `invalidate_chunk` | all of the below; enkiTS executes its compile tasks |
| SafepointManager and MutatorState, `runtime/safepoint.h` | a state word per mutator, the list of mutators under a mutex | register, unregister, request, release; the mutator polls | the interpreter polls every 64 opcodes |
| Interpreter, `interp/interpreter.h` | operand stack, `CallFrame`s, local slots, try stack | `run` and one case per opcode | called by `run`; profile goes to the Meter |
| Watchdog, `machinery/watchdog.cpp` | assumption records, an index by kind and payload, a counter | register, invalidate by id and by kind | `compile_tier2`, background tasks |
| Trip, `machinery/trip.cpp` | code records with state and dependencies | register code, invalidate code, invalidate by assumption | `compile_tier1/2`, `invalidate_chunk` |
| Capacitor | allocations with age and hits, a total | register, hit, age, evict | `compile_*` |
| Governor, Meter, profile | counters per bytecode location, thresholds | record, decide | interpreter writes; the Runtime asks only to log |
| Fuse, Regulator, Relay, Ground Fault, Probe | budgets, counters | check, record | Runtime |
| Symbol table, values, heap | hash table with tombstones; tagged values with reference counts | get, set, has, remove; retain, release | interpreter |
| Tier 1 compiler, `tier1/tier1.cpp` | virtual-register code, live ranges, a code buffer | lower a chunk, linear scan, emit | compile tasks, Tier 2 |
| Tier 2 compiler, `tier2/tier2.cpp`; passes, `passman/pass.cpp` | sea-of-nodes graph | lower, run the passes, lower back to Tier 1 code | compile tasks |
| Graph, dominance, verifier, replay, arena, bitmask, `core/` | nodes with input and use lists | add, replace, remove; analyses | passes |
| Deopt validator, fuzzer, drivers | none that outlives a call | testing and measuring | - |

Behaviours that are hard here, and what makes each component correct:

* **Ladder.** `run` reads a `ChunkEntry` without a lock while host threads compile,
  worker threads publish and another thread invalidates. Correct: one compile job
  per chunk and tier; a flag is set exactly while its job lives; the tier a reader
  sees has code; a hot chunk climbs; a failed compilation leaves the chunk
  compilable; an invalidation leaves no code behind.
* **Safepoints.** Both sides spin on one word per mutator, and the mutators come and
  go. Correct: the request returns, everyone it found is stopped until the release,
  everyone stopped resumes.
* **Code bookkeeping.** Ids of two registries are copied into the `ChunkEntry`, kept
  across recompilation and used at invalidation. Correct: an id names the chunk's own
  code; running code is Valid while its assumptions hold; counters and index agree
  with the records.
* **Interpreter.** Each bytecode call recurses in C++ and holds a reference into a
  vector of frames; errors unwind frames from inside an inner recursion. Correct:
  the recursion and the frames stay in step, and no function meets an operand, a
  local or a try region of another.
* **Variables.** A name is looked up through the hash tables of all frames, which probe,
  wrap around and grow. Correct: the frames behave as a chain of maps.
* **Jolt.** A virtual stack stands for the operand stack, a linear scan gives registers
  away and takes them back. Correct: two live values never share a home, a home holds
  its value to the last use, and the code returns what Spark returns.
* **Surge.** A chunk becomes a graph, fifteen passes rewrite it in rounds until nothing
  changes, and it becomes linear code again. Correct: use lists and counts stay exact,
  no pass kills what is needed, dominators are dominators, the rounds come to rest, and
  the code returns what Jolt's code returns.
* **Machinery.** Profiles, code sizes and ages steer what is compiled, trusted and evicted.
  Correct: totals fit lists, the coldest code goes first, one type is trusted only where
  no other was seen.

`PROJECT.json` lists the hazards line by line, with the properties that cover them.

## 2. What is modelled

| Module | Models | Grain of an action |
|---|---|---|
| `TierLadder` | `run`, `maybe_compile_`, both compile tasks, `compile_tier1/2`, `invalidate_chunk` | one shared access |
| `Safepoint` | `SafepointManager`, `MutatorState`, the interpreter's poll | one access to a state word |
| `StopTheWorld` | the contract of a global safepoint (abstract) | - |
| `Watchdog`, `Trip` | the two registries | one call (each holds its mutex throughout) |
| `CodeRegistry` | the Runtime's compile and invalidate paths through `Watchdog` and `Trip`, which it composes | one Runtime call, one host thread |
| `Interp` | frames, stack, locals, try stack for arbitrary bytecode | one opcode |
| `Variables` | `lookup_var_`, `set_var_`, calls and returns, `SymbolTable` | one access to a name |
| `Scopes` | a chain of maps (abstract) | - |
| `Bytecode` | chunks, and what Spark computes for them with integers | a function |
| `Jolt` | `ChunkLowerer`, live intervals, the machine code of each `Tier1Inst` | functions |
| `LinearScan` | the loop of `linear_scan` | one interval |
| `JoltRun` | `Tier1Compiler::compile` on a function: the scan, then its code; composes the two above | one interval or instruction |
| `JoltChunk` | `lower_chunk_to_tier1` and `compile` on a chunk, beside what Spark makes of it; composes `Bytecode` and `JoltRun` | one interval or instruction |
| `Loops` | what a counted loop computes | a function |
| `SonGraph` | nodes, edges and use lists of `core/graph.h` | functions |
| `GraphEdits` | any sequence of edits through that interface | one edit |
| `Surge` | `Tier1ToSoN`, `SoNToTier1` | functions |
| `Dominance` | `compute_dominance`, `compute_loops` | functions |
| `Passes` | the passes of the Gigavolt pipeline | functions |
| `Pipeline` | `lower_chunk_to_tier1`, `compile`, `compile_at_tier2`, `run_to_fixpoint`, composed of the modules above from `Bytecode` on | one interval, instruction or pass |
| `Machinery` | Capacitor; Meter and Governor for one bytecode offset | one call |
| `MC*` | instances for TLC | - |
| `*Proofs` | theorems | - |

### TierLadder

`invocations`, `currentTier`, `entry`, `compiling` and `compileMu` are the fields of
`ChunkEntry` (`runtime.h:92-111`). An actor (a host thread or a task object) has a
control point `pc` and the local variables that the code holds across two shared
accesses: the tier it tries or compiles (`level`) and the thresholds that its single
sample of the counter has reached (`due`). `entry[c][t]` names code by the *epoch* it
was compiled in; the epoch counts the invalidations and exists only for the
properties. The atomics are relaxed in places and the entry points are plain
pointers. The JIT emits x86-64 only, where a load or a store of a word is single and
in order with the others of its kind, and every decision in `run` and
`maybe_compile_` is a chain of dependent branches; the interleavings of single
accesses are therefore the outcomes the build can produce. enkiTS is outside `src/`
and is modelled by how it is used: a queued task is executed at some time by a worker.
With a full pipe enkiTS executes a task on the calling thread; this is not modelled.

### Safepoint

A mutator enters a dispatch loop, executes opcodes, polls every `PollInterval`
opcodes (64 in the code), announces itself, spins, and leaves. Each loop runs a chunk
or a callee of any of `ChunkLengths` and counts from 0; length 0 is an endless loop, as
a program with a back edge has. Outside of a loop a mutator may stay for ever, idle or in
native code. The requester's two loops over the mutators are taken one mutator at a time.
`StopTheWorld` states what the requester is promised; `Safepoint` refines it.

That a request returns needs more than the code ensures, and the liveness properties name
what they need. `EveryoneKeepsPolling`: each registered mutator comes to a poll again and
again. `NoneOvertaken`: no request finds a mutator that has not yet seen its release.

### Watchdog, Trip, CodeRegistry

Each registry function is an operator on the registry's state. `CodeRegistry`
gives the states of both registries and of the `ChunkEntry` ids to the Runtime's
paths: compile Tier 1, compile Tier 2 with its assumptions, install by a background
task (which registers nothing), `invalidate_chunk`, and the host's own calls to the
Watchdog and to Trip. Keys of the Watchdog's index take the payload modulo
`PayloadMod` (2^56), so that colliding payloads occur in the instance.

### Interp

Bytecode is arbitrary: at every step the current function may execute any opcode
that its operands allow. In place of an instruction pointer a reader keeps what the
code at that pointer relies on: the number of operands the function has pushed, and
the number it had before each try region it is in. `frames` is the storage of the
vector `frames_`, which the code reserves in advance: a popped frame can still be
read and written through the reference that a C++ activation holds. `loops` is the
stack of C++ activations of `dispatch_loop_`. Where the program has undefined
behaviour after this (a symbol table deleted twice) the model goes on as if the
delete had no effect; a table is `"freed"` from the first delete on. `Jump` and
`Import` change the instruction pointer only, and so nothing in the model.

`Habits` says what programs do beyond the tidy ones: let an error of a callee reach a
try region of its caller (`catch_in_caller`), return with operands besides the result,
as a `Return` inside a `for` loop does (`leave_operands`), end inside a try region
(`leave_try`), or bind more parameters than the function has local slots
(`extra_params`; `Call` compares neither number with the other). With no habit the nesting
properties hold. With any of them the code breaks one: `InterpCatch` shows the first; under the
second `ReturnRestoresCaller`, under the third `TriesLive`, under the fourth `LocalsCleared`
is violated too. Local slots are numbers without an upper end; `LocalsInBounds` says when they
stay inside the array.

### Variables and Scopes

`tables` holds the table of each frame, the globals first. `find_slot`, `has`, `get`,
`set` and `grow` are functions on a table; `Hash` is any function, so that names
collide. No code calls `remove`, and a bucket is empty or holds a name. `Scopes` is the
chain of maps that the comments of the walk describe (`interpreter.h:216-219`, `:232`): a
name belongs to the innermost scope that has it. `Variables` reads its full buckets as
such maps (`Chain`). The code does not implement `Scopes` at every step: `has` is true for
every name while a bucket on the way is free, and the walk then ends at a frame that lacks the name
(`Misled`). The history variable `misled` marks these steps. `TablesAreScopes` asks that every
other step is one of the chain of maps, and of a misled one that it misses the name or
defines it in a table that lacked it (`Misplaced`). With a `has` that tells absent names, no step is
misled and the property is the refinement of `Scopes`.

### The compilers

`Bytecode`, `Jolt`, `SonGraph`, `Surge`, `Dominance` and `Passes` are functions, and
`Pipeline` runs them one after the other on one job. Jolt's part of it (`Baseline`) is
`JoltChunk`: a chunk is lowered (`Lower`), scanned interval by interval and its code executed
instruction by instruction (`Compile`: the actions `Place`, `Enter`, `Step` of `JoltRun`;
`Answer`). `JoltChunk` alone starts from any chunk, and `JoltRun` alone, with `JoltInit`, from
any function in place of one. Then the same function goes through Surge: it falls back to Jolt (`FallBack`), or becomes a graph
(`BuildGraph`), passes run one at a time and round by round (`RunPass`), the fuse may
blow (`Blown`), and the graph becomes a function (`LowerBack`) that is scanned and
executed in turn. The profilers drive the same steps for functions with branches, which
`compile_at_tier2` hands back; a job of theirs ends when the function has been built.

* A program point is an index of an instruction; a label is the index it stands before.
* A machine has `rax`, the allocatable registers, the stack frame and the locals. The
  frame is laid out as the code lays it out: callee-saved registers in the first cells
  below `rbp`, and spill slots that begin at the first cell too. `Junk` is what
  nobody wrote. `virt` runs the same instructions over virtual registers: it is what the
  registers and cells are compared with.
* A node is known by its index, 0 being the sentinel. `users` is the intrusive list,
  newest first, with stale entries; `use_count` has its 16 bits (`Uint16`). Of the flags
  and types those a pass reads are kept. The passes are one way to edit a graph;
  `GraphEdits` makes the edits of the interface in any order, on nodes and edges of
  any kind. A node is replaced by another one, as every caller does.
* An invalid `NodeId` used as an index (`LocalForward` and `compute_dominance`, for code after a
  `Return`) reads past the end of a vector. The read yields zero, which both skip, or the process
  dies (`Die`, where `ReadsPastEnd` says so). What else could lie there is left out.
* A reference that a pass reads after `add_node` may have moved the nodes is a free
  choice of what it reads (`garbled`), where `Moves` says that the vector is full.
* `deviations` records which of the known differences between Spark, Jolt and Surge a
  job has met; the properties on results are about jobs that met none (section 5).
* Operands are integers of `WordBits` bits. Objects are opaque: a list or a field is 0,
  as both compilers have it. A chunk whose reference result is no integer is still
  compiled and executed, and only not compared.

### Machinery

`allocations` and `total` are the Capacitor's list and counter, `replaced` remembers that
an address was registered twice, which overwrites the entry and adds its size again. A
sort leaves equal entries in any order (`Orders`). `site` is one `ProfileEntry`: sites
share nothing. `seen` and `quiet` are the history the property speaks of. `Confidence` and
`decide` are the functions of `meter.h` and `governor.cpp` with their thresholds as constants.

### Operators named "Fault"

An operator whose comment begins with "Fault" is not part of a model. It is the
operator after it with a plausible bug. `PROJECT.json` pairs each property with one,
and TLC finds the property violated when the model uses it. The fault is written
before the operator it replaces, in the same module.

## 3. The runs

| Run | Instance | Shows |
|---|---|---|
| `LadderRace` | 1 chunk, 2 threads, 2 tasks, thresholds 1 and 2, all operations, failures | one job per tier; flags are exact; the announced tier has code until the first invalidation |
| `LadderSolo` | 2 chunks of which one may fail, 1 thread, 2 tasks, `run` only, fair | a lone host thread uses the best code, compiles nothing twice; a hot chunk that compiles gets Jolt code; flags are released |
| `LadderStaleCode` (violation) | 1 chunk, 1 thread, 2 tasks | a task in flight publishes code after `invalidate_chunk` |
| `LadderNoSurge` (violation) | 1 chunk, 1 thread, fair | calls at Tier 1 never start a Tier-2 job |
| `SafepointOnce` | 2 mutators, 1 requester, 2 requests, poll every 2 opcodes, chunks of 1, of 3 and without end, fair | a request stops whom it found; it returns if they keep polling and none was overtaken, and they resume; refinement of `StopTheWorld` |
| `SafepointAgain` (violation) | 1 mutator whose chunks never end, 2 requests, fair | a second request overwrites a release: both sides wait for ever |
| `RegistryIds` | 2 chunks, payloads {1, 2, 4} with keys modulo 3, 3 assumptions, 4 code records | ids, counters and index are consistent; running code is Valid while its assumptions hold |
| `RegistryFirstId` (violation) | the same | the first compiled code is not tripped |
| `InterpTidy` | 3 frames, 1 local, 3 operands, 2 try entries, no habit | frames, windows, operands and try entries never mix, whatever fails or is caught where it failed |
| `InterpCatch` (violation) | the same with `catch_in_caller` | a caught error of a callee corrupts the caller's frame |
| `Compilers` | 723 chunks and 7 graphs, 2 registers, words of 4 bits, 8 rounds | homes are disjoint and hold their values; Jolt agrees with Spark and Surge with Jolt; the graph stays consistent under every pass; dominators are exact; the rounds settle |
| `Machinery` | 3 names of which two collide, tables from 2 buckets, 2 frames; 3 code addresses; 2 types, thresholds 2, 4 and 6 | tables are a chain of maps wherever `has` tells the truth, and lose no name elsewhere; the total fits the list; the coldest code goes first; one type is trusted only where no other was seen |

### Bounds, and why they are enough

* The ladder treats chunks independently: they share no field but `chunks_mu_`, which
  only invalidations hold for longer than a look-up. One chunk with two threads and
  two tasks has every race for a flag, for `compile_mu` and between a publisher and a
  reader. Thresholds 1 and 2 keep their order; `InvLimit` above the second threshold
  lets the counter wrap. `MaxEpoch = 1` is one complete invalidation, which a task may
  overlap at either end.
* `SafepointOnce` has two mutators, so that one registers or leaves while the other is
  awaited. With a poll every 2 opcodes, a chunk of 1 ends before its poll, one of 3 polls once and
  ends, and one without end polls for ever; every loop chooses among them. The second request may
  find a mutator that still spins on the release of the first, or one that went on.
  The premise `NoneOvertaken` drops the former from the liveness properties, which the safety
  properties keep. The premises can be met with both requests returning and every mutator resuming.
  Neither is idle: without `EveryoneKeepsPolling` TLC finds an idle mutator that blocks a request,
  without `NoneOvertaken` the lasso of `SafepointAgain`.
* In `RegistryIds`, payloads 1 and 4 share a key and 2 does not; four records are enough
  for both tiers of a chunk, a recompilation and another chunk's code.
* `InterpTidy` has a caller, a callee and a callee's callee; a second try entry for nested
  regions in one function or two; a leftover operand from an earlier run. `kFrameMax`
  and `kTryMax` are reached. `MaxLeftover` cuts only the start of further runs: see the
  divergence on `Halt`.
* `Compilers` fixes the chunks by their shape (`MCPipeline`): every operation on every pair
  of leaves, pairs and triples of operations the passes rewrite together, four values on
  the stack with two registers (every branch of the scan: take, steal, spill), stores
  and loads of two locals in every order, diamonds with code that joins, returns early
  or carries an operand, and one chunk for every other opcode. Both registers are
  needed for a steal to pass a register on; a third would need longer chunks for the
  same branches. In 4 bits sums, products and shifts overflow; powers of two from 1 to 4
  meet `StrengthReduce`; exponents above 7 do not exist, the slow path of `Pow` is
  reached with negative ones. A double has 3 significant bits (`DoubleBits`), fewer than a
  word, as in the code. Two chunks jump back, a `while` loop and a `for` loop.
  Chunks settle within three rounds; 8 is the
  code's budget, which only the graph with an allocation uses up. The graphs add what no chunk makes: loops, closed branches,
  allocations, checks and nested joins whose predecessors lie at different depths.
  The stage `"edits"` builds graphs from the empty one by `GraphNext`: two nodes
  (`MaxNodes`) with up to two inputs, one label, data edges, use lists of at most two
  entries (`MaxListed`), which is enough for a stale entry, an edge onto the node itself
  and a node that uses another twice. The theorem has none of these bounds.
* `Machinery`: tables of 2 and 4 buckets are full, grow and wrap around with three
  names; a table with a free bucket can lack a name, so that `has` misleads. Three addresses make an eviction choose and stop; thresholds of 2, 4 and 6
  samples with a cool-down of 2 keep the order 100 < 1000 < 10000 of the code and reach every
  decision. The three parts share no state, and a behaviour runs one of them.
* Deadlock is checked in every run but four. `SafepointOnce` and `SafepointAgain` switch it
  off: after a second request has overtaken a release nobody can go on, which is what
  `SafepointAgain` shows by its liveness property.
  `Compilers` and `Machinery` switch it off because a job ends when it is done, and a
  site and the Capacitor stop at their bounds (`MaxSamples`, `MaxUse`).

### Fairness

* Threads inside a Runtime call and workers with a task go on (weak fairness of their
  steps): no lock is held for ever and enkiTS runs what it was given. Threads keep
  calling `run` where a property is about a hot chunk. Nothing makes a thread
  compile or invalidate, or a compilation succeed.
* In `Safepoint` both sides spin with `yield`, so each is scheduled again. A
  mutator inside a dispatch loop goes on (`Dispatch`, `Announce`, `Resume`, `Leave`); a
  requester goes on with a request or a release it has begun and releases at some time. Nobody has
  to register, to leave the manager, to request, or to enter a loop: a registered mutator may be
  idle for ever. What the liveness properties need beside this are their premises, above.

## 4. What is proved

All theorems hold for every value of the constants that satisfies the ASSUMEs.

* **TierLadderProofs**: `TypeCorrect`; `SingleFlightSafe` and `FlagTracksTaskSafe`;
  `TierBackedSafe`. The two invariants `FlagTracksTask` and `SingleFlight` are inductive
  together (`FlightInv`) and neither is alone: if two tasks shared a flag, the first to
  end would clear it under the second, and without `FlagTracksTask` a clear flag does not
  say that no task is left. `BackedInv` adds to `TierBacked` that a publisher between its
  two stores has already set the entry point. None of these needs `compile_mu`: the
  compare-exchange and the order of the two stores carry the argument.
  `HighestTierUsedSafe` and `NoDuplicateJobSafe` assume `SoloOnly`: at most one host
  thread, which only runs chunks. With two threads both fail (section 5). Their invariant
  `SoloInv` adds that only tasks compile (`OnlyTasksCompile`), that Jolt's code is there
  before Surge's (`JoltFirst`, `SurgeAboveJolt`), and that what the thread has checked
  on its way to a claim still holds when it claims (`ChecksHold`), which is what a second
  thread would break.
* **SafepointProofs**: `TypeCorrect`, `StoppedSafe`, `AnnouncedIsStoppedSafe`,
  `Implements`, for one requester (`OneRequesterOnly`).
  `SafepointInv` adds that an announced mutator spins (`AnnouncedIsStopped`) and that the
  mutators a request has already awaited stay `Safepointed` (`ReachedStay`), which is where
  a second requester would break it. `Implements` maps each step to a step of
  `StopTheWorld` or to a stutter.
* **RegistryProofs**: `WatchdogSafe` and `ActiveIsValidSafe`, by `WatchdogInv`: types, the
  counter that equals the number of valid records, and the index that holds exactly the
  valid ids under their keys; a break by kind counts what the index held, so neither is
  inductive alone. `ByKindMatchesSafe`, an action property: under `WatchdogInv` the ids
  the index holds under a key are the valid assumptions of that kind and payload, as
  long as payloads fit the key (`ByKindExact`).
  `TypeCorrect`, `IdsAreOwnSafe`, `CountersExact`, by `RegistryInv`, the conjunction of the Watchdog's invariant, the types (a dependency names an existing
  record and an existing assumption), `ActiveIsCallable` and `IdsAreOwn`; types need
  `IdsAreOwn`, because `compile_tier2` files a dependency under the id the `ChunkEntry`
  keeps. `InstalledIsValidSafe` and `ClearedIsTrippedSafe` add that nothing broken or tripped is
  ever valid again, and that an invalidation trips records of its own chunk only.
* **InterpProofs**: `InterpTypeCorrect` and `FramesNestedSafe` assume `CaughtLocally`, that no
  function catches an error of its callee (`catch_in_caller` is no habit); `LocalsClearedSafe`
  also `ParamsFit`, that none binds more parameters than it has locals (nor `extra_params`). Programs may
  leave operands and try regions behind all the same. `FrameInv` adds `Room`: the windows of
  the running frames cover `0 .. localsTop - 1` without overlap, each at most `MaxLocals` long;
  and a caller has room for the operand its callee will push. `LocalsInBounds` draws the consequence for
  the array: slots and `locals_top_` stay below `kLocalsMax` if `FrameMax * MaxLocals` does.
  That is a condition on programs (64 locals for each of 1024 frames); the code checks it nowhere.
  `OperandsNestedSafe`, `TriesLiveSafe`, `ReturnRestoresCallerSafe` assume `Tidy`: no habit but
  `extra_params`. The third is the property that `InterpCatch` violates: the theorem
  says that a program needs one of the other `Habits` to break it. `NestInv` strengthens `TriesLive` in both directions:
  the entries are ordered as the regions are nested (`EntriesOrdered`), and every open region
  has its entry (`EntriesComplete`). Without the second a `TryPop` could remove an
  entry of an outer function; without the first an error could find an inner entry
  below an outer one. It holds together with `FrameInv`, on which the ranges rest.
* **JoltProofs**: `ScanTypeCorrect`, `HomesDisjointSafe`, `RoomMeansFreeSafe`, for any
  sorted sequence of intervals and any number of registers. `HomesDisjoint` speaks of homes, but
  the scan chooses by the array `used`; `ScanInv` ties them: the active intervals hold
  exactly the used registers, one each (`ActiveHold`), what left the list ended before the
  next start or lives on the stack (`GoneEnded`), an interval not yet placed has no home
  (`Homeless`), and slots are numbered as given out (`SlotsBelow`). `RoomMeansFree` follows by
  counting.
  `HomesHoldValuesSafe` is about `JoltSpec`: any function of any length, over all the
  opcodes, with any number of registers, compiled and run. `JoltInv` joins `ScanInv` to
  `InStep`: both runs are at the same instruction with the same locals, and a virtual
  register that is defined and whose life control is in has its value at home. Its
  argument: `Intervals` yields, in order, exactly the lives from the first definition to the last
  mention (`IntervalsLive`, counting the births up to a position); so an operand is read
  inside its life (`OperandsAgree`), a write changes one home and no home of an
  overlapping life (`WrittenHeld`, from `HomesDisjoint`), and control that is in a life
  after an instruction was in it before (`LifeGoesOn`). This last step is where `linear_scan`
  ignores back edges. It needs the hypothesis of `JoltInit`: jumps lead forward
  (`Forward`), or each operand is defined earlier in the text and no jump enters a life
  from outside (`Enclosed`), as in a `while` loop. The assumption `FunctionsAreOrderly`
  has TLC evaluate that `ChunkLowerer` gives such functions for all chunks of the run but the
  one with a `for` loop, whose increment is read in the next round before its textual
  definition. (A graph is lowered back without jumps: `compile_at_tier2` hands
  branches to Jolt.)
  `JoltAgreesWithSparkSafe` is about `ChunkSpec`: any chunk of any length over all the opcodes
  whose operands are in range (`IsChunk`) and whose function is `Forward` or `Enclosed`, with any
  number of registers and any word size, is lowered, scanned and run, and returns what Spark
  returns. The property says nothing of a chunk until its code has ended, so the invariant
  `ChunkInv` has to follow the run: while Spark's result is one to compare, the run has
  met no deviation and `Follows` Spark. That is, there is a position that Spark is about to execute,
  the machine code stands before what that position became (`At`), the virtual stack
  that `ChunkLowerer` had there names registers which hold the values on Spark's stack, the
  locals that Spark has set are the same, and a value just computed is in `rax` (`Mirrors`).
  The argument has four parts. *The two passes*: `SparkRunIs` and `LoweringIs` give the states of
  Spark and of the lowerer at each position (a fold each, replaced by a predicate on its steps);
  `FunctionOf` shows that what a position emitted stays where it is, is all in the final function, and that a
  jump finds the label of its target and no other; `LowersLoad`, `LowersSum`,
  `LowersQuiet`, `LowersPop` say what each opcode becomes. *Spark*: `SparkGoesOn` shows that
  while the result is one to compare, no operation fails and every jump taken leads forward
  with an empty stack (with operands Spark's history `carried` is set for good, and a
  jump back with an empty stack ends in no integer). This is what makes a join sound:
  `MirrorsAnywhere`, whatever the virtual stack holds at a label. *The machine*: `StepTo`
  restates a step in terms of virtual registers alone, from `JoltInv`, so that registers,
  spills and lives are used through `HomesHoldValues` only. *Together*: `StepFollows` takes one instruction,
  by the kind of its opcode; a `Pop` emits nothing and is passed over before the step
  (`LastReached`), and a label is passed in a step of its own (`LabelStep`). `EndFollows`
  shows that code that has ended has Spark's value in `rax`, whether it left by a `Return`, by a `Halt` or by running off
  its end. Opcodes that Spark leaves with no integer (lists, calls, `Div`, loops, tries) are
  in the chunk and are compiled; the theorem compares the runs that do not execute one.
  `MCPipeline` has TLC evaluate that the chunks of the run satisfy the hypotheses
  (`FunctionsAreOrderly`), but for the `for` loop.
* **MachineryProofs**: `GuardMeansOneTypeSafe` and `EvictsColdestSafe`. The first, for any
  thresholds, needs that `is_monomorphic` means that only the dominant type was
  sampled, and that `last_deopt_age` counts the samples since a deopt (`SiteInv`). The
  second, for any sizes and targets, needs only that the list is finite
  (`CapacitorInv`); its argument is on the sorted list: what is evicted is a prefix of it
  (`EvictedIsPrefix`), and the smallest that suffices. `TotalAddsUpSafe`: the counter of
  bytes is the sum over the list until a base is registered twice. The sum of the model is a fold;
  the proof characterises it by its recursion on subsets (`SumSplits`, `SumsAgree`) and
  then takes out or adds one allocation at a time (`TotalWithout`).
* **VariablesProofs**: `TablesRefineScopes`, that `Variables` takes steps of `Scopes` unless it is
  misled, for any names, values, hash function and first capacity (`VariablesAssumption`: positive);
  and its corollary `TruthfulRefinesScopes`: a behaviour that is never misled implements
  `Scopes`. The invariant is `ChainOK`: every table is `Good`, that is, its capacity is one of the
  doubled sizes, its count is the number of full buckets, and it is `Sound`: keys are
  distinct and every bucket between the hash of a key and the key is full (`Reaches`), which is
  what probing rests on. `Finds` shows that `FindSlot` finds the key or a free bucket,
  `GrowKeeps` that rehashing loses and doubles no name. Each action then maps to its abstract one, or to
  `Misplaced` (`ScopeStep`).
* **GraphProofs**: `UsesExactSafe` for `GraphSpec`, with any labels, edge kinds and up to 65535
  inputs of a node (`GraphEditsAssumption`, the width of `input_count`). `GraphGood` says
  that inputs name nodes (`Closed`), that every edge is on its target's list, and that counts are
  exact modulo 2^16; while a node is linked or moved the count holds for
  the edges registered so far, and this partial form is what the loops keep (`LinkedGood`,
  `MovedOnce`). The list may hold stale and repeated entries: `replace_all_uses_with` rewrites all
  matching edges of a user at its first entry and finds none at the others.

Only model-checked:

* liveness (`HotGetsJolt`, `FlagReleased`, `RequestReturns`, `EveryRequestReturns`, `StoppedResumes`), which is out
  of the prover's reach;
* `SurgeAgreesWithJolt`, `NeededAlive`, `DominatorsExact`, `PassesSettle`: they are about
  what recursive definitions compute over a whole graph, and `Surge` and `Dominance` use RECURSIVE
  operators, in whose reach nothing can be proved. `JoltRun`, `JoltChunk` and `GraphEdits` stand
  apart from them for this reason. Two of the four are about bounded loops and not to be
  expected of every graph: `compute_dominance` gives up after 100 rounds, the passes after
  `MaxRounds`. Of `Pipeline`, which composes all of them, the theorems
  hold for Jolt's part, whose actions are those of `JoltChunk`.

The induction theorems of the library take an operator as a parameter, which the
provers cannot instantiate. Where a proof counts (loops over inputs, probes, sums) it
takes the smallest counterexample of a set of numbers instead (`NatSet`, `Smallest`,
`Counting`, from `NatLessThanWellFounded`), and a recursive function or fold enters by a
predicate that says what each step does (`IsPart`, `IsFill`, `IsLinking`, `IsMoving`, and
`IsWalk` for the loops written as a `Sweep`).

## 5. Divergences

Five have a run of their own (section 3, findings in `PROJECT.json`). Seen while
modelling, without a run of their own:

* Ladder: with two threads a tier can be compiled again after its job has ended between
  a thread's checks and its claim, and a thread can call a lower tier after a higher
  one was published. `compile_tier1/2` reads the entry point again after its lock is
  released and can return null after a concurrent invalidation
  (`runtime.cpp:351`, `:413`). A chunk whose compilation fails is submitted again on
  every later call, and the task objects are never freed.
* Safepoints: `request_global_safepoint` spins for ever on a registered mutator that is idle
  (`safepoint.h:86`), and, with the mutex held, blocks its unregistration. A dispatch loop shorter than
  the poll interval never polls, because `op_counter` starts again with each loop, nested calls
  included: a mutator may run short functions for ever and never poll. Native code polls nowhere, not at a `Jump`
  either (`tier1.cpp:588-607`). Two requesters at once break `WorldStopped`: one
  releases the other's mutators.
* Bookkeeping: Trip invalidates records but patches no entry point, contrary to
  `trip.h:43-44` and `runtime.cpp:226`. A recompilation leaves the old record Valid, and
  code installed by a background task has no record. Recompiled Tier-2 code can depend on
  an assumption that is already invalid. Payloads that agree modulo 2^56 share a key. A
  Watchdog callback runs under the Watchdog's mutex.
* Interpreter: `ForIter` stores the next index over the iterable (`interpreter.h:693`).
  `Halt` inside a function ends that function only. `Halt` and the end of a chunk leave
  the result on the stack. `locals_top_` is not checked against `kLocalsMax`.
  Arguments are bound to slots up to the number of parameters, whatever `max_locals` is (line 880): those
  above it lie in no frame's window, are not cleared (lines 894-898), and belong to whichever frame
  comes next.
* Symbol table: `has` is true for absent names once a slot is free, contrary to the
  comments at `interpreter.h:216-219` and `:232`: a name of an outer frame is not found
  past an inner table that holds any variable, except one of exactly 16, 32, ... names, and a
  store to it defines it in the inner one. As a property, `Scope!Spec` is violated by this;
  `TablesAreScopes` makes the exception by name (`misled`). A value set into a tombstone is stored without
  its key and removing an absent name changes the count, but nothing calls `remove`.
* Machinery: registering code again at a known address adds its size twice; the Runtime
  registers every allocation with size 0. `age_all` never cools hot code, whose hits are
  above what it cools. The Meter counts samples of other types, not types: the
  Governor's Polymorphic covers a count of 2 or 3, and 4, which a comment includes,
  yields Low confidence and no speculation.

### Jolt against Spark

`JoltAgreesWithSpark` is about chunks for which Spark returns an integer, that carry no
operand over a jump and whose last operation computed or copied the top of the stack.
Outside of that:

* `Div` truncates, and by zero leaves the dividend, where the comment at `tier1.cpp:348`
  says 0; Spark promotes to a float or raises. The least integer by -1 traps.
* `Halt` and the end of the code return whatever is in `rax`; operands that meet at a join are
  not merged; a label at the very end is never bound and the compilation fails (`Reject`).
* A constant that is no integer is loaded as its index. `Break` and `Continue` end the
  function. The loop of `ForIter` does not advance.
* Spill slots begin over the saved callee-saved registers (`tier1.cpp:186`): with any
  spill the caller's registers come back wrong. The slow path of `Pow` calls libc without
  saving registers (`clobbered`). The scan ignores back edges: a life that a jump enters
  from behind can find its home taken (`Enclosed`; only a `for` loop makes one).
* `ToFloat` leaves an integer, rounded to the 53 bits of a double (`tier1.cpp:547-553`).
  `ChunkLowerer` never emits it.

### Surge against Jolt

`SurgeAgreesWithJolt` is about jobs that met none of these, each recorded in `deviations`:

* `commuted`: `Sub`, `Div`, `Pow` and the orders are flagged Commutative, and GVN merges `a - b`
  with `b - a`, contrary to the comment at `pass.cpp:103-105`;
* `shifted`: `StrengthReduce` turns a division into a shift, which rounds negative
  numbers the other way;
* `garbled`: a reference read after `add_node`, in `AlgebraicSimp` and `StrengthReduce`;
* `assumed`: `SoNToTier1` emits the nodes no block took in node order, and an operand that
  comes later counts as 0;
* `clobbered` and `halted`: as for Jolt, with other registers and another `rax`.

A function with a branch falls back to Jolt, so that "The caller gets correct code"
(`tier2.cpp:1150`); the graph of such a function (`Profiler`) loses back edges, is lowered
back for its first block only, and takes the first input of a Phi.
After `BranchFold` closed a side of an `If`, a Phi keeps its input from there
(`NeededAlive` is stated without it); so does the Phi of a join behind code after a `Return`, one
of whose ways in is no node (`AllWaysOpen`). Escape analysis reports the same allocation in every
round, and such a graph uses all 8 rounds. LICM hoists nothing in any chunk or graph here: the body that
`compute_loops` finds leaves out the header, and with it the nodes that hang off it. `LocalForward` also rewires the
effect users of the load to the stored value. For code after a `Return`, whose control
and effect inputs are invalid, it reads out of bounds (`pass.cpp:909`), and so does
`compute_dominance` (`dominance.cpp:152`). A read that finds other than zero could even make the invalid id
a dominator; this third outcome is not modelled. In debug builds the verifier that runs after each pass aborts on graphs
these passes produce (`pass.h`, "Rule 42"); the models are of the release build.

## 6. Not modelled, and the plan

* Values and heap: reference counts, floats, strings and objects. `Interp` keeps no
  values, `Bytecode` integers only.
* `TierLadder`: `run_at_tier`, OSR and the thread-local entry cache, and lifetimes:
  `~Runtime` with tasks in flight, code that dies with the worker that compiled it.
* `Watchdog`: callbacks, which no code registers. `SymbolTable::remove`, which nothing calls.
* Jolt: instruction encoding, and the pops of the epilogue. Surge: `dump_graph_dot`, and
  `GlobalCodeMotionPass`, which is not in the pipeline. Graph: the arena.
* Fuse, Regulator, Relay, Ground Fault, Probe: counters that nothing but reports
  read. The Fuse is a free choice in `Pipeline` (`Blown`).
* Verifier, IR dump, replay, instrumentation, deopt validator, fuzzer, command line,
  benchmarks, profilers: they read, format, time or test.

The modules of the plan are written. What is left, most valuable first:

1. `CodeLifetime`: the entry cache, thread-local compilers and `~Runtime`, composed with
   `TierLadder`.
2. Values and reference counts over the operand stack of `Interp`, with the pops of `ForIter`.
3. The epilogue and the layout of the frame in `Jolt`, against the calling convention.
4. Surge without RECURSIVE operators, as `Loops` did it for Jolt, so that `SurgeAgreesWithJolt` for
   straight-line functions comes within reach: `Tier1ToSoN` and `SoNToTier1` first, with no pass
   between them.
