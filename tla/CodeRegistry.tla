---------------------------- MODULE CodeRegistry ----------------------------
(***************************************************************************)
(* How the Runtime (src/src/runtime/runtime.cpp) books the code it         *)
(* compiles: the ids each ChunkEntry keeps into Trip and the Watchdog.     *)
(* 0 in a ChunkEntry means "none", while Trip and the Watchdog number      *)
(* their records from 0.                                                   *)
(*                                                                         *)
(* One host thread, so a call of the Runtime is one action; TierLadder has *)
(* the interleavings.  The host also reaches the registries themselves     *)
(* through Runtime::watchdog() and trip(): it breaks assumptions, and it   *)
(* trips the code that depends on one it has broken, which nothing in      *)
(* src/ does by itself.                                                    *)
(***************************************************************************)
EXTENDS Trip, Watchdog

CONSTANTS
  Chunks,
  AddressOf,      \* the address of a chunk, the payload of its assumption
  TypeStable,     \* the kind of assumption the Runtime registers
  nullptr,        \* an entry point that is not set
  Unregistered    \* an entry point to code Trip was not told of

ASSUME RegistryAssumption ==
  /\ AddressOf \in [Chunks -> Payloads]
  /\ TypeStable \in Kinds
  /\ nullptr \notin Nat /\ Unregistered \notin Nat /\ nullptr # Unregistered

Tier == {"jolt", "surge"}

VARIABLES
  codeId,        \* tier1_code_id, tier2_code_id
  assumptionId,  \* assumption_id
  entry          \* tier1_entry, tier2_entry, named by the Trip record of the
                 \* code they lead to

chunkVars == <<codeId, assumptionId, entry>>
vars == <<chunkVars, tripVars, watchdogVars>>

Labels == Chunks \X Tier
CodeEntry == [state : CodeState, label : Labels]

TypeOK ==
  /\ WatchdogTypeOK
  /\ code \in Seq(CodeEntry)
  /\ dependents \subseteq AssumptionIds \X CodeIds
  /\ trippedCount \in Nat
  /\ codeId \in [Chunks -> [Tier -> Nat]]
  /\ assumptionId \in [Chunks -> Nat]
  /\ entry \in [Chunks -> [Tier -> CodeIds \cup {nullptr, Unregistered}]]

Init ==
  /\ TripInit /\ WatchdogInit
  /\ codeId = [c \in Chunks |-> [t \in Tier |-> 0]]
  /\ assumptionId = [c \in Chunks |-> 0]
  /\ entry = [c \in Chunks |-> [t \in Tier |-> nullptr]]

-----------------------------------------------------------------------------

(* An operator whose comment begins with "Fault" is not part of the model: it *)
(* is the operator after it with a plausible bug, for the mutants of          *)
(* PROJECT.json, which show that a property can fail.                         *)

\* Fault: compile_tier2 stores its id into tier1_code_id.
InstallAsJolt(c, t) ==
  /\ RegisterCode(<<c, t>>)
  /\ codeId' = [codeId EXCEPT ![c]["jolt"] = Len(code)]
  /\ entry' = [entry EXCEPT ![c][t] = Len(code)]

\* Code of tier t is installed and registered with Trip under the next id.
Install(c, t) ==
  /\ RegisterCode(<<c, t>>)
  /\ codeId' = [codeId EXCEPT ![c][t] = Len(code)]
  /\ entry' = [entry EXCEPT ![c][t] = Len(code)]

\* compile_tier1 registers an assumption for a chunk that has none.
CompileTier1(c) ==
  /\ Install(c, "jolt")
  /\ AddDependency({})
  /\ \/ /\ assumptionId[c] = 0
        /\ RegisterAssumption(TypeStable, AddressOf[c])
        /\ assumptionId' = [assumptionId EXCEPT ![c] = Len(assumptions)]
     \/ assumptionId[c] # 0 /\ UNCHANGED <<assumptionId, watchdogVars>>

\* Fault: the dependency is added for a chunk that has no assumption, too.
CompileTier2Depends(c) ==
  /\ Install(c, "surge")
  /\ AddDependency({assumptionId[c]})
  /\ UNCHANGED <<assumptionId, watchdogVars>>

\* compile_tier2 makes the code depend on the chunk's assumption, if it has one.
CompileTier2(c) ==
  /\ Install(c, "surge")
  /\ AddDependency({assumptionId[c]} \ {0})
  /\ UNCHANGED <<assumptionId, watchdogVars>>

\* A Tier1/Tier2CompileTask installs its code and tells neither registry.
InstallInBackground(c, t) ==
  /\ entry' = [entry EXCEPT ![c][t] = Unregistered]
  /\ UNCHANGED <<codeId, assumptionId, tripVars, watchdogVars>>

\* Fault: invalidate_chunk forgets the Tier-2 code.
KnownJolt(c) == {codeId[c]["jolt"]} \ {0}

\* Fault: "none" is not told from a record's id.
KnownOrZero(c) == {codeId[c][t] : t \in Tier}

\* The ids of a chunk that invalidate_chunk acts upon.
KnownCode(c) == {codeId[c][t] : t \in Tier} \ {0}

\* invalidate_chunk breaks the assumption, trips the code and clears the entry
\* points; the ids stay.
InvalidateChunk(c) ==
  /\ IF assumptionId[c] # 0 THEN InvalidateAssumption(assumptionId[c])
                            ELSE UNCHANGED watchdogVars
  /\ TripCode(KnownCode(c))
  /\ entry' = [entry EXCEPT ![c] = [t \in Tier |-> nullptr]]
  /\ UNCHANGED <<codeId, assumptionId>>

HostBreaks(id) ==
  /\ InvalidateAssumption(id)
  /\ UNCHANGED <<chunkVars, tripVars>>

\* The host announces a change of shape, type, ... by kind and payload.
HostBreaksKind(kind, payload) ==
  /\ InvalidateByKind(kind, payload)
  /\ UNCHANGED <<chunkVars, tripVars>>

\* The cascade that a broken assumption is documented to trigger.
HostTrips(a) ==
  /\ ~ AssumptionValid(a)
  /\ InvalidateByAssumption(a)
  /\ UNCHANGED <<chunkVars, watchdogVars>>

Next ==
  \/ \E c \in Chunks :
       \/ CompileTier1(c) \/ CompileTier2(c) \/ InvalidateChunk(c)
       \/ \E t \in Tier : InstallInBackground(c, t)
  \/ \E id \in AssumptionIds : HostBreaks(id) \/ HostTrips(id)
  \/ \E kind \in Kinds, payload \in Payloads : HostBreaksKind(kind, payload)

Spec == Init /\ [][Next]_vars

-----------------------------------------------------------------------------
(* What the bookkeeping gives *)

\* An id other than 0 that a ChunkEntry keeps names a record of that very chunk
\* and tier, and an assumption about that very chunk: the two registries number
\* their records independently, over all chunks.  An entry point leads to code
\* of that chunk and tier.
IdsAreOwn ==
  \A c \in Chunks :
    /\ \A t \in Tier : codeId[c][t] # 0 =>
         codeId[c][t] \in CodeIds /\ CodeRecord(codeId[c][t]).label = <<c, t>>
    /\ \A t \in Tier : entry[c][t] \in CodeIds =>
         CodeRecord(entry[c][t]).label = <<c, t>>
    /\ assumptionId[c] # 0 =>
         /\ assumptionId[c] \in AssumptionIds
         /\ Assumption(assumptionId[c]).payload = AddressOf[c]

\* A chunk without any code keeps no id of a record that is still valid (0 apart):
\* what invalidate_chunk cleared, the registries know to be gone.
ClearedIsTripped ==
  \A c \in Chunks :
    (\A t \in Tier : entry[c][t] = nullptr) =>
       /\ \A t \in Tier : codeId[c][t] # 0 => ~ CodeValid(codeId[c][t])
       /\ assumptionId[c] # 0 => ~ AssumptionValid(assumptionId[c])

\* The assumptions that a code record depends on.
Needs(id) == {a \in AssumptionIds : <<a, id>> \in dependents}

\* The code that a chunk runs and Trip knows of is Valid while the assumptions it
\* depends on hold: invalidating or recompiling one chunk, or tripping the code of
\* one assumption, never trips the code another entry point leads to.
InstalledIsValid ==
  \A c \in Chunks, t \in Tier :
     LET id == entry[c][t]
     IN  id \in CodeIds /\ (\A a \in Needs(id) : AssumptionValid(a)) => CodeValid(id)

-----------------------------------------------------------------------------
(* What a comment says of it *)

\* invalidate_chunk is to "directly invalidate compiled code via Trip": the
\* records of the code it removes.
InvalidateTrips ==
  [][\A id \in CodeIds, c \in Chunks, t \in Tier :
        entry[c][t] = id /\ entry'[c][t] = nullptr => ~ CodeValid(id)']_vars
=============================================================================
