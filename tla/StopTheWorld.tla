---------------------------- MODULE StopTheWorld ----------------------------
(***************************************************************************)
(* What a global safepoint promises the thread that asked for it           *)
(* (docs/ARCHITECTURE.md, section 5.3): from the moment the request        *)
(* returns until the release, none of the mutators it found registered     *)
(* executes bytecode.                                                      *)
(***************************************************************************)
CONSTANT Mutators

VARIABLES
  active,   \* mutators that execute bytecode
  closed,   \* is the world stopped?
  held      \* the mutators that are held while it is

vars == <<active, closed, held>>

Init ==
  /\ active = {}
  /\ closed = FALSE
  /\ held = {}

Start(m) ==
  /\ m \notin held
  /\ active' = active \cup {m}
  /\ UNCHANGED <<closed, held>>

Pause(m) ==
  /\ active' = active \ {m}
  /\ UNCHANGED <<closed, held>>

Close(S) ==
  /\ ~ closed
  /\ S \cap active = {}
  /\ closed' = TRUE
  /\ held' = S
  /\ UNCHANGED active

Open ==
  /\ closed
  /\ closed' = FALSE
  /\ held' = {}
  /\ UNCHANGED active

Next ==
  \/ \E m \in Mutators : Start(m) \/ Pause(m)
  \/ \E S \in SUBSET Mutators : Close(S)
  \/ Open

Spec == Init /\ [][Next]_vars
=============================================================================
