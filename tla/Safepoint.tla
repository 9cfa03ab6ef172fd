----------------------------- MODULE Safepoint ------------------------------
(***************************************************************************)
(* The safepoint handshake of src/src/runtime/safepoint.h, with the poll   *)
(* of the interpreter's dispatch loop (src/src/interp/interpreter.h).      *)
(*                                                                         *)
(* A mutator owns a MutatorState, registers it with the SafepointManager   *)
(* when its Interpreter is attached and polls it every PollInterval        *)
(* bytecodes.  A requester (the GC or an orchestrator: no such thread is   *)
(* in src/ yet, it is modelled from the manager's interface) brings the    *)
(* world to a stop and releases it.  The manager's mutex is held for the   *)
(* whole of request_global_safepoint, spin included.                       *)
(***************************************************************************)
EXTENDS Integers, FiniteSets

CONSTANTS
  Mutators,       \* threads with an Interpreter
  Requesters,     \* threads that call request_global_safepoint / release_all
  PollInterval,   \* kSafepointPollInterval, 64
  ChunkLengths,   \* bytecodes the dispatch loop of a chunk executes; 0: for ever
  MaxRequests,    \* bound: requests of one requester
  Free            \* the manager's mutex is not held

ASSUME SafepointAssumption ==
  /\ PollInterval \in Nat \ {0}
  /\ ChunkLengths \subseteq Nat
  /\ MaxRequests \in Nat
  /\ Mutators \cap Requesters = {}
  /\ Free \notin Requesters

VARIABLES
  state,       \* MutatorState::state
  registered,  \* SafepointManager::mutators_
  mu,          \* the requester inside request_global_safepoint or release_all
  mpc,         \* a mutator's control point
  length,      \* of the chunk in the current dispatch loop
  executed,    \* bytecodes executed by that loop
  rpc,         \* a requester's control point
  targets,     \* the registered mutators its loops run over
  todo,        \* those the current loop has not dealt with
  requests     \* requests made so far

mutatorVars == <<mpc, length, executed>>
requesterVars == <<rpc, targets, todo, requests>>
vars == <<state, registered, mu, mutatorVars, requesterVars>>

\* Only the position in the chunk and in the poll interval matter: a chunk that
\* loops for ever counts its bytecodes modulo PollInterval.
LastExecuted(n) == IF n = 0 THEN PollInterval - 1 ELSE n
Counted(m) == IF length[m] = 0 THEN (executed[m] + 1) % PollInterval ELSE executed[m] + 1

SafepointState == {"Running", "SafepointRequested", "Safepointed"}

TypeOK ==
  /\ state \in [Mutators -> SafepointState]
  /\ registered \subseteq Mutators
  /\ mu \in Requesters \cup {Free}
  /\ mpc \in [Mutators -> {"outside", "loop", "announce", "stopped"}]
  /\ length \in [Mutators -> Nat]
  /\ executed \in [Mutators -> Nat]
  /\ \A m \in Mutators : executed[m] \in 0 .. LastExecuted(length[m])
  /\ rpc \in [Requesters -> {"idle", "request", "await", "stw", "release"}]
  /\ targets \in [Requesters -> SUBSET Mutators]
  /\ todo \in [Requesters -> SUBSET Mutators]
  /\ requests \in [Requesters -> Nat]

Init ==
  /\ state = [m \in Mutators |-> "Running"]
  /\ registered = {}
  /\ mu = Free
  /\ mpc = [m \in Mutators |-> "outside"]
  /\ length = [m \in Mutators |-> 0]
  /\ executed = [m \in Mutators |-> 0]
  /\ rpc = [r \in Requesters |-> "idle"]
  /\ targets = [r \in Requesters |-> {}]
  /\ todo = [r \in Requesters |-> {}]
  /\ requests = [r \in Requesters |-> 0]

-----------------------------------------------------------------------------
(* Mutators *)

(* An operator whose comment begins with "Fault" is not part of the model: it *)
(* is the operator after it with a plausible bug, for the mutants of          *)
(* PROJECT.json, which show that a property can fail.                         *)

\* attach_safepoint
Register(m) ==
  /\ mu = Free
  /\ m \notin registered /\ mpc[m] = "outside"
  /\ registered' = registered \cup {m}
  /\ UNCHANGED <<state, mu, mutatorVars, requesterVars>>

\* ~Interpreter
Unregister(m) ==
  /\ mu = Free
  /\ m \in registered /\ mpc[m] = "outside"
  /\ registered' = registered \ {m}
  /\ UNCHANGED <<state, mu, mutatorVars, requesterVars>>

\* dispatch_loop_ starts with op_counter = 0, for a chunk or a callee of any
\* length.  Nothing makes the mutator start one.
Enter(m) ==
  /\ m \in registered /\ mpc[m] = "outside"
  /\ mpc' = [mpc EXCEPT ![m] = "loop"]
  /\ \E n \in ChunkLengths : length' = [length EXCEPT ![m] = n]
  /\ executed' = [executed EXCEPT ![m] = 0]
  /\ UNCHANGED <<state, registered, mu, requesterVars>>

\* Fault: the end of the chunk is tested one bytecode late.
AtEndLate(m) == length[m] # 0 /\ executed[m] > length[m]

AtEnd(m) == length[m] # 0 /\ executed[m] = length[m]

DuePoll(m) == (executed[m] + 1) % PollInterval = 0

\* Fault: the counter is reset before it is compared, so the flag is never polled.
DispatchNeverPolls(m) ==
  /\ mpc[m] = "loop" /\ ~ AtEnd(m)
  /\ executed' = [executed EXCEPT ![m] = Counted(m)]
  /\ UNCHANGED <<state, registered, mu, mpc, length, requesterVars>>

\* One turn of the dispatch loop: count the bytecode and poll the flag at every
\* PollInterval-th one.
Dispatch(m) ==
  /\ mpc[m] = "loop" /\ ~ AtEnd(m)
  /\ executed' = [executed EXCEPT ![m] = Counted(m)]
  /\ IF DuePoll(m) /\ state[m] = "SafepointRequested"
     THEN mpc' = [mpc EXCEPT ![m] = "announce"]
     ELSE UNCHANGED mpc
  /\ UNCHANGED <<state, registered, mu, length, requesterVars>>

\* Fault: the mutator announces itself and does not wait.
AnnounceAndGoOn(m) ==
  /\ mpc[m] = "announce"
  /\ state' = [state EXCEPT ![m] = "Safepointed"]
  /\ mpc' = [mpc EXCEPT ![m] = "loop"]
  /\ UNCHANGED <<registered, mu, length, executed, requesterVars>>

\* check_safepoint's slow path announces the mutator ...
Announce(m) ==
  /\ mpc[m] = "announce"
  /\ state' = [state EXCEPT ![m] = "Safepointed"]
  /\ mpc' = [mpc EXCEPT ![m] = "stopped"]
  /\ UNCHANGED <<registered, mu, length, executed, requesterVars>>

\* ... and spins until it reads Running.
Resume(m) ==
  /\ mpc[m] = "stopped" /\ state[m] = "Running"
  /\ mpc' = [mpc EXCEPT ![m] = "loop"]
  /\ UNCHANGED <<state, registered, mu, length, executed, requesterVars>>

\* The chunk ends; the mutator does something else: native code, or nothing.
Leave(m) ==
  /\ mpc[m] = "loop" /\ AtEnd(m)
  /\ mpc' = [mpc EXCEPT ![m] = "outside"]
  /\ length' = [length EXCEPT ![m] = 0]
  /\ executed' = [executed EXCEPT ![m] = 0]
  /\ UNCHANGED <<state, registered, mu, requesterVars>>

-----------------------------------------------------------------------------
(* request_global_safepoint and release_all *)

RequestGlobalSafepoint(r) ==
  /\ rpc[r] = "idle" /\ mu = Free
  /\ requests[r] < MaxRequests
  /\ mu' = r
  /\ rpc' = [rpc EXCEPT ![r] = "request"]
  /\ targets' = [targets EXCEPT ![r] = registered]
  /\ todo' = [todo EXCEPT ![r] = registered]
  /\ requests' = [requests EXCEPT ![r] = @ + 1]
  /\ UNCHANGED <<state, registered, mutatorVars>>

\* MutatorState::request, whatever state the mutator is in
RequestOne(r, m) ==
  /\ rpc[r] = "request" /\ m \in todo[r]
  /\ state' = [state EXCEPT ![m] = "SafepointRequested"]
  /\ todo' = [todo EXCEPT ![r] = @ \ {m}]
  /\ UNCHANGED <<registered, mu, mutatorVars, rpc, targets, requests>>

BeginAwait(r) ==
  /\ rpc[r] = "request" /\ todo[r] = {}
  /\ rpc' = [rpc EXCEPT ![r] = "await"]
  /\ todo' = [todo EXCEPT ![r] = targets[r]]
  /\ UNCHANGED <<state, registered, mu, mutatorVars, targets, requests>>

AwaitOne(r, m) ==
  /\ rpc[r] = "await" /\ m \in todo[r]
  /\ state[m] = "Safepointed"
  /\ todo' = [todo EXCEPT ![r] = @ \ {m}]
  /\ UNCHANGED <<state, registered, mu, mutatorVars, rpc, targets, requests>>

\* Fault: the request returns when some mutator has announced itself, not all.
WorldStopsEarly(r) ==
  /\ rpc[r] = "await" /\ todo[r] # targets[r]
  /\ rpc' = [rpc EXCEPT ![r] = "stw"]
  /\ mu' = Free
  /\ UNCHANGED <<state, registered, mutatorVars, targets, todo, requests>>

\* The request returns: the world is stopped.
WorldStops(r) ==
  /\ rpc[r] = "await" /\ todo[r] = {}
  /\ rpc' = [rpc EXCEPT ![r] = "stw"]
  /\ mu' = Free
  /\ UNCHANGED <<state, registered, mutatorVars, targets, todo, requests>>

ReleaseAll(r) ==
  /\ rpc[r] = "stw" /\ mu = Free
  /\ mu' = r
  /\ rpc' = [rpc EXCEPT ![r] = "release"]
  /\ targets' = [targets EXCEPT ![r] = registered]
  /\ todo' = [todo EXCEPT ![r] = registered]
  /\ UNCHANGED <<state, registered, mutatorVars, requests>>

\* Fault: the release skips a mutator that is spinning.
ReleaseOneRunning(r, m) ==
  /\ rpc[r] = "release" /\ m \in todo[r]
  /\ state' = [state EXCEPT ![m] = IF @ = "Safepointed" THEN @ ELSE "Running"]
  /\ todo' = [todo EXCEPT ![r] = @ \ {m}]
  /\ UNCHANGED <<registered, mu, mutatorVars, rpc, targets, requests>>

\* MutatorState::release
ReleaseOne(r, m) ==
  /\ rpc[r] = "release" /\ m \in todo[r]
  /\ state' = [state EXCEPT ![m] = "Running"]
  /\ todo' = [todo EXCEPT ![r] = @ \ {m}]
  /\ UNCHANGED <<registered, mu, mutatorVars, rpc, targets, requests>>

EndRelease(r) ==
  /\ rpc[r] = "release" /\ todo[r] = {}
  /\ rpc' = [rpc EXCEPT ![r] = "idle"]
  /\ targets' = [targets EXCEPT ![r] = {}]
  /\ mu' = Free
  /\ UNCHANGED <<state, registered, mutatorVars, todo, requests>>

-----------------------------------------------------------------------------

\* What a mutator does inside dispatch_loop_.
Executes(m) == Dispatch(m) \/ Announce(m) \/ Resume(m) \/ Leave(m)

MutatorStep(m) == Register(m) \/ Unregister(m) \/ Enter(m) \/ Executes(m)

Requests(r) ==
  \/ \E m \in Mutators : RequestOne(r, m) \/ AwaitOne(r, m)
  \/ BeginAwait(r) \/ WorldStops(r)

Releases(r) ==
  \/ ReleaseAll(r) \/ EndRelease(r)
  \/ \E m \in Mutators : ReleaseOne(r, m)

RequesterStep(r) == RequestGlobalSafepoint(r) \/ Requests(r) \/ Releases(r)

Next ==
  \/ \E m \in Mutators : MutatorStep(m)
  \/ \E r \in Requesters : RequesterStep(r)

Spec == Init /\ [][Next]_vars

(* The threads are always scheduled: a mutator inside a dispatch loop goes on, *)
(* spinning included, and a requester goes on with a request or release it has *)
(* begun.  Nobody must register, leave for good, start a loop or request: a    *)
(* registered mutator may be idle, or in native code, for ever.                *)
Fairness ==
  /\ \A m \in Mutators : WF_vars(Executes(m))
  /\ \A r \in Requesters : WF_vars(Requests(r)) /\ WF_vars(Releases(r))

FairSpec == Spec /\ Fairness

-----------------------------------------------------------------------------
(* Properties *)

\* Whoever was registered when the request was made is spinning in
\* check_safepoint while the world is stopped: it executes no bytecode.
WorldStopped ==
  \A r \in Requesters : rpc[r] = "stw" =>
     \A m \in targets[r] : mpc[m] = "stopped"

\* A mutator that has announced itself is spinning.
AnnouncedIsStopped ==
  \A m \in Mutators : state[m] = "Safepointed" => mpc[m] = "stopped"

\* The premises of the liveness properties, which the code does not ensure.  A
\* registered mutator comes to a poll again and again (or sits in one): an idle
\* mutator does not, nor one whose loops all end before the PollInterval-th
\* bytecode.  No request overtakes a mutator that has not yet seen its release.
AtPoll(m) ==
  \/ mpc[m] \in {"announce", "stopped"}
  \/ mpc[m] = "loop" /\ ~ AtEnd(m) /\ DuePoll(m)

EveryoneKeepsPolling == \A m \in Mutators : []<>(m \notin registered \/ AtPoll(m))

Overtaken(m) == mpc[m] = "stopped" /\ state[m] = "SafepointRequested"

NoneOvertaken == [](\A m \in Mutators : ~ Overtaken(m))

\* "The safepoint mechanism works: a request from any thread reaches all mutator
\* threads within a bounded number of bytecode instructions": every request
\* returns as long as the mutators keep polling.
EveryRequestReturns ==
  EveryoneKeepsPolling => \A r \in Requesters : rpc[r] = "request" ~> rpc[r] = "stw"

\* The same where no request overtakes a release: idle mutators, short chunks and
\* overtaken mutators are the only ones request_global_safepoint spins on for ever.
RequestReturns == NoneOvertaken => EveryRequestReturns

\* A mutator that a request has stopped executes bytecode again after the world
\* has stopped and been released, whatever the other mutators do.
StoppedResumes ==
  NoneOvertaken =>
    \A r \in Requesters, m \in Mutators :
       (rpc[r] = "stw" /\ m \in targets[r]) ~> mpc[m] = "loop"

\* With one requester the handshake implements StopTheWorld.
Active == {m \in Mutators : mpc[m] \in {"loop", "announce"}}
Closed == \E r \in Requesters : rpc[r] = "stw"
Held   == UNION {targets[r] : r \in {q \in Requesters : rpc[q] = "stw"}}

STW == INSTANCE StopTheWorld WITH active <- Active, closed <- Closed, held <- Held

StopsTheWorld == STW!Spec
=============================================================================
