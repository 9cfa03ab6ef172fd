--------------------------- MODULE SafepointProofs --------------------------
(***************************************************************************)
(* Theorems of Safepoint, for any number of mutators and any poll          *)
(* interval.  With at most one requester the handshake keeps the world     *)
(* stopped and implements StopTheWorld; with two it does not.              *)
(***************************************************************************)
EXTENDS Safepoint, TLAPS

OneRequesterOnly == \A q, r \in Requesters : q = r

-----------------------------------------------------------------------------
(* Type correctness *)

\* A mutator that has not reached the end of its chunk can count one more bytecode.
LEMMA CountInRange ==
  ASSUME TypeOK, NEW m \in Mutators, ~ AtEnd(m)
  PROVE  Counted(m) \in Nat /\ Counted(m) \in 0 .. LastExecuted(length[m])
<1>1. /\ length[m] \in Nat /\ executed[m] \in Nat
      /\ executed[m] \in 0 .. LastExecuted(length[m])
  BY DEF TypeOK
<1>2. CASE length[m] = 0
  <2>1. (executed[m] + 1) % PollInterval \in 0 .. PollInterval - 1
    BY <1>1, SafepointAssumption
  <2> QED BY <1>2, <2>1, SafepointAssumption DEF LastExecuted, Counted
<1>3. CASE length[m] # 0
  BY <1>1, <1>3 DEF LastExecuted, Counted, AtEnd
<1> QED BY <1>2, <1>3

\* A dispatch loop can begin at its first bytecode.
LEMMA BeginInRange == \A n \in Nat : 0 \in 0 .. LastExecuted(n)
BY SafepointAssumption DEF LastExecuted

\* The state of the handshake is always well typed: a mutator is in one of the
\* three documented states whatever stores race on it.
THEOREM TypeCorrect == Spec => []TypeOK
<1>1. Init => TypeOK
  BY BeginInRange DEF Init, TypeOK, SafepointState
<1>2. TypeOK /\ [Next]_vars => TypeOK'
  <2> SUFFICES ASSUME TypeOK, [Next]_vars PROVE TypeOK'
    OBVIOUS
  <2>1. ASSUME NEW m \in Mutators, MutatorStep(m) PROVE TypeOK'
    <3>1. CASE Register(m) \/ Unregister(m) \/ Announce(m) \/ Resume(m)
      BY <3>1 DEF TypeOK, SafepointState, mutatorVars, requesterVars, Register, Unregister,
         Announce, Resume
    <3>2. CASE Enter(m)
      BY <3>2, BeginInRange, SafepointAssumption DEF TypeOK, SafepointState, requesterVars,
         Enter
    <3>3. CASE Dispatch(m)
      BY <3>3, CountInRange DEF TypeOK, SafepointState, requesterVars, Dispatch
    <3>4. CASE Leave(m)
      BY <3>4, BeginInRange DEF TypeOK, SafepointState, requesterVars, Leave
    <3> QED BY <2>1, <3>1, <3>2, <3>3, <3>4 DEF MutatorStep, Executes
  <2>2. ASSUME NEW r \in Requesters, RequesterStep(r) PROVE TypeOK'
    BY <2>2 DEF TypeOK, SafepointState, mutatorVars, RequesterStep, Requests, Releases,
       RequestGlobalSafepoint, RequestOne, BeginAwait, AwaitOne, WorldStops, ReleaseAll,
       ReleaseOne, EndRelease
  <2>3. CASE UNCHANGED vars
    BY <2>3 DEF TypeOK, vars, mutatorVars, requesterVars
  <2> QED BY <2>1, <2>2, <2>3 DEF Next
<1> QED
  BY <1>1, <1>2, PTL DEF Spec

-----------------------------------------------------------------------------
(* The world stays stopped *)

\* A mutator that announced itself spins, however many requesters store into its
\* state: only Running lets it leave the loop.
LEMMA AnnouncedStep ==
  TypeOK /\ AnnouncedIsStopped /\ [Next]_vars => AnnouncedIsStopped'
<1> SUFFICES ASSUME TypeOK, AnnouncedIsStopped, [Next]_vars PROVE AnnouncedIsStopped'
  OBVIOUS
<1>1. ASSUME NEW m \in Mutators, MutatorStep(m) PROVE AnnouncedIsStopped'
  BY <1>1 DEF AnnouncedIsStopped, TypeOK, mutatorVars, requesterVars, MutatorStep, Executes,
     Register, Unregister, Enter, Dispatch, Announce, Resume, Leave
<1>2. ASSUME NEW r \in Requesters, RequesterStep(r) PROVE AnnouncedIsStopped'
  BY <1>2 DEF AnnouncedIsStopped, TypeOK, mutatorVars, RequesterStep, Requests, Releases,
     RequestGlobalSafepoint, RequestOne, BeginAwait, AwaitOne, WorldStops, ReleaseAll,
     ReleaseOne, EndRelease
<1>3. CASE UNCHANGED vars
  BY <1>3 DEF AnnouncedIsStopped, vars, mutatorVars
<1> QED BY <1>1, <1>2, <1>3 DEF Next

\* The mutators a request has already seen announced stay so until the release.
ReachedStay ==
  /\ \A r \in Requesters : rpc[r] = "await" =>
        \A m \in targets[r] \ todo[r] : state[m] = "Safepointed"
  /\ \A r \in Requesters : rpc[r] = "stw" =>
        \A m \in targets[r] : state[m] = "Safepointed"

\* With one requester nobody stores into the state of a mutator that was reached.
LEMMA ReachedStep ==
  ASSUME OneRequesterOnly, TypeOK, AnnouncedIsStopped, ReachedStay, [Next]_vars
  PROVE  ReachedStay'
<1>1. ASSUME NEW m \in Mutators, MutatorStep(m) PROVE ReachedStay'
  <2>1. rpc' = rpc /\ targets' = targets /\ todo' = todo
    BY <1>1 DEF requesterVars, mutatorVars, MutatorStep, Executes, Register, Unregister,
       Enter, Dispatch, Announce, Resume, Leave
  <2>2. \A n \in Mutators : state[n] = "Safepointed" => state'[n] = "Safepointed"
    BY <1>1 DEF TypeOK, MutatorStep, Executes, Register, Unregister,
       Enter, Dispatch, Announce, Resume, Leave
  <2> QED BY <2>1, <2>2 DEF ReachedStay, TypeOK
<1>2. ASSUME NEW r \in Requesters, RequesterStep(r) PROVE ReachedStay'
  <2>1. \A q \in Requesters : q = r
    BY DEF OneRequesterOnly
  <2>2. CASE RequestGlobalSafepoint(r) \/ (\E m \in Mutators : RequestOne(r, m))
    BY <2>1, <2>2 DEF ReachedStay, TypeOK, RequestGlobalSafepoint, RequestOne
  <2>3. CASE BeginAwait(r) \/ WorldStops(r) \/ (\E m \in Mutators : AwaitOne(r, m))
    BY <2>1, <2>3 DEF ReachedStay, TypeOK, BeginAwait, WorldStops, AwaitOne
  <2>4. CASE Releases(r)
    BY <2>1, <2>4 DEF ReachedStay, TypeOK, Releases, ReleaseAll, ReleaseOne, EndRelease
  <2> QED BY <1>2, <2>2, <2>3, <2>4 DEF RequesterStep, Requests
<1>3. CASE UNCHANGED vars
  BY <1>3 DEF ReachedStay, vars, requesterVars
<1> QED BY <1>1, <1>2, <1>3 DEF Next

SafepointInv == TypeOK /\ AnnouncedIsStopped /\ ReachedStay

\* The inductive invariant of the handshake with one requester.
LEMMA InvHolds ==
  ASSUME OneRequesterOnly
  PROVE  Spec => []SafepointInv
<1>1. Init => SafepointInv
  BY BeginInRange DEF Init, SafepointInv, TypeOK, SafepointState, AnnouncedIsStopped,
     ReachedStay
<1>2. TypeOK /\ AnnouncedIsStopped /\ ReachedStay /\ [Next]_vars
        => AnnouncedIsStopped' /\ ReachedStay'
  BY AnnouncedStep, ReachedStep
<1>3. Init => AnnouncedIsStopped /\ ReachedStay
  BY <1>1 DEF SafepointInv
<1>4. SafepointInv <=> TypeOK /\ AnnouncedIsStopped /\ ReachedStay
  BY DEF SafepointInv
<1> QED
  BY <1>2, <1>3, <1>4, TypeCorrect, PTL DEF Spec

\* With one requester, every mutator that was registered when the request was made
\* is spinning for as long as the world is stopped, and every mutator that has
\* announced itself is spinning.
THEOREM StoppedSafe ==
  ASSUME OneRequesterOnly
  PROVE  Spec => [](WorldStopped /\ AnnouncedIsStopped)
<1>1. SafepointInv => WorldStopped /\ AnnouncedIsStopped
  BY DEF SafepointInv, TypeOK, AnnouncedIsStopped, ReachedStay, WorldStopped
<1> QED
  BY <1>1, InvHolds, PTL

\* With one requester no announcement outlives the spinning it announces.
THEOREM AnnouncedIsStoppedSafe ==
  ASSUME OneRequesterOnly
  PROVE  Spec => []AnnouncedIsStopped
BY StoppedSafe, PTL

-----------------------------------------------------------------------------
(* Refinement *)

\* With one requester the abstract world is that requester's.
LEMMA TheWorld ==
  ASSUME NEW r \in Requesters, \A q \in Requesters : q = r
  PROVE  /\ Closed <=> rpc[r] = "stw"
         /\ Held = IF rpc[r] = "stw" THEN targets[r] ELSE {}
         /\ Closed' <=> rpc'[r] = "stw"
         /\ Held' = IF rpc'[r] = "stw" THEN targets'[r] ELSE {}
BY DEF Closed, Held

\* A mutator's step is a Start, a Pause or invisible.
LEMMA MutatorRefines ==
  ASSUME SafepointInv, NEW m \in Mutators, MutatorStep(m)
  PROVE  [STW!Next]_(STW!vars)
<1>1. UNCHANGED <<Closed, Held>>
  BY DEF Closed, Held, requesterVars, mutatorVars, MutatorStep, Executes, Register,
     Unregister, Enter, Dispatch, Announce, Resume, Leave
<1>2. \A n \in Held : mpc[n] = "stopped" /\ state[n] = "Safepointed"
  BY DEF Held, SafepointInv, TypeOK, AnnouncedIsStopped, ReachedStay
<1>3. CASE Enter(m) \/ Resume(m)
  <2>1. m \notin Held
    BY <1>2, <1>3 DEF Enter, Resume
  <2>2. Active' = Active \cup {m}
    BY <1>3 DEF Active, Enter, Resume, SafepointInv, TypeOK
  <2> QED BY <1>1, <2>1, <2>2 DEF STW!Next, STW!Start
<1>4. CASE Announce(m) \/ Leave(m)
  <2>1. Active' = Active \ {m}
    BY <1>4 DEF Active, Announce, Leave, SafepointInv, TypeOK
  <2> QED BY <1>1, <2>1 DEF STW!Next, STW!Pause
<1>5. CASE Register(m) \/ Unregister(m) \/ Dispatch(m)
  <2>1. Active' = Active
    BY <1>5 DEF Active, Register, Unregister, Dispatch, mutatorVars, SafepointInv, TypeOK
  <2> QED BY <1>1, <2>1 DEF STW!vars
<1> QED BY <1>3, <1>4, <1>5 DEF MutatorStep, Executes

\* The requester's return from the request closes the world, the start of its
\* release opens it, and nothing else it does is visible.
LEMMA RequesterRefines ==
  ASSUME OneRequesterOnly, SafepointInv, NEW r \in Requesters, RequesterStep(r)
  PROVE  [STW!Next]_(STW!vars)
<1>1. \A q \in Requesters : q = r
  BY DEF OneRequesterOnly
<1>2. Active' = Active
  BY DEF Active, mutatorVars, RequesterStep, Requests, Releases, RequestGlobalSafepoint,
     RequestOne, BeginAwait, AwaitOne, WorldStops, ReleaseAll, ReleaseOne, EndRelease
<1>3. CASE WorldStops(r)
  <2>1. /\ rpc[r] = "await" /\ rpc'[r] = "stw" /\ targets' = targets
        /\ targets[r] \in SUBSET Mutators
    BY <1>3 DEF WorldStops, SafepointInv, TypeOK
  <2>2. \A m \in targets[r] : m \in Mutators /\ mpc[m] = "stopped"
    BY <1>3 DEF WorldStops, SafepointInv, TypeOK, AnnouncedIsStopped, ReachedStay
  <2>3. targets[r] \cap Active = {}
    BY <2>2 DEF Active
  <2>4. ~ Closed /\ Closed' = TRUE /\ Held' = targets[r]
    BY <1>1, <2>1, TheWorld DEF Closed
  <2> QED BY <1>2, <2>1, <2>3, <2>4 DEF STW!Next, STW!Close
<1>4. CASE ReleaseAll(r)
  <2>1. rpc[r] = "stw" /\ rpc'[r] = "release"
    BY <1>4 DEF ReleaseAll, SafepointInv, TypeOK
  <2>2. Closed /\ Closed' = FALSE /\ Held' = {}
    BY <1>1, <2>1, TheWorld DEF Closed
  <2> QED BY <1>2, <2>2 DEF STW!Next, STW!Open
<1>5. ASSUME ~ WorldStops(r), ~ ReleaseAll(r)
      PROVE  [STW!Next]_(STW!vars)
  <2>1. rpc[r] # "stw" /\ rpc'[r] # "stw"
    BY <1>5 DEF SafepointInv, TypeOK, RequesterStep, Requests, Releases,
       RequestGlobalSafepoint, RequestOne, BeginAwait, AwaitOne, ReleaseOne, EndRelease
  <2>2. Held' = Held /\ Closed' = Closed
    BY <1>1, <2>1, TheWorld DEF Closed
  <2> QED BY <1>2, <2>2 DEF STW!vars
<1> QED BY <1>3, <1>4, <1>5

\* With one requester the handshake implements StopTheWorld: a request closes the
\* world only when none of its mutators is executing bytecode, and none of them
\* starts again before the release.
THEOREM Implements ==
  ASSUME OneRequesterOnly
  PROVE  Spec => StopsTheWorld
<1>1. Init => STW!Init
  BY DEF Init, STW!Init, Active, Closed, Held
<1>2. SafepointInv /\ [Next]_vars => [STW!Next]_(STW!vars)
  <2>1. ASSUME UNCHANGED vars PROVE UNCHANGED STW!vars
    BY <2>1 DEF vars, mutatorVars, requesterVars, STW!vars, Active, Closed, Held
  <2> QED BY <2>1, MutatorRefines, RequesterRefines DEF Next
<1> QED
  BY <1>1, <1>2, InvHolds, PTL DEF Spec, StopsTheWorld, STW!Spec
=============================================================================
