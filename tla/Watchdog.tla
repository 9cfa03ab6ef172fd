------------------------------ MODULE Watchdog ------------------------------
(***************************************************************************)
(* The assumption registry of src/src/machinery/watchdog.cpp.              *)
(*                                                                         *)
(* Every operation holds mu_ from start to end, so each is one action.     *)
(* Assumptions are numbered from 0 in the order of registration and kept   *)
(* for ever; an index finds the ids of a (kind, payload) pair.  The index  *)
(* key keeps only the low bits of the payload (56 of 64: PayloadMod).      *)
(* A callback runs under mu_ and must not call back into the Watchdog; the *)
(* Runtime registers none.                                                 *)
(***************************************************************************)
EXTENDS Integers, Sequences, FiniteSets

CONSTANTS
  Kinds,           \* AssumptionKind
  Payloads,        \* 64-bit payloads: shape ids, chunk addresses, ...
  PayloadMod,      \* 2^56: the key holds payload & 0x00FFFFFFFFFFFFFF
  MaxAssumptions   \* bound: assumptions ever registered

ASSUME WatchdogAssumption ==
  /\ Payloads \subseteq Nat
  /\ PayloadMod \in Nat \ {0}
  /\ MaxAssumptions \in Nat

VARIABLES
  assumptions,        \* assumptions_: [kind, payload, valid], id i at i + 1
  index,              \* kind_payload_index_: the ids filed under each key
  brokenCount         \* invalidation_count_

watchdogVars == <<assumptions, index, brokenCount>>

Keys == Kinds \X (0 .. PayloadMod - 1)
Key(kind, payload) == <<kind, payload % PayloadMod>>

AssumptionIds == 0 .. Len(assumptions) - 1
Assumption(id) == assumptions[id + 1]

\* is_valid
AssumptionValid(id) == id \in AssumptionIds /\ Assumption(id).valid

\* active_count
ActiveAssumptions == Len(assumptions) - brokenCount

AssumptionRecord == [kind : Kinds, payload : Payloads, valid : BOOLEAN]

WatchdogTypeOK ==
  /\ assumptions \in Seq(AssumptionRecord)
  /\ index \in [Keys -> SUBSET AssumptionIds]
  /\ brokenCount \in Nat

WatchdogInit ==
  /\ assumptions = <<>>
  /\ index = [k \in Keys |-> {}]
  /\ brokenCount = 0

\* register_assumption; its result is Len(assumptions), the next id.
RegisterAssumption(kind, payload) ==
  /\ Len(assumptions) < MaxAssumptions
  /\ assumptions' =
       Append(assumptions, [kind |-> kind, payload |-> payload, valid |-> TRUE])
  /\ index' = [index EXCEPT ![Key(kind, payload)] = @ \cup {Len(assumptions)}]
  /\ UNCHANGED brokenCount

\* The ids of S that are still valid become invalid, and each is counted once.
Break(S) ==
  /\ assumptions' = [i \in 1 .. Len(assumptions) |->
       IF i - 1 \in S THEN [assumptions[i] EXCEPT !.valid = FALSE] ELSE assumptions[i]]
  /\ brokenCount' = brokenCount + Cardinality({id \in S : AssumptionValid(id)})

\* Fault: invalidate counts an assumption that is already broken again.
InvalidateAgain(id) ==
  /\ id \in AssumptionIds
  /\ assumptions' = [assumptions EXCEPT ![id + 1].valid = FALSE]
  /\ brokenCount' = brokenCount + 1
  /\ LET a == Assumption(id)
     IN index' = [index EXCEPT ![Key(a.kind, a.payload)] = @ \ {id}]

\* Fault: invalidate leaves the id in the index.
InvalidateKeepsIndex(id) ==
  /\ AssumptionValid(id)
  /\ Break({id})
  /\ UNCHANGED index

\* invalidate: an unknown or broken id changes nothing; a valid one leaves the index.
InvalidateAssumption(id) ==
  \/ /\ AssumptionValid(id)
     /\ Break({id})
     /\ LET a == Assumption(id)
        IN index' = [index EXCEPT ![Key(a.kind, a.payload)] = @ \ {id}]
  \/ ~ AssumptionValid(id) /\ UNCHANGED watchdogVars

\* Fault: the key is built from the kind alone.
InvalidateKind(kind, payload) ==
  LET keys == {k \in Keys : k[1] = kind}
  IN  /\ Break(UNION {index[k] : k \in keys})
      /\ index' = [k \in Keys |-> IF k \in keys THEN {} ELSE index[k]]

\* invalidate_by_kind: everything filed under the key.
InvalidateByKind(kind, payload) ==
  LET key == Key(kind, payload)
  IN  /\ Break(index[key])
      /\ index' = [index EXCEPT ![key] = {}]

WatchdogNext ==
  \/ \E kind \in Kinds, payload \in Payloads : RegisterAssumption(kind, payload)
  \/ \E id \in 0 .. MaxAssumptions : InvalidateAssumption(id)
  \/ \E kind \in Kinds, payload \in Payloads : InvalidateByKind(kind, payload)

WatchdogSpec == WatchdogInit /\ [][WatchdogNext]_watchdogVars

-----------------------------------------------------------------------------

\* active_count is computed from two counters that no operation updates
\* together; it is the number of valid assumptions all the same.
ActiveIsValid ==
  ActiveAssumptions = Cardinality({id \in AssumptionIds : AssumptionValid(id)})

\* The index holds exactly the valid assumptions, each under its key: none that
\* broke can be found again and none that holds is out of invalidate_by_kind's reach.
IndexIsExact ==
  \A id \in AssumptionIds : \A key \in Keys :
     id \in index[key] <=>
        /\ AssumptionValid(id)
        /\ key = Key(Assumption(id).kind, Assumption(id).payload)

\* invalidate_by_kind breaks "all assumptions of a given kind with matching payload"
\* and no other, for the payloads that fit the key (chunk addresses do).
ByKindMatches ==
  [][\A kind \in Kinds, payload \in Payloads :
        payload < PayloadMod /\ InvalidateByKind(kind, payload) =>
           \A id \in AssumptionIds : Assumption(id).payload < PayloadMod =>
              (AssumptionValid(id)' <=>
                 /\ AssumptionValid(id)
                 /\ ~ (Assumption(id).kind = kind /\ Assumption(id).payload = payload))]_watchdogVars
=============================================================================
