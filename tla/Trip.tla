-------------------------------- MODULE Trip --------------------------------
(***************************************************************************)
(* The code registry of src/src/machinery/trip.cpp.  Every operation holds *)
(* mu_ from start to end, so each is one action.  Records are numbered     *)
(* from 0 in the order of registration and kept for ever; nothing moves    *)
(* one to the state Uninstalled and no entry point is patched.             *)
(***************************************************************************)
EXTENDS Integers, Sequences, FiniteSets

CONSTANT MaxCode   \* bound: code records ever registered

ASSUME TripAssumption == MaxCode \in Nat

VARIABLES
  code,         \* entries_: [state, label], id i at i + 1; the label stands
                \* for entry_point and function_name
  dependents,   \* assumption_to_code_, as pairs <<assumption id, code id>>
  trippedCount  \* invalidation_count_

tripVars == <<code, dependents, trippedCount>>

CodeState == {"Valid", "Invalidated"}
CodeIds == 0 .. Len(code) - 1
CodeRecord(id) == code[id + 1]

\* is_valid
CodeValid(id) == id \in CodeIds /\ CodeRecord(id).state = "Valid"

\* active_count
ActiveCode == Len(code) - trippedCount

DependentCode(a) == {id \in CodeIds : <<a, id>> \in dependents}

TripInit ==
  /\ code = <<>>
  /\ dependents = {}
  /\ trippedCount = 0

\* register_code; its result is Len(code), the next id.
RegisterCode(label) ==
  /\ Len(code) < MaxCode
  /\ code' = Append(code, [state |-> "Valid", label |-> label])
  /\ UNCHANGED trippedCount

\* add_dependency of the record being registered, on the assumptions in A.
AddDependency(A) == dependents' = dependents \cup (A \X {Len(code)})

\* Fault: a record that is already Invalidated is counted again.
TripCodeAgain(S) ==
  /\ code' = [i \in 1 .. Len(code) |->
       IF i - 1 \in S THEN [code[i] EXCEPT !.state = "Invalidated"] ELSE code[i]]
  /\ trippedCount' = trippedCount + Cardinality(S)
  /\ UNCHANGED dependents

\* The records in S that are still Valid become Invalidated, each counted once.
TripCode(S) ==
  /\ code' = [i \in 1 .. Len(code) |->
       IF i - 1 \in S THEN [code[i] EXCEPT !.state = "Invalidated"] ELSE code[i]]
  /\ trippedCount' = trippedCount + Cardinality({id \in S : CodeValid(id)})
  /\ UNCHANGED dependents

\* invalidate
InvalidateCode(id) == TripCode({id} \cap CodeIds)

\* invalidate_by_assumption
InvalidateByAssumption(a) == TripCode(DependentCode(a))

\* active_count is computed from two counters; it is the number of valid records.
ActiveIsCallable ==
  ActiveCode = Cardinality({id \in CodeIds : CodeValid(id)})
=============================================================================
