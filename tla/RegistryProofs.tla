--------------------------- MODULE RegistryProofs ---------------------------
(***************************************************************************)
(* Theorems of Watchdog and of CodeRegistry, for every set of kinds and    *)
(* payloads, every width of the index key and any number of chunks and     *)
(* records: the counters agree with the records, the index holds exactly   *)
(* the valid assumptions, invalidate_by_kind breaks what it should, the    *)
(* ids the Runtime keeps name its own records, and code that runs is Valid *)
(* while what it assumes holds.                                            *)
(***************************************************************************)
EXTENDS CodeRegistry, FiniteSetTheorems, SequenceTheorems, TLAPS

(* The Watchdog *)

ValidAssumptions == {id \in AssumptionIds : AssumptionValid(id)}

\* The inductive invariant: all of it is needed, since a step breaks what the
\* index holds and counts what was valid.
WatchdogInv == WatchdogTypeOK /\ ActiveIsValid /\ IndexIsExact

\* A key is one of the index's keys.
LEMMA KeyType ==
  ASSUME NEW kind \in Kinds, NEW payload \in Payloads
  PROVE  Key(kind, payload) \in Keys
<1>1. payload % PayloadMod \in 0 .. PayloadMod - 1
  BY WatchdogAssumption
<1> QED BY <1>1 DEF Key, Keys

\* The ids and the valid ids are finite sets.
LEMMA FiniteIds ==
  ASSUME WatchdogTypeOK
  PROVE  /\ IsFiniteSet(AssumptionIds)
         /\ IsFiniteSet(ValidAssumptions)
         /\ Cardinality(ValidAssumptions) \in Nat
<1>1. Len(assumptions) \in Nat
  BY DEF WatchdogTypeOK
<1>2. IsFiniteSet(AssumptionIds)
  BY <1>1, FS_Interval DEF AssumptionIds
<1>3. ValidAssumptions \subseteq AssumptionIds
  BY DEF ValidAssumptions
<1> QED BY <1>2, <1>3, FS_Subset, FS_CardinalityType

\* Breaking a set of ids keeps the number of records and counts what it breaks.
LEMMA BreakCounts ==
  ASSUME WatchdogTypeOK, ActiveIsValid, NEW S, Break(S)
  PROVE  /\ assumptions' \in Seq(AssumptionRecord)
         /\ Len(assumptions') = Len(assumptions)
         /\ \A id \in AssumptionIds :
              /\ Assumption(id)'.kind = Assumption(id).kind
              /\ Assumption(id)'.payload = Assumption(id).payload
              /\ AssumptionValid(id)' <=> AssumptionValid(id) /\ id \notin S
         /\ brokenCount' \in Nat
         /\ ActiveIsValid'
<1> DEFINE Broken(i) == IF i - 1 \in S THEN [assumptions[i] EXCEPT !.valid = FALSE]
                                       ELSE assumptions[i]
<1>1. assumptions \in Seq(AssumptionRecord) /\ Len(assumptions) \in Nat
  BY DEF WatchdogTypeOK
<1>2. \A i \in 1 .. Len(assumptions) :
        /\ assumptions[i] \in AssumptionRecord
        /\ Broken(i) \in AssumptionRecord
        /\ Broken(i).kind = assumptions[i].kind
        /\ Broken(i).payload = assumptions[i].payload
        /\ Broken(i).valid <=> assumptions[i].valid /\ i - 1 \notin S
  <2> TAKE i \in 1 .. Len(assumptions)
  <2>1. assumptions[i] \in AssumptionRecord
    BY <1>1, ElementOfSeq
  <2> QED BY <2>1 DEF AssumptionRecord
<1>3. assumptions' = [i \in 1 .. Len(assumptions) |-> Broken(i)]
  BY DEF Break
<1> HIDE DEF Broken
<1>4. assumptions' \in Seq(AssumptionRecord) /\ Len(assumptions') = Len(assumptions)
  BY <1>1, <1>2, <1>3
<1>5. AssumptionIds' = AssumptionIds
  BY <1>4 DEF AssumptionIds
<1>6. \A id \in AssumptionIds :
        /\ Assumption(id)'.kind = Assumption(id).kind
        /\ Assumption(id)'.payload = Assumption(id).payload
        /\ AssumptionValid(id)' <=> AssumptionValid(id) /\ id \notin S
  <2> TAKE id \in AssumptionIds
  <2>1. id + 1 \in 1 .. Len(assumptions) /\ (id + 1) - 1 = id
    BY <1>1 DEF AssumptionIds
  <2>2. assumptions'[id + 1] = Broken(id + 1)
    BY <1>3, <2>1
  <2> QED BY <1>2, <1>5, <2>1, <2>2 DEF Assumption, AssumptionValid
<1>7. ValidAssumptions' = ValidAssumptions \ S
  BY <1>5, <1>6 DEF ValidAssumptions
<1> DEFINE Hit == {id \in S : AssumptionValid(id)}
<1>8. Hit = ValidAssumptions \cap S
  BY DEF ValidAssumptions, AssumptionValid
<1>9. brokenCount' = brokenCount + Cardinality(Hit)
  BY DEF Break
<1> HIDE DEF Hit
<1>10. /\ Cardinality(ValidAssumptions \ S)
            = Cardinality(ValidAssumptions) - Cardinality(ValidAssumptions \cap S)
       /\ Cardinality(ValidAssumptions \cap S) \in Nat
       /\ Cardinality(ValidAssumptions) \in Nat
  <2>1. ValidAssumptions \cap S \subseteq ValidAssumptions
    OBVIOUS
  <2> QED BY <2>1, FiniteIds, FS_Difference, FS_Subset, FS_CardinalityType
<1>11. Len(assumptions) - brokenCount = Cardinality(ValidAssumptions)
  BY DEF ActiveIsValid, ActiveAssumptions, ValidAssumptions
<1>12. brokenCount' \in Nat
  BY <1>8, <1>9, <1>10 DEF WatchdogTypeOK
<1>13. Len(assumptions') - brokenCount' = Cardinality(ValidAssumptions')
  <2>1. Cardinality(ValidAssumptions')
          = Cardinality(ValidAssumptions) - Cardinality(ValidAssumptions \cap S)
    BY <1>7, <1>10
  <2>2. brokenCount' = brokenCount + Cardinality(ValidAssumptions \cap S)
    BY <1>8, <1>9
  <2>3. brokenCount \in Nat
    BY DEF WatchdogTypeOK
  <2> QED BY <1>1, <1>4, <1>10, <1>11, <2>1, <2>2, <2>3
<1>14. ActiveIsValid'
  BY <1>13 DEF ActiveIsValid, ActiveAssumptions, ValidAssumptions
<1> QED BY <1>4, <1>6, <1>12, <1>14

\* register_assumption keeps the invariant.
LEMMA RegisterInv ==
  ASSUME WatchdogInv, NEW kind \in Kinds, NEW payload \in Payloads,
         RegisterAssumption(kind, payload)
  PROVE  WatchdogInv'
<1> DEFINE new == [kind |-> kind, payload |-> payload, valid |-> TRUE]
           key == Key(kind, payload)
<1>n. PICK n : n = Len(assumptions)
  OBVIOUS
<1>0. WatchdogTypeOK /\ ActiveIsValid /\ IndexIsExact /\ key \in Keys
  BY KeyType DEF WatchdogInv
<1>1. /\ assumptions \in Seq(AssumptionRecord)
      /\ n \in Nat
      /\ assumptions' = Append(assumptions, new)
      /\ index' = [index EXCEPT ![key] = @ \cup {n}]
      /\ brokenCount' = brokenCount /\ brokenCount \in Nat
      /\ index \in [Keys -> SUBSET AssumptionIds]
  BY <1>0, <1>n DEF RegisterAssumption, WatchdogTypeOK
<1>2. /\ assumptions' \in Seq(AssumptionRecord)
      /\ Len(assumptions') = n + 1
      /\ \A i \in 1 .. n : assumptions'[i] = assumptions[i]
      /\ assumptions'[n + 1] = new
  <2>1. new \in AssumptionRecord
    BY DEF AssumptionRecord
  <2> HIDE DEF new
  <2> QED BY <1>n, <1>1, <2>1, AppendProperties
<1>3. AssumptionIds' = AssumptionIds \cup {n} /\ n \notin AssumptionIds
  BY <1>n, <1>1, <1>2 DEF AssumptionIds
<1>4. \A id \in AssumptionIds :
        Assumption(id)' = Assumption(id) /\ AssumptionValid(id)' = AssumptionValid(id)
  BY <1>1, <1>2, <1>3 DEF AssumptionIds, Assumption, AssumptionValid
<1>5. Assumption(n)' = new /\ AssumptionValid(n)'
  BY <1>2, <1>3 DEF Assumption, AssumptionValid
<1>6. ValidAssumptions' = ValidAssumptions \cup {n} /\ n \notin ValidAssumptions
  BY <1>3, <1>4, <1>5 DEF ValidAssumptions
<1> HIDE DEF new, key
<1>7. ActiveIsValid'
  <2>1. Cardinality(ValidAssumptions') = Cardinality(ValidAssumptions) + 1
    BY <1>0, <1>6, FiniteIds, FS_AddElement
  <2>2. n - brokenCount = Cardinality(ValidAssumptions)
    BY <1>0, <1>n DEF ActiveIsValid, ActiveAssumptions, ValidAssumptions
  <2>3. Len(assumptions') - brokenCount' = Cardinality(ValidAssumptions')
    BY <1>0, <1>1, <1>2, <2>1, <2>2, FiniteIds
  <2> QED BY <2>3 DEF ActiveIsValid, ActiveAssumptions, ValidAssumptions
<1>8. WatchdogTypeOK'
  BY <1>1, <1>2, <1>3, <1>0 DEF WatchdogTypeOK
<1>9. IndexIsExact'
  <2> SUFFICES ASSUME NEW id \in AssumptionIds', NEW k \in Keys
               PROVE  id \in index'[k] <=>
                         /\ AssumptionValid(id)'
                         /\ k = Key(Assumption(id)'.kind, Assumption(id)'.payload)
    BY DEF IndexIsExact, Key
  <2>1. CASE id = n
    <3>1. n \notin index[k]
      BY <1>1, <1>3
    <3> QED BY <2>1, <3>1, <1>0, <1>1, <1>5 DEF Key, key, new
  <2>2. CASE id # n
    <3>1. id \in AssumptionIds
      BY <2>2, <1>3
    <3> QED BY <2>2, <3>1, <1>0, <1>1, <1>4 DEF IndexIsExact
  <2> QED BY <2>1, <2>2
<1> QED BY <1>7, <1>8, <1>9 DEF WatchdogInv

\* invalidate keeps the invariant.
LEMMA InvalidateInv ==
  ASSUME WatchdogInv, NEW id, InvalidateAssumption(id)
  PROVE  WatchdogInv'
<1>0. WatchdogTypeOK /\ ActiveIsValid /\ IndexIsExact
  BY DEF WatchdogInv
<1>1. CASE AssumptionValid(id) /\ Break({id})
           /\ index' = [index EXCEPT ![Key(Assumption(id).kind, Assumption(id).payload)] = @ \ {id}]
  <2> DEFINE key == Key(Assumption(id).kind, Assumption(id).payload)
  <2>1. id \in AssumptionIds
    BY <1>1 DEF AssumptionValid
  <2>2. Len(assumptions') = Len(assumptions) /\ AssumptionIds' = AssumptionIds
    BY <1>0, <1>1, BreakCounts DEF AssumptionIds
  <2>3. Assumption(id) \in AssumptionRecord
    BY <1>0, <2>1, ElementOfSeq DEF WatchdogTypeOK, Assumption, AssumptionIds
  <2>4. key \in Keys
    BY <2>3, KeyType DEF AssumptionRecord
  <2>5. index' = [index EXCEPT ![key] = @ \ {id}] /\ index \in [Keys -> SUBSET AssumptionIds]
    BY <1>0, <1>1 DEF WatchdogTypeOK
  <2> HIDE DEF key
  <2>6. WatchdogTypeOK' /\ ActiveIsValid'
    <3>1. /\ assumptions' \in Seq(AssumptionRecord)
          /\ brokenCount' \in Nat /\ ActiveIsValid'
      BY <1>0, <1>1, BreakCounts
    <3>2. index' \in [Keys -> SUBSET AssumptionIds']
      BY <2>2, <2>4, <2>5
    <3> QED BY <3>1, <3>2 DEF WatchdogTypeOK
  <2>7. IndexIsExact'
    <3> SUFFICES ASSUME NEW j \in AssumptionIds, NEW k \in Keys
                 PROVE  j \in index'[k] <=>
                           /\ AssumptionValid(j)'
                           /\ k = Key(Assumption(j)'.kind, Assumption(j)'.payload)
      BY <2>2 DEF IndexIsExact, Key
    <3>1. /\ Key(Assumption(j)'.kind, Assumption(j)'.payload)
               = Key(Assumption(j).kind, Assumption(j).payload)
          /\ AssumptionValid(j)' <=> AssumptionValid(j) /\ j \notin {id}
      BY <1>0, <1>1, BreakCounts
    <3>2. j \in index[k] <=> AssumptionValid(j)
                             /\ k = Key(Assumption(j).kind, Assumption(j).payload)
      BY <1>0 DEF IndexIsExact
    <3>3. j \in index'[k] <=> j \in index[k] /\ ~ (j = id /\ k = key)
      BY <2>4, <2>5
    <3> QED BY <3>1, <3>2, <3>3 DEF key
  <2> QED BY <2>6, <2>7 DEF WatchdogInv
<1>2. CASE UNCHANGED watchdogVars
  BY <1>0, <1>2 DEF watchdogVars, WatchdogInv, WatchdogTypeOK, ActiveIsValid,
     ActiveAssumptions, IndexIsExact, AssumptionIds, AssumptionValid, Assumption, Key
<1> QED BY <1>1, <1>2 DEF InvalidateAssumption

\* invalidate_by_kind keeps the invariant.
LEMMA InvalidateByKindInv ==
  ASSUME WatchdogInv, NEW kind \in Kinds, NEW payload \in Payloads,
         InvalidateByKind(kind, payload)
  PROVE  WatchdogInv'
<1> DEFINE key == Key(kind, payload)
<1>1. key \in Keys
  BY KeyType
<1>2. /\ WatchdogTypeOK /\ ActiveIsValid /\ IndexIsExact
      /\ Break(index[key]) /\ index' = [index EXCEPT ![key] = {}]
      /\ index \in [Keys -> SUBSET AssumptionIds]
  BY DEF WatchdogInv, InvalidateByKind, WatchdogTypeOK
<1> HIDE DEF key
<1>3. AssumptionIds' = AssumptionIds
  BY <1>2, BreakCounts DEF AssumptionIds
<1>4. WatchdogTypeOK' /\ ActiveIsValid'
  BY <1>2, <1>3, BreakCounts DEF WatchdogTypeOK
<1>5. IndexIsExact'
  <2> SUFFICES ASSUME NEW j \in AssumptionIds, NEW k \in Keys
               PROVE  j \in index'[k] <=>
                         /\ AssumptionValid(j)'
                         /\ k = Key(Assumption(j)'.kind, Assumption(j)'.payload)
    BY <1>3 DEF IndexIsExact, Key
  <2>1. /\ Key(Assumption(j)'.kind, Assumption(j)'.payload)
             = Key(Assumption(j).kind, Assumption(j).payload)
        /\ AssumptionValid(j)' <=> AssumptionValid(j) /\ j \notin index[key]
    BY <1>2, BreakCounts
  <2>2. \A l \in Keys : j \in index[l] <=>
           AssumptionValid(j) /\ l = Key(Assumption(j).kind, Assumption(j).payload)
    BY <1>2 DEF IndexIsExact
  <2>3. j \in index'[k] <=> j \in index[k] /\ k # key
    BY <1>1, <1>2
  <2> QED BY <2>1, <2>2, <2>3, <1>1
<1> QED BY <1>4, <1>5 DEF WatchdogInv

\* invalidate_by_kind breaks the valid assumptions of that kind and payload, when
\* both payloads fit the key, and leaves the others as they were: the index holds
\* exactly the valid assumptions, and keys of such payloads do not collide.
LEMMA ByKindExact ==
  ASSUME WatchdogInv, NEW kind \in Kinds, NEW payload \in Payloads,
         payload < PayloadMod, InvalidateByKind(kind, payload),
         NEW id \in AssumptionIds, Assumption(id).payload < PayloadMod
  PROVE  AssumptionValid(id)' <=>
           /\ AssumptionValid(id)
           /\ ~ (Assumption(id).kind = kind /\ Assumption(id).payload = payload)
<1> DEFINE key == Key(kind, payload)
<1>1. Assumption(id) \in AssumptionRecord
  BY ElementOfSeq DEF WatchdogInv, WatchdogTypeOK, Assumption, AssumptionIds
<1>2. /\ payload \in Nat /\ Assumption(id).payload \in Nat
      /\ Assumption(id).kind \in Kinds /\ PayloadMod \in Nat \ {0}
  BY <1>1, WatchdogAssumption DEF AssumptionRecord
<1>3. \A p \in Nat : p < PayloadMod => p % PayloadMod = p
  BY <1>2
<1>4. key = Key(Assumption(id).kind, Assumption(id).payload)
        <=> Assumption(id).kind = kind /\ Assumption(id).payload = payload
  BY <1>2, <1>3 DEF Key
<1>5. id \in index[key] <=>
        AssumptionValid(id) /\ key = Key(Assumption(id).kind, Assumption(id).payload)
  BY KeyType DEF WatchdogInv, IndexIsExact
<1>6. AssumptionValid(id)' <=> AssumptionValid(id) /\ id \notin index[key]
  BY BreakCounts DEF WatchdogInv, InvalidateByKind
<1> HIDE DEF key
<1> QED BY <1>4, <1>5, <1>6

LEMMA WatchdogInvInit == WatchdogInit => WatchdogInv
<1> SUFFICES ASSUME WatchdogInit PROVE WatchdogInv
  OBVIOUS
<1>1. assumptions = <<>> /\ brokenCount = 0 /\ index = [k \in Keys |-> {}]
  BY DEF WatchdogInit
<1>2. Len(assumptions) = 0 /\ AssumptionIds = {}
  BY <1>1 DEF AssumptionIds
<1>3. {id \in AssumptionIds : AssumptionValid(id)} = {}
  BY <1>2
<1>4. ActiveIsValid
  BY <1>1, <1>2, <1>3, FS_EmptySet DEF ActiveIsValid, ActiveAssumptions
<1> QED BY <1>1, <1>2, <1>4 DEF WatchdogInv, WatchdogTypeOK, IndexIsExact

\* The counters and the index of the Watchdog agree with its records, whatever
\* the order of registrations and invalidations.
THEOREM WatchdogSafe == WatchdogSpec => [](ActiveIsValid /\ IndexIsExact)
<1>1. WatchdogInit => WatchdogInv
  BY WatchdogInvInit
<1>2. WatchdogInv /\ [WatchdogNext]_watchdogVars => WatchdogInv'
  <2> SUFFICES ASSUME WatchdogInv, [WatchdogNext]_watchdogVars PROVE WatchdogInv'
    OBVIOUS
  <2>1. CASE UNCHANGED watchdogVars
    BY <2>1 DEF watchdogVars, WatchdogInv, WatchdogTypeOK, ActiveIsValid,
       ActiveAssumptions, IndexIsExact, AssumptionIds, AssumptionValid, Assumption, Key
  <2>2. CASE WatchdogNext
    BY <2>2, RegisterInv, InvalidateInv, InvalidateByKindInv DEF WatchdogNext
  <2> QED BY <2>1, <2>2
<1>3. WatchdogInv => ActiveIsValid /\ IndexIsExact
  BY DEF WatchdogInv
<1> QED BY <1>1, <1>2, <1>3, PTL DEF WatchdogSpec

\* However assumptions are broken, the two counters differ by the valid ones.
THEOREM ActiveIsValidSafe == WatchdogSpec => []ActiveIsValid
BY WatchdogSafe, PTL

-----------------------------------------------------------------------------
(* The Runtime and both registries *)

(* The inductive invariant.  Types need IdsAreOwn: compile_tier2 files the   *)
(* dependency under the id the ChunkEntry keeps, which must be a registered  *)
(* assumption.                                                               *)
RegistryInv == WatchdogInv /\ TypeOK /\ ActiveIsCallable /\ IdsAreOwn

ValidCode == {id \in CodeIds : CodeValid(id)}

\* The code ids and the valid ones are finite sets.
LEMMA FiniteCode ==
  ASSUME TypeOK
  PROVE  /\ IsFiniteSet(ValidCode) /\ Cardinality(ValidCode) \in Nat
         /\ Len(code) \in Nat
<1>1. Len(code) \in Nat
  BY DEF TypeOK
<1>2. IsFiniteSet(CodeIds)
  BY <1>1, FS_Interval DEF CodeIds
<1>3. ValidCode \subseteq CodeIds
  BY DEF ValidCode
<1> QED BY <1>1, <1>2, <1>3, FS_Subset, FS_CardinalityType

\* Tripping a set of records changes their state, counts it, and nothing else.
LEMMA TripKeeps ==
  ASSUME TypeOK, ActiveIsCallable, NEW S, TripCode(S)
  PROVE  /\ code' \in Seq(CodeEntry)
         /\ Len(code') = Len(code)
         /\ CodeIds' = CodeIds
         /\ \A id \in CodeIds :
              /\ code'[id + 1].label = CodeRecord(id).label
              /\ CodeValid(id)' <=> CodeValid(id) /\ id \notin S
         /\ trippedCount' \in Nat
         /\ dependents' = dependents
         /\ ActiveIsCallable'
<1> DEFINE Tripped(i) == IF i - 1 \in S THEN [code[i] EXCEPT !.state = "Invalidated"]
                                        ELSE code[i]
<1>1. code \in Seq(CodeEntry) /\ Len(code) \in Nat
  BY DEF TypeOK
<1>2. \A i \in 1 .. Len(code) :
        /\ Tripped(i) \in CodeEntry
        /\ Tripped(i).label = code[i].label
        /\ Tripped(i).state = "Valid" <=> code[i].state = "Valid" /\ i - 1 \notin S
  <2> TAKE i \in 1 .. Len(code)
  <2>1. code[i] \in CodeEntry
    BY <1>1, ElementOfSeq
  <2> QED BY <2>1 DEF CodeEntry, CodeState
<1>3. code' = [i \in 1 .. Len(code) |-> Tripped(i)]
  BY DEF TripCode
<1> HIDE DEF Tripped
<1>4. code' \in Seq(CodeEntry) /\ Len(code') = Len(code)
  BY <1>1, <1>2, <1>3
<1>5. CodeIds' = CodeIds
  BY <1>4 DEF CodeIds
<1>6. \A id \in CodeIds :
        /\ code'[id + 1].label = CodeRecord(id).label
        /\ CodeValid(id)' <=> CodeValid(id) /\ id \notin S
  <2> TAKE id \in CodeIds
  <2>1. id + 1 \in 1 .. Len(code) /\ (id + 1) - 1 = id
    BY <1>1 DEF CodeIds
  <2>2. code'[id + 1] = Tripped(id + 1)
    BY <1>3, <2>1
  <2> QED BY <1>2, <1>5, <2>1, <2>2 DEF CodeRecord, CodeValid
<1>7. ValidCode' = ValidCode \ S
  BY <1>5, <1>6 DEF ValidCode
<1>8. {id \in S : CodeValid(id)} = ValidCode \cap S
  BY DEF ValidCode, CodeValid
<1>9. trippedCount' = trippedCount + Cardinality(ValidCode \cap S)
  BY <1>8 DEF TripCode
<1>10. /\ Cardinality(ValidCode \ S)
             = Cardinality(ValidCode) - Cardinality(ValidCode \cap S)
       /\ Cardinality(ValidCode \cap S) \in Nat
  <2>1. ValidCode \cap S \subseteq ValidCode
    OBVIOUS
  <2> QED BY <2>1, FiniteCode, FS_Difference, FS_Subset, FS_CardinalityType
<1>11. Cardinality(ValidCode') = Cardinality(ValidCode) - Cardinality(ValidCode \cap S)
  BY <1>7, <1>10
<1>12. trippedCount' \in Nat
  BY <1>9, <1>10 DEF TypeOK
<1>13. Len(code) - trippedCount = Cardinality(ValidCode)
  BY DEF ActiveIsCallable, ActiveCode, ValidCode
<1>14. Len(code') - trippedCount' = Cardinality(ValidCode')
  <2>1. trippedCount \in Nat /\ Cardinality(ValidCode) \in Nat
    BY FiniteCode DEF TypeOK
  <2> QED BY <1>1, <1>4, <1>9, <1>10, <1>11, <1>13, <2>1
<1>15. ActiveIsCallable'
  BY <1>14 DEF ActiveIsCallable, ActiveCode, ValidCode
<1> QED BY <1>4, <1>5, <1>6, <1>12, <1>15 DEF TripCode

\* Registering a record adds a Valid one under the next id, and nothing else.
LEMMA RegisterKeeps ==
  ASSUME TypeOK, ActiveIsCallable, NEW c \in Chunks, NEW t \in Tier,
         NEW n, n = Len(code), RegisterCode(<<c, t>>)
  PROVE  /\ code' \in Seq(CodeEntry)
         /\ CodeIds' = CodeIds \cup {n} /\ n \notin CodeIds /\ n \in Nat
         /\ \A id \in CodeIds :
              code'[id + 1] = CodeRecord(id) /\ CodeValid(id)' = CodeValid(id)
         /\ code'[n + 1].label = <<c, t>> /\ CodeValid(n)'
         /\ trippedCount' = trippedCount
         /\ ActiveIsCallable'
<1> DEFINE new == [state |-> "Valid", label |-> <<c, t>>]
<1>1. /\ code \in Seq(CodeEntry) /\ n \in Nat
      /\ code' = Append(code, new)
      /\ trippedCount' = trippedCount /\ trippedCount \in Nat
  BY DEF TypeOK, RegisterCode
<1>2. new \in CodeEntry /\ new.label = <<c, t>> /\ new.state = "Valid"
  BY DEF CodeEntry, CodeState, Labels
<1> HIDE DEF new
<1>3. /\ code' \in Seq(CodeEntry)
      /\ Len(code') = n + 1
      /\ \A i \in 1 .. n : code'[i] = code[i]
      /\ code'[n + 1] = new
  BY <1>1, <1>2, AppendProperties
<1>4. CodeIds' = CodeIds \cup {n} /\ n \notin CodeIds
  BY <1>1, <1>3 DEF CodeIds
<1>5. \A id \in CodeIds :
        code'[id + 1] = CodeRecord(id) /\ CodeValid(id)' = CodeValid(id)
  BY <1>1, <1>3, <1>4 DEF CodeIds, CodeRecord, CodeValid
<1>6. code'[n + 1].label = <<c, t>> /\ CodeValid(n)'
  BY <1>2, <1>3, <1>4 DEF CodeRecord, CodeValid
<1>7. ValidCode' = ValidCode \cup {n} /\ n \notin ValidCode
  BY <1>4, <1>5, <1>6 DEF ValidCode
<1>8. Cardinality(ValidCode') = Cardinality(ValidCode) + 1
  BY <1>7, FiniteCode, FS_AddElement
<1>9. n - trippedCount = Cardinality(ValidCode)
  BY DEF ActiveIsCallable, ActiveCode, ValidCode
<1>10. Len(code') - trippedCount' = Cardinality(ValidCode')
  BY <1>1, <1>3, <1>8, <1>9, FiniteCode
<1>11. ActiveIsCallable'
  BY <1>10 DEF ActiveIsCallable, ActiveCode, ValidCode
<1> QED BY <1>1, <1>3, <1>4, <1>5, <1>6, <1>11

\* Breaking assumptions keeps their ids and what they are about; none is revived.
LEMMA BreakKeeps ==
  ASSUME WatchdogInv, NEW S, Break(S)
  PROVE  /\ AssumptionIds' = AssumptionIds
         /\ \A a \in AssumptionIds :
              /\ assumptions'[a + 1].payload = Assumption(a).payload
              /\ AssumptionValid(a)' => AssumptionValid(a)
<1>1. /\ Len(assumptions') = Len(assumptions)
      /\ \A a \in AssumptionIds :
           /\ Assumption(a)'.payload = Assumption(a).payload
           /\ AssumptionValid(a)' => AssumptionValid(a)
  BY BreakCounts DEF WatchdogInv
<1>2. AssumptionIds' = AssumptionIds
  BY <1>1 DEF AssumptionIds
<1>3. \A a \in AssumptionIds : assumptions'[a + 1].payload = Assumption(a).payload
  BY <1>1 DEF Assumption
<1>4. \A a \in AssumptionIds : AssumptionValid(a)' => AssumptionValid(a)
  BY <1>1
<1> QED BY <1>2, <1>3, <1>4

\* So does invalidate.
LEMMA AssumptionsKept ==
  ASSUME WatchdogInv, NEW id, InvalidateAssumption(id)
  PROVE  /\ AssumptionIds' = AssumptionIds
         /\ \A a \in AssumptionIds :
              /\ assumptions'[a + 1].payload = Assumption(a).payload
              /\ AssumptionValid(a)' => AssumptionValid(a)
<1>1. CASE UNCHANGED watchdogVars
  BY <1>1 DEF watchdogVars, AssumptionIds, Assumption, AssumptionValid
<1>2. CASE Break({id})
  BY <1>2, BreakKeeps
<1> QED BY <1>1, <1>2 DEF InvalidateAssumption

\* Registering an assumption adds an id and changes no other.
LEMMA AssumptionAdded ==
  ASSUME WatchdogInv, NEW kind \in Kinds, NEW payload \in Payloads,
         NEW k, k = Len(assumptions), RegisterAssumption(kind, payload)
  PROVE  /\ AssumptionIds' = AssumptionIds \cup {k} /\ k \in Nat
         /\ \A a \in AssumptionIds :
              /\ assumptions'[a + 1].payload = Assumption(a).payload
              /\ AssumptionValid(a)' => AssumptionValid(a)
         /\ assumptions'[k + 1].payload = payload
<1> DEFINE new == [kind |-> kind, payload |-> payload, valid |-> TRUE]
<1>1. /\ assumptions \in Seq(AssumptionRecord) /\ k \in Nat
      /\ assumptions' = Append(assumptions, new)
  BY DEF WatchdogInv, WatchdogTypeOK, RegisterAssumption
<1>2. new \in AssumptionRecord /\ new.payload = payload
  BY DEF AssumptionRecord
<1> HIDE DEF new
<1>3. /\ Len(assumptions') = k + 1
      /\ \A i \in 1 .. k : assumptions'[i] = assumptions[i]
      /\ assumptions'[k + 1] = new
  BY <1>1, <1>2, AppendProperties
<1> QED BY <1>1, <1>2, <1>3 DEF AssumptionIds, Assumption, AssumptionValid

-----------------------------------------------------------------------------
(* Every action keeps the inductive invariant. *)

\* The part of the invariant that is about the ids, over explicit values: a
\* step that installs code of chunk c and tier t under the id n.
LEMMA InstallOwn ==
  ASSUME RegistryInv, NEW c \in Chunks, NEW t \in Tier,
         NEW n, n = Len(code), Install(c, t)
  PROVE  /\ codeId' \in [Chunks -> [Tier -> Nat]]
         /\ entry' \in [Chunks -> [Tier -> CodeIds' \cup {nullptr, Unregistered}]]
         /\ \A d \in Chunks, u \in Tier :
              /\ codeId'[d][u] # 0 =>
                   codeId'[d][u] \in CodeIds' /\ code'[codeId'[d][u] + 1].label = <<d, u>>
              /\ entry'[d][u] \in CodeIds' => code'[entry'[d][u] + 1].label = <<d, u>>
<1>1. /\ codeId' = [codeId EXCEPT ![c][t] = n] /\ entry' = [entry EXCEPT ![c][t] = n]
      /\ codeId \in [Chunks -> [Tier -> Nat]]
      /\ entry \in [Chunks -> [Tier -> CodeIds \cup {nullptr, Unregistered}]]
  BY DEF Install, RegistryInv, TypeOK
<1>2. /\ CodeIds' = CodeIds \cup {n} /\ n \notin CodeIds /\ n \in Nat
      /\ \A id \in CodeIds : code'[id + 1] = CodeRecord(id)
      /\ code'[n + 1].label = <<c, t>>
  BY RegisterKeeps DEF Install, RegistryInv
<1>3. \A d \in Chunks, u \in Tier :
        /\ codeId[d][u] # 0 =>
             codeId[d][u] \in CodeIds /\ CodeRecord(codeId[d][u]).label = <<d, u>>
        /\ entry[d][u] \in CodeIds => CodeRecord(entry[d][u]).label = <<d, u>>
  BY DEF RegistryInv, IdsAreOwn
<1>4. \A d \in Chunks, u \in Tier :
        IF d = c /\ u = t THEN codeId'[d][u] = n /\ entry'[d][u] = n
                         ELSE codeId'[d][u] = codeId[d][u] /\ entry'[d][u] = entry[d][u]
  BY <1>1
<1>5. nullptr \notin CodeIds' /\ Unregistered \notin CodeIds'
  BY <1>2, RegistryAssumption DEF CodeIds
<1>6. codeId' \in [Chunks -> [Tier -> Nat]]
  BY <1>1, <1>2
<1>7. entry' \in [Chunks -> [Tier -> CodeIds' \cup {nullptr, Unregistered}]]
  BY <1>1, <1>2
<1>8. ASSUME NEW d \in Chunks, NEW u \in Tier
      PROVE  /\ codeId'[d][u] # 0 =>
                  codeId'[d][u] \in CodeIds' /\ code'[codeId'[d][u] + 1].label = <<d, u>>
             /\ entry'[d][u] \in CodeIds' => code'[entry'[d][u] + 1].label = <<d, u>>
  <2>1. CASE d = c /\ u = t
    BY <1>2, <1>4, <2>1
  <2>2. CASE ~ (d = c /\ u = t)
    <3>1. codeId'[d][u] = codeId[d][u] /\ entry'[d][u] = entry[d][u]
      BY <1>4, <2>2
    <3>2. entry[d][u] \in CodeIds' => entry[d][u] \in CodeIds
      <4>1. entry[d][u] \in CodeIds \cup {nullptr, Unregistered}
        BY <1>1
      <4> QED BY <4>1, <1>5
    <3> QED BY <1>2, <1>3, <3>1, <3>2
  <2> QED BY <2>1, <2>2
<1> QED BY <1>6, <1>7, <1>8

\* compile_tier1
LEMMA CompileTier1Inv ==
  ASSUME RegistryInv, NEW c \in Chunks, CompileTier1(c)
  PROVE  RegistryInv'
<1>0. PICK n : n = Len(code)
  OBVIOUS
<1>1. /\ Install(c, "jolt") /\ "jolt" \in Tier
      /\ dependents' = dependents /\ dependents \subseteq AssumptionIds \X CodeIds
  BY DEF CompileTier1, AddDependency, Tier, RegistryInv, TypeOK
<1>2. /\ code' \in Seq(CodeEntry) /\ CodeIds \subseteq CodeIds'
      /\ trippedCount' \in Nat /\ ActiveIsCallable'
  BY <1>0, <1>1, RegisterKeeps DEF Install, RegistryInv, TypeOK
<1>3. /\ WatchdogInv' /\ assumptionId' \in [Chunks -> Nat]
      /\ AssumptionIds \subseteq AssumptionIds'
      /\ \A d \in Chunks : assumptionId'[d] # 0 =>
           /\ assumptionId'[d] \in AssumptionIds'
           /\ assumptions'[assumptionId'[d] + 1].payload = AddressOf[d]
  <2>0. /\ WatchdogInv /\ assumptionId \in [Chunks -> Nat]
        /\ \A d \in Chunks : assumptionId[d] # 0 =>
             /\ assumptionId[d] \in AssumptionIds
             /\ Assumption(assumptionId[d]).payload = AddressOf[d]
    BY DEF RegistryInv, TypeOK, IdsAreOwn
  <2>1. CASE /\ RegisterAssumption(TypeStable, AddressOf[c])
             /\ assumptionId' = [assumptionId EXCEPT ![c] = Len(assumptions)]
    <3>1. TypeStable \in Kinds /\ AddressOf[c] \in Payloads
      BY RegistryAssumption
    <3>2. PICK k : k = Len(assumptions)
      OBVIOUS
    <3>3. /\ AssumptionIds' = AssumptionIds \cup {k} /\ k \in Nat
          /\ \A a \in AssumptionIds : assumptions'[a + 1].payload = Assumption(a).payload
          /\ assumptions'[k + 1].payload = AddressOf[c]
      BY <2>0, <2>1, <3>1, <3>2, AssumptionAdded
    <3>4. WatchdogInv'
      BY <2>0, <2>1, <3>1, RegisterInv
    <3>5. assumptionId' = [assumptionId EXCEPT ![c] = k]
      BY <2>1, <3>2
    <3>6. \A d \in Chunks : assumptionId'[d] = IF d = c THEN k ELSE assumptionId[d]
      BY <2>0, <3>5
    <3> QED BY <2>0, <3>3, <3>4, <3>5, <3>6
  <2>2. CASE UNCHANGED <<assumptionId, watchdogVars>>
    <3>1. /\ assumptionId' = assumptionId /\ assumptions' = assumptions
          /\ AssumptionIds' = AssumptionIds
      BY <2>2 DEF watchdogVars, AssumptionIds
    <3>2. WatchdogInv'
      BY <2>0, <2>2 DEF watchdogVars, WatchdogInv, WatchdogTypeOK, ActiveIsValid,
         ActiveAssumptions, IndexIsExact, AssumptionIds, AssumptionValid, Assumption, Key
    <3> QED BY <2>0, <3>1, <3>2 DEF Assumption
  <2> QED BY <2>1, <2>2 DEF CompileTier1
<1>4. IdsAreOwn'
  BY <1>0, <1>1, <1>3, InstallOwn DEF IdsAreOwn, CodeRecord, Assumption
<1>5. TypeOK'
  <2>1. dependents' \subseteq AssumptionIds' \X CodeIds'
    BY <1>1, <1>2, <1>3
  <2> QED BY <2>1, <1>0, <1>1, <1>2, <1>3, InstallOwn DEF TypeOK, WatchdogInv
<1> QED BY <1>2, <1>3, <1>4, <1>5 DEF RegistryInv

\* compile_tier2
LEMMA CompileTier2Inv ==
  ASSUME RegistryInv, NEW c \in Chunks, CompileTier2(c)
  PROVE  RegistryInv'
<1>0. PICK n : n = Len(code)
  OBVIOUS
<1>1. /\ Install(c, "surge") /\ "surge" \in Tier
      /\ dependents' = dependents \cup (({assumptionId[c]} \ {0}) \X {n})
      /\ dependents \subseteq AssumptionIds \X CodeIds
      /\ assumptionId' = assumptionId /\ assumptions' = assumptions
  BY <1>0 DEF CompileTier2, AddDependency, Tier, RegistryInv, TypeOK, watchdogVars
<1>2. /\ code' \in Seq(CodeEntry) /\ CodeIds' = CodeIds \cup {n}
      /\ trippedCount' \in Nat /\ ActiveIsCallable'
  BY <1>0, <1>1, RegisterKeeps DEF Install, RegistryInv, TypeOK
<1>3. WatchdogInv'
  BY DEF CompileTier2, RegistryInv, watchdogVars, WatchdogInv, WatchdogTypeOK, ActiveIsValid,
     ActiveAssumptions, IndexIsExact, AssumptionIds, AssumptionValid, Assumption, Key
<1>4. AssumptionIds' = AssumptionIds
  BY <1>1 DEF AssumptionIds
<1>5. \A d \in Chunks : assumptionId[d] # 0 =>
        /\ assumptionId[d] \in AssumptionIds
        /\ assumptions[assumptionId[d] + 1].payload = AddressOf[d]
  BY DEF RegistryInv, IdsAreOwn, Assumption
<1>6. IdsAreOwn'
  BY <1>0, <1>1, <1>4, <1>5, InstallOwn DEF IdsAreOwn, CodeRecord, Assumption
<1>7. TypeOK'
  <2>1. dependents' \subseteq AssumptionIds' \X CodeIds'
    BY <1>1, <1>2, <1>4, <1>5
  <2>2. assumptionId' \in [Chunks -> Nat]
    BY <1>1 DEF RegistryInv, TypeOK
  <2> QED BY <2>1, <2>2, <1>0, <1>1, <1>2, <1>3, InstallOwn DEF TypeOK, WatchdogInv
<1> QED BY <1>2, <1>3, <1>6, <1>7 DEF RegistryInv

\* invalidate_chunk
LEMMA InvalidateChunkInv ==
  ASSUME RegistryInv, NEW c \in Chunks, InvalidateChunk(c)
  PROVE  RegistryInv'
<1>1. TypeOK /\ ActiveIsCallable /\ IdsAreOwn /\ WatchdogInv
  BY DEF RegistryInv
<1>2. /\ code' \in Seq(CodeEntry) /\ CodeIds' = CodeIds
      /\ \A id \in CodeIds : code'[id + 1].label = CodeRecord(id).label
      /\ trippedCount' \in Nat /\ dependents' = dependents /\ ActiveIsCallable'
  BY <1>1, TripKeeps DEF InvalidateChunk
<1>3. /\ WatchdogInv' /\ AssumptionIds' = AssumptionIds
      /\ \A a \in AssumptionIds : assumptions'[a + 1].payload = Assumption(a).payload
  <2>1. CASE InvalidateAssumption(assumptionId[c])
    BY <1>1, <2>1, InvalidateInv, AssumptionsKept
  <2>2. CASE UNCHANGED watchdogVars
    BY <1>1, <2>2 DEF watchdogVars, WatchdogInv, WatchdogTypeOK, ActiveIsValid,
       ActiveAssumptions, IndexIsExact, AssumptionIds, AssumptionValid, Assumption, Key
  <2> QED BY <2>1, <2>2 DEF InvalidateChunk
<1>4. /\ codeId' = codeId /\ assumptionId' = assumptionId
      /\ entry' = [entry EXCEPT ![c] = [t \in Tier |-> nullptr]]
  BY DEF InvalidateChunk
<1>5. \A d \in Chunks, t \in Tier : entry'[d][t] \in {entry[d][t], nullptr}
  BY <1>1, <1>4 DEF TypeOK
<1>6. nullptr \notin CodeIds
  BY RegistryAssumption DEF CodeIds
<1>7. TypeOK'
  <2>1. entry' \in [Chunks -> [Tier -> CodeIds \cup {nullptr, Unregistered}]]
    BY <1>1, <1>4 DEF TypeOK
  <2> QED BY <2>1, <1>1, <1>2, <1>3, <1>4 DEF TypeOK, WatchdogInv
<1>8. IdsAreOwn'
  <2>1. \A d \in Chunks, t \in Tier : codeId'[d][t] # 0 =>
           codeId'[d][t] \in CodeIds' /\ code'[codeId'[d][t] + 1].label = <<d, t>>
    BY <1>1, <1>2, <1>4 DEF IdsAreOwn
  <2>2. \A d \in Chunks, t \in Tier : entry'[d][t] \in CodeIds' =>
           code'[entry'[d][t] + 1].label = <<d, t>>
    <3>1. \A d \in Chunks, t \in Tier : entry[d][t] \in CodeIds =>
             CodeRecord(entry[d][t]).label = <<d, t>>
      BY <1>1 DEF IdsAreOwn
    <3> SUFFICES ASSUME NEW d \in Chunks, NEW t \in Tier, entry'[d][t] \in CodeIds'
                 PROVE  code'[entry'[d][t] + 1].label = <<d, t>>
      OBVIOUS
    <3>2. entry'[d][t] = entry[d][t] /\ entry[d][t] \in CodeIds
      BY <1>2, <1>5, <1>6
    <3> QED BY <3>1, <3>2, <1>2
  <2>3. \A d \in Chunks : assumptionId'[d] # 0 =>
           /\ assumptionId'[d] \in AssumptionIds'
           /\ assumptions'[assumptionId'[d] + 1].payload = AddressOf[d]
    BY <1>1, <1>3, <1>4 DEF IdsAreOwn
  <2> QED BY <2>1, <2>2, <2>3 DEF IdsAreOwn, CodeRecord, Assumption
<1> QED BY <1>2, <1>3, <1>7, <1>8 DEF RegistryInv

\* A Tier1/Tier2CompileTask's installation
LEMMA BackgroundInv ==
  ASSUME RegistryInv, NEW c \in Chunks, NEW t \in Tier, InstallInBackground(c, t)
  PROVE  RegistryInv'
<1>1. /\ entry' = [entry EXCEPT ![c][t] = Unregistered]
      /\ UNCHANGED <<codeId, assumptionId, code, dependents, trippedCount,
                     assumptions, index, brokenCount>>
  BY DEF InstallInBackground, tripVars, watchdogVars
<1>2. /\ CodeIds' = CodeIds /\ AssumptionIds' = AssumptionIds
      /\ WatchdogTypeOK' /\ WatchdogInv' /\ ActiveIsCallable'
  BY <1>1 DEF RegistryInv, WatchdogInv, WatchdogTypeOK, ActiveIsValid, ActiveAssumptions,
     IndexIsExact, AssumptionIds, AssumptionValid, Assumption, Key,
     ActiveIsCallable, ActiveCode, CodeIds, CodeValid, CodeRecord
<1>3. entry \in [Chunks -> [Tier -> CodeIds \cup {nullptr, Unregistered}]]
  BY DEF RegistryInv, TypeOK
<1>4. \A d \in Chunks, u \in Tier : entry'[d][u] \in {entry[d][u], Unregistered}
  BY <1>1, <1>3
<1>5. Unregistered \notin CodeIds
  BY RegistryAssumption DEF CodeIds
<1>6. TypeOK'
  <2>1. entry' \in [Chunks -> [Tier -> CodeIds' \cup {nullptr, Unregistered}]]
    BY <1>1, <1>2, <1>3
  <2> QED BY <2>1, <1>1, <1>2 DEF RegistryInv, TypeOK
<1>7. IdsAreOwn'
  <2>1. \A d \in Chunks, u \in Tier : entry'[d][u] \in CodeIds =>
           CodeRecord(entry'[d][u]).label = <<d, u>>
    BY <1>4, <1>5 DEF RegistryInv, IdsAreOwn
  <2> QED BY <1>1, <1>2, <2>1 DEF RegistryInv, IdsAreOwn, CodeRecord, Assumption
<1> QED BY <1>2, <1>6, <1>7 DEF RegistryInv

\* The host invalidates an assumption itself.
LEMMA HostBreaksInv ==
  ASSUME RegistryInv, NEW id, HostBreaks(id)
  PROVE  RegistryInv'
<1>1. InvalidateAssumption(id)
      /\ UNCHANGED <<codeId, assumptionId, entry, code, dependents, trippedCount>>
  BY DEF HostBreaks, chunkVars, tripVars
<1>2. /\ WatchdogInv' /\ AssumptionIds' = AssumptionIds
      /\ \A a \in AssumptionIds : assumptions'[a + 1].payload = Assumption(a).payload
  BY <1>1, InvalidateInv, AssumptionsKept DEF RegistryInv
<1>3. CodeIds' = CodeIds /\ ActiveIsCallable'
  BY <1>1 DEF RegistryInv, ActiveIsCallable, ActiveCode, CodeIds, CodeValid, CodeRecord
<1>4. TypeOK'
  BY <1>1, <1>2, <1>3 DEF RegistryInv, TypeOK, WatchdogInv
<1>5. IdsAreOwn'
  BY <1>1, <1>2, <1>3 DEF RegistryInv, IdsAreOwn, CodeRecord, Assumption
<1> QED BY <1>2, <1>3, <1>4, <1>5 DEF RegistryInv

\* The host invalidates assumptions by kind.
LEMMA HostBreaksKindInv ==
  ASSUME RegistryInv, NEW kind \in Kinds, NEW payload \in Payloads,
         HostBreaksKind(kind, payload)
  PROVE  RegistryInv'
<1>1. InvalidateByKind(kind, payload)
      /\ UNCHANGED <<codeId, assumptionId, entry, code, dependents, trippedCount>>
  BY DEF HostBreaksKind, chunkVars, tripVars
<1>2. PICK S : Break(S)
  BY <1>1 DEF InvalidateByKind
<1>3. /\ WatchdogInv' /\ AssumptionIds' = AssumptionIds
      /\ \A a \in AssumptionIds : assumptions'[a + 1].payload = Assumption(a).payload
  BY <1>1, <1>2, InvalidateByKindInv, BreakKeeps DEF RegistryInv
<1>4. CodeIds' = CodeIds /\ ActiveIsCallable'
  BY <1>1 DEF RegistryInv, ActiveIsCallable, ActiveCode, CodeIds, CodeValid, CodeRecord
<1>5. TypeOK'
  BY <1>1, <1>3, <1>4 DEF RegistryInv, TypeOK, WatchdogInv
<1>6. IdsAreOwn'
  BY <1>1, <1>3, <1>4 DEF RegistryInv, IdsAreOwn, CodeRecord, Assumption
<1> QED BY <1>3, <1>4, <1>5, <1>6 DEF RegistryInv

\* The host trips the dependents of an assumption itself.
LEMMA HostTripsInv ==
  ASSUME RegistryInv, NEW a, HostTrips(a)
  PROVE  RegistryInv'
<1>1. UNCHANGED <<codeId, assumptionId, entry, assumptions, index, brokenCount>>
  BY DEF HostTrips, chunkVars, watchdogVars
<1>2. /\ code' \in Seq(CodeEntry) /\ CodeIds' = CodeIds
      /\ \A id \in CodeIds : code'[id + 1].label = CodeRecord(id).label
      /\ trippedCount' \in Nat /\ dependents' = dependents /\ ActiveIsCallable'
  BY TripKeeps DEF HostTrips, InvalidateByAssumption, RegistryInv
<1>3. WatchdogInv' /\ AssumptionIds' = AssumptionIds
  BY <1>1 DEF RegistryInv, WatchdogInv, WatchdogTypeOK, ActiveIsValid, ActiveAssumptions,
     IndexIsExact, AssumptionIds, AssumptionValid, Assumption, Key
<1>4. TypeOK'
  BY <1>1, <1>2, <1>3 DEF RegistryInv, TypeOK, WatchdogInv
<1>5. IdsAreOwn'
  BY <1>1, <1>2, <1>3 DEF RegistryInv, IdsAreOwn, CodeRecord, Assumption
<1> QED BY <1>2, <1>3, <1>4, <1>5 DEF RegistryInv

LEMMA RegistryInvInit == Init => RegistryInv
<1> SUFFICES ASSUME Init PROVE RegistryInv
  OBVIOUS
<1>1. /\ code = <<>> /\ Len(code) = 0 /\ trippedCount = 0 /\ dependents = {}
      /\ codeId = [c \in Chunks |-> [t \in Tier |-> 0]]
      /\ assumptionId = [c \in Chunks |-> 0]
      /\ entry = [c \in Chunks |-> [t \in Tier |-> nullptr]]
  BY DEF Init, TripInit
<1>2. CodeIds = {}
  BY <1>1 DEF CodeIds
<1>3. ActiveIsCallable
  <2>1. {id \in CodeIds : CodeValid(id)} = {}
    BY <1>2
  <2>2. Cardinality({id \in CodeIds : CodeValid(id)}) = 0
    BY <2>1, FS_EmptySet
  <2>3. Len(code) - trippedCount = 0
    BY <1>1
  <2> QED BY <2>2, <2>3 DEF ActiveIsCallable, ActiveCode
<1>4. WatchdogInv
  BY WatchdogInvInit DEF Init
<1>5. TypeOK
  BY <1>1, <1>4 DEF TypeOK, WatchdogInv
<1>6. IdsAreOwn
  BY <1>1, <1>2 DEF IdsAreOwn
<1> QED BY <1>3, <1>4, <1>5, <1>6 DEF RegistryInv

LEMMA RegistryInvStep == RegistryInv /\ [Next]_vars => RegistryInv'
<1> SUFFICES ASSUME RegistryInv, [Next]_vars PROVE RegistryInv'
  OBVIOUS
<1>1. CASE UNCHANGED vars
  BY <1>1 DEF vars, chunkVars, tripVars, watchdogVars, RegistryInv, WatchdogInv, WatchdogTypeOK,
     ActiveIsValid, ActiveAssumptions, IndexIsExact, AssumptionIds, AssumptionValid, Assumption,
     Key, TypeOK, ActiveIsCallable, ActiveCode, CodeIds, CodeValid, CodeRecord, IdsAreOwn
<1>2. CASE Next
  BY <1>2, CompileTier1Inv, CompileTier2Inv, InvalidateChunkInv, BackgroundInv,
     HostBreaksInv, HostBreaksKindInv, HostTripsInv DEF Next
<1> QED BY <1>1, <1>2

-----------------------------------------------------------------------------

\* The registries and the ids the Runtime keeps stay well typed, over any history
\* of compilations and invalidations.
THEOREM TypeCorrect == Spec => []TypeOK
<1>1. RegistryInv => TypeOK
  BY DEF RegistryInv
<1> QED BY <1>1, RegistryInvInit, RegistryInvStep, PTL DEF Spec

\* An id or an entry point of a chunk never leads to a record of another chunk.
THEOREM IdsAreOwnSafe == Spec => []IdsAreOwn
<1>1. RegistryInv => IdsAreOwn
  BY DEF RegistryInv
<1> QED BY <1>1, RegistryInvInit, RegistryInvStep, PTL DEF Spec

\* An assumption that broke never holds again, and code never loses a dependency.
LEMMA NeverRevived ==
  ASSUME RegistryInv, [Next]_vars
  PROVE  /\ \A a \in AssumptionIds :
              a \in AssumptionIds' /\ (AssumptionValid(a)' => AssumptionValid(a))
         /\ dependents \subseteq dependents'
<1>0. WatchdogInv /\ TypeOK /\ ActiveIsCallable
  BY DEF RegistryInv
<1>1. ASSUME UNCHANGED watchdogVars
      PROVE  \A a \in AssumptionIds :
               a \in AssumptionIds' /\ (AssumptionValid(a)' => AssumptionValid(a))
  BY <1>1 DEF watchdogVars, AssumptionIds, AssumptionValid, Assumption
<1>2. ASSUME NEW id, InvalidateAssumption(id)
      PROVE  \A a \in AssumptionIds :
               a \in AssumptionIds' /\ (AssumptionValid(a)' => AssumptionValid(a))
  BY <1>0, <1>2, AssumptionsKept
<1>3. ASSUME NEW S, Break(S)
      PROVE  \A a \in AssumptionIds :
               a \in AssumptionIds' /\ (AssumptionValid(a)' => AssumptionValid(a))
  BY <1>0, <1>3, BreakKeeps
<1>4. ASSUME NEW c \in Chunks, RegisterAssumption(TypeStable, AddressOf[c])
      PROVE  \A a \in AssumptionIds :
               a \in AssumptionIds' /\ (AssumptionValid(a)' => AssumptionValid(a))
  <2>1. TypeStable \in Kinds /\ AddressOf[c] \in Payloads
    BY RegistryAssumption
  <2>2. PICK k : k = Len(assumptions)
    OBVIOUS
  <2> QED BY <1>0, <1>4, <2>1, <2>2, AssumptionAdded
<1>5. \A a \in AssumptionIds :
        a \in AssumptionIds' /\ (AssumptionValid(a)' => AssumptionValid(a))
  BY <1>1, <1>2, <1>3, <1>4 DEF Next, vars, CompileTier1, CompileTier2, InvalidateChunk,
     InstallInBackground, HostBreaks, HostBreaksKind, InvalidateByKind, HostTrips
<1>6. dependents \subseteq dependents'
  BY DEF Next, vars, tripVars, CompileTier1, CompileTier2, AddDependency, InvalidateChunk,
     InstallInBackground, HostBreaks, HostBreaksKind, HostTrips, InvalidateByAssumption, TripCode
<1> QED BY <1>5, <1>6

\* The registered code that a chunk runs is Valid while the assumptions it depends
\* on hold: invalidating a chunk trips only code of that chunk (IdsAreOwn), and an
\* assumption that broke never holds again (NeverRevived).
THEOREM InstalledIsValidSafe == Spec => []InstalledIsValid
<1>1. Init => InstalledIsValid
  BY RegistryAssumption DEF Init, TripInit, InstalledIsValid, CodeIds
<1>2. RegistryInv /\ InstalledIsValid /\ [Next]_vars => InstalledIsValid'
  <2> SUFFICES ASSUME RegistryInv, InstalledIsValid, [Next]_vars,
                      NEW d \in Chunks, NEW u \in Tier,
                      NEW e, e = entry'[d][u], e \in CodeIds',
                      \A a \in AssumptionIds' : <<a, e>> \in dependents' => AssumptionValid(a)'
               PROVE  CodeValid(e)'
    BY DEF InstalledIsValid, CodeValid, CodeRecord, Needs
  <2>0. /\ entry \in [Chunks -> [Tier -> CodeIds \cup {nullptr, Unregistered}]]
        /\ nullptr \notin Nat /\ Unregistered \notin Nat /\ Len(code) \in Nat
        /\ TypeOK /\ ActiveIsCallable /\ IdsAreOwn
    BY RegistryAssumption DEF RegistryInv, TypeOK
  <2>a. \A a \in AssumptionIds : <<a, e>> \in dependents => AssumptionValid(a)
    BY NeverRevived
  <2>1. e \in CodeIds /\ e = entry[d][u] =>
          CodeValid(e) /\ CodeRecord(e).label = <<d, u>>
    BY <2>0, <2>a DEF InstalledIsValid, IdsAreOwn, Needs
  <2>2. ASSUME NEW c \in Chunks, NEW t \in Tier, Install(c, t)
        PROVE  CodeValid(e)'
    <3>1. PICK n : n = Len(code)
      OBVIOUS
    <3>2. /\ entry' = [entry EXCEPT ![c][t] = n]
          /\ CodeIds' = CodeIds \cup {n} /\ n \notin CodeIds /\ n \in Nat
          /\ \A id \in CodeIds : CodeValid(id)' = CodeValid(id)
          /\ CodeValid(n)'
      BY <2>0, <2>2, <3>1, RegisterKeeps DEF Install
    <3>3. CASE e = n
      BY <3>2, <3>3
    <3>4. CASE e # n
      <4>1. e = entry[d][u]
        BY <2>0, <3>2, <3>4
      <4> QED BY <2>1, <3>2, <3>4, <4>1
    <3> QED BY <3>3, <3>4
  <2>3. ASSUME NEW c \in Chunks, InvalidateChunk(c)
        PROVE  CodeValid(e)'
    <3>1. /\ CodeIds' = CodeIds
          /\ \A id \in CodeIds : CodeValid(id)' <=> CodeValid(id) /\ id \notin KnownCode(c)
      BY <2>0, <2>3, TripKeeps DEF InvalidateChunk
    <3>2. e = entry[d][u] /\ d # c
      <4>1. entry' = [entry EXCEPT ![c] = [t \in Tier |-> nullptr]]
        BY <2>3 DEF InvalidateChunk
      <4>2. e # nullptr
        BY <2>0, <3>1 DEF CodeIds
      <4> QED BY <2>0, <4>1, <4>2
    <3>3. \A id \in KnownCode(c) : \E t \in Tier : CodeRecord(id).label = <<c, t>>
      BY <2>0 DEF KnownCode, IdsAreOwn
    <3>4. e \notin KnownCode(c)
      BY <2>1, <3>1, <3>2, <3>3
    <3> QED BY <2>1, <3>1, <3>2, <3>4
  <2>4. ASSUME NEW c \in Chunks, NEW t \in Tier, InstallInBackground(c, t)
        PROVE  CodeValid(e)'
    <3>1. entry' = [entry EXCEPT ![c][t] = Unregistered] /\ code' = code /\ CodeIds' = CodeIds
      BY <2>4 DEF InstallInBackground, tripVars, CodeIds
    <3>2. e # Unregistered
      BY <2>0, <3>1 DEF CodeIds
    <3>3. e = entry[d][u]
      BY <2>0, <3>1, <3>2
    <3> QED BY <2>1, <3>1, <3>3 DEF CodeValid, CodeRecord
  <2>8. ASSUME NEW a \in AssumptionIds, HostTrips(a)
        PROVE  CodeValid(e)'
    <3>1. /\ CodeIds' = CodeIds /\ entry' = entry
          /\ \A id \in CodeIds : CodeValid(id)' <=> CodeValid(id) /\ id \notin DependentCode(a)
      BY <2>0, <2>8, TripKeeps DEF HostTrips, InvalidateByAssumption, chunkVars
    <3>2. e \notin DependentCode(a)
      BY <2>a, <2>8 DEF HostTrips, DependentCode
    <3> QED BY <2>1, <3>1, <3>2
  <2>5. ASSUME UNCHANGED <<chunkVars, tripVars>>
        PROVE  CodeValid(e)'
    BY <2>1, <2>5 DEF chunkVars, tripVars, CodeValid, CodeRecord, CodeIds
  <2>6. CASE UNCHANGED vars
    BY <2>5, <2>6 DEF vars
  <2>7. CASE Next
    BY <2>2, <2>3, <2>4, <2>5, <2>7, <2>8
       DEF Next, CompileTier1, CompileTier2, HostBreaks, HostBreaksKind, Tier
  <2> QED BY <2>6, <2>7
<1> QED BY <1>1, <1>2, RegistryInvInit, RegistryInvStep, PTL DEF Spec

\* The counters and the index of both registries agree with their records however
\* the Runtime and the host mix their calls.
THEOREM CountersExact == Spec => [](ActiveIsValid /\ IndexIsExact /\ ActiveIsCallable)
<1>1. RegistryInv => ActiveIsValid /\ IndexIsExact /\ ActiveIsCallable
  BY DEF RegistryInv, WatchdogInv
<1> QED BY <1>1, RegistryInvInit, RegistryInvStep, PTL DEF Spec

\* A step of the whole system that is invalidate_by_kind breaks the assumptions of
\* that kind and payload and no other.
THEOREM ByKindMatchesSafe == Spec => ByKindMatches
<1>1. RegistryInv /\ [Next]_vars =>
        [\A kind \in Kinds, payload \in Payloads :
           payload < PayloadMod /\ InvalidateByKind(kind, payload) =>
             \A id \in AssumptionIds : Assumption(id).payload < PayloadMod =>
               (AssumptionValid(id)' <=>
                  /\ AssumptionValid(id)
                  /\ ~ (Assumption(id).kind = kind /\ Assumption(id).payload = payload))]_watchdogVars
  BY ByKindExact DEF RegistryInv
<1> QED BY <1>1, RegistryInvInit, RegistryInvStep, PTL DEF Spec, ByKindMatches

\* Code that was tripped is never Valid again.
LEMMA CodeNeverRevived ==
  ASSUME RegistryInv, [Next]_vars
  PROVE  \A id \in CodeIds : CodeValid(id)' => CodeValid(id)
<1>0. TypeOK /\ ActiveIsCallable
  BY DEF RegistryInv
<1>1. ASSUME NEW c \in Chunks, NEW t \in Tier, Install(c, t)
      PROVE  \A id \in CodeIds : CodeValid(id)' => CodeValid(id)
  <2>1. PICK n : n = Len(code)
    OBVIOUS
  <2> QED BY <1>0, <1>1, <2>1, RegisterKeeps DEF Install
<1>2. ASSUME NEW S, TripCode(S)
      PROVE  \A id \in CodeIds : CodeValid(id)' => CodeValid(id)
  BY <1>0, <1>2, TripKeeps
<1>3. ASSUME UNCHANGED tripVars
      PROVE  \A id \in CodeIds : CodeValid(id)' => CodeValid(id)
  BY <1>3 DEF tripVars, CodeValid, CodeRecord, CodeIds
<1> QED BY <1>1, <1>2, <1>3 DEF Next, vars, CompileTier1, CompileTier2, InvalidateChunk,
     InstallInBackground, HostBreaks, HostBreaksKind, HostTrips, InvalidateByAssumption, Tier

\* Invalidating an assumption leaves it broken.
LEMMA AssumptionBreaks ==
  ASSUME RegistryInv, NEW id, InvalidateAssumption(id)
  PROVE  ~ AssumptionValid(id)'
<1>1. CASE ~ AssumptionValid(id) /\ UNCHANGED watchdogVars
  BY <1>1 DEF watchdogVars, AssumptionValid, AssumptionIds, Assumption
<1>2. CASE AssumptionValid(id) /\ Break({id})
  <2>1. id \in AssumptionIds
    BY <1>2 DEF AssumptionValid
  <2> QED BY <1>2, <2>1, BreakCounts DEF RegistryInv, WatchdogInv
<1> QED BY <1>1, <1>2 DEF InvalidateAssumption

\* What invalidate_chunk cleared stays known to be gone: as long as a chunk has no
\* code, the records and the assumption its ids name are not valid.
THEOREM ClearedIsTrippedSafe == Spec => []ClearedIsTripped
<1>1. Init => ClearedIsTripped
  BY DEF Init, ClearedIsTripped
<1>2. RegistryInv /\ ClearedIsTripped /\ [Next]_vars => ClearedIsTripped'
  <2> SUFFICES ASSUME RegistryInv, ClearedIsTripped, [Next]_vars,
                      NEW c \in Chunks, \A t \in Tier : entry'[c][t] = nullptr
               PROVE  /\ \A t \in Tier, id \in Nat \ {0} :
                           id = codeId'[c][t] => ~ CodeValid(id)'
                      /\ \A a \in Nat \ {0} : a = assumptionId'[c] => ~ AssumptionValid(a)'
    <3>1. ASSUME RegistryInv, [Next]_vars PROVE TypeOK'
      <4>1. RegistryInv'
        BY RegistryInvStep, <3>1
      <4> QED BY <4>1 DEF RegistryInv
    <3> QED BY <3>1 DEF ClearedIsTripped, TypeOK, CodeValid, CodeIds, CodeRecord,
               AssumptionValid, AssumptionIds, Assumption
  <2>0. TypeOK /\ ActiveIsCallable /\ IdsAreOwn /\ nullptr \notin Nat /\ nullptr # Unregistered
        /\ Len(code) \in Nat
    BY RegistryAssumption DEF RegistryInv, TypeOK
  <2>a. /\ \A id \in CodeIds : CodeValid(id)' => CodeValid(id)
        /\ \A a \in AssumptionIds : AssumptionValid(a)' => AssumptionValid(a)
    BY CodeNeverRevived, NeverRevived
  <2>b. /\ \A t \in Tier : codeId[c][t] # 0 => codeId[c][t] \in CodeIds
        /\ assumptionId[c] # 0 => assumptionId[c] \in AssumptionIds
    BY <2>0 DEF IdsAreOwn
  <2>1. CASE /\ entry'[c] = entry[c] /\ codeId'[c] = codeId[c]
             /\ assumptionId'[c] = assumptionId[c]
    <3>1. /\ \A t \in Tier : codeId[c][t] # 0 => ~ CodeValid(codeId[c][t])
          /\ assumptionId[c] # 0 => ~ AssumptionValid(assumptionId[c])
      BY <2>1 DEF ClearedIsTripped
    <3> QED BY <2>1, <2>a, <2>b, <3>1
  <2>2. ASSUME NEW d \in Chunks, NEW t \in Tier, Install(d, t)
        PROVE  d # c /\ entry'[c] = entry[c] /\ codeId'[c] = codeId[c]
    <3>1. /\ entry' = [entry EXCEPT ![d][t] = Len(code)]
          /\ codeId' = [codeId EXCEPT ![d][t] = Len(code)]
      BY <2>2 DEF Install
    <3>2. entry'[d][t] = Len(code)
      BY <2>0, <3>1 DEF TypeOK
    <3>3. d # c
      BY <2>0, <3>2
    <3> QED BY <2>0, <3>1, <3>3 DEF TypeOK
  <2>3. CASE \E d \in Chunks : CompileTier1(d)
    <3> PICK d \in Chunks : CompileTier1(d)
      BY <2>3
    <3>1. d # c /\ entry'[c] = entry[c] /\ codeId'[c] = codeId[c]
      BY <2>2 DEF CompileTier1, Tier
    <3>2. assumptionId'[c] = assumptionId[c]
      BY <2>0, <3>1 DEF CompileTier1, TypeOK
    <3> QED BY <2>1, <3>1, <3>2
  <2>4. CASE \E d \in Chunks : CompileTier2(d)
    <3> PICK d \in Chunks : CompileTier2(d)
      BY <2>4
    <3>1. d # c /\ entry'[c] = entry[c] /\ codeId'[c] = codeId[c]
      BY <2>2 DEF CompileTier2, Tier
    <3> QED BY <2>1, <3>1 DEF CompileTier2
  <2>5. CASE \E d \in Chunks : InvalidateChunk(d)
    <3> PICK d \in Chunks : InvalidateChunk(d)
      BY <2>5
    <3>1. codeId' = codeId /\ assumptionId' = assumptionId
      BY DEF InvalidateChunk
    <3>2. CASE d # c
      <4>1. entry'[c] = entry[c]
        BY <2>0, <3>2 DEF InvalidateChunk, TypeOK
      <4> QED BY <2>1, <3>1, <4>1
    <3>3. CASE d = c
      <4>1. ASSUME NEW t \in Tier, NEW id \in Nat \ {0}, id = codeId[c][t]
            PROVE  ~ CodeValid(id)'
        <5>1. id \in KnownCode(c) /\ id \in CodeIds
          BY <2>b, <4>1 DEF KnownCode
        <5>2. TripCode(KnownCode(c))
          BY <3>3 DEF InvalidateChunk
        <5> QED BY <2>0, <5>1, <5>2, TripKeeps
      <4>2. ASSUME NEW a \in Nat \ {0}, a = assumptionId[c]
            PROVE  ~ AssumptionValid(a)'
        <5>1. InvalidateAssumption(a)
          BY <3>3, <4>2 DEF InvalidateChunk
        <5> QED BY <5>1, AssumptionBreaks
      <4> QED BY <3>1, <4>1, <4>2
    <3> QED BY <3>2, <3>3
  <2>6. CASE \E d \in Chunks, t \in Tier : InstallInBackground(d, t)
    <3> PICK d \in Chunks, t \in Tier : InstallInBackground(d, t)
      BY <2>6
    <3>1. /\ entry' = [entry EXCEPT ![d][t] = Unregistered]
          /\ codeId' = codeId /\ assumptionId' = assumptionId
      BY DEF InstallInBackground
    <3>2. entry'[d][t] = Unregistered
      BY <2>0, <3>1 DEF TypeOK
    <3>3. d # c
      BY <2>0, <3>2
    <3> QED BY <2>0, <2>1, <3>1, <3>3 DEF TypeOK
  <2>7. CASE UNCHANGED chunkVars
    BY <2>1, <2>7 DEF chunkVars
  <2> QED BY <2>3, <2>4, <2>5, <2>6, <2>7
          DEF Next, vars, HostBreaks, HostBreaksKind, HostTrips
<1> QED BY <1>1, <1>2, RegistryInvInit, RegistryInvStep, PTL DEF Spec
=============================================================================
