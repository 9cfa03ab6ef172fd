----------------------------- MODULE Variables -----------------------------
(***************************************************************************)
(* The named variables of the interpreter: lookup_var_ and set_var_ over   *)
(* the chain of frames (src/src/interp/interpreter.h:214-248), calls and   *)
(* returns as far as they make and drop tables, and the open-addressing    *)
(* hash table each frame has (src/src/bytecode/symbol_table.h).            *)
(*                                                                         *)
(* Nothing calls remove, so that a bucket is empty or holds a name.  The   *)
(* frame of the chunk itself shares the globals; a called function gets a  *)
(* table of its own.                                                       *)
(***************************************************************************)
EXTENDS Integers, Sequences, FiniteSets

CONSTANTS
  Names, Values, Undef,
  NoName,        \* the key of an empty bucket
  Hash,          \* fnv1a64 of each name
  FirstCapacity, \* 16
  MaxFrames      \* bounds the depth of calls

ASSUME VariablesAssumption ==
  /\ FirstCapacity \in Nat \ {0}
  /\ Hash \in [Names -> Nat]
  /\ NoName \notin Names

VARIABLES
  tables,    \* the table of each frame, globals first
  found,     \* what the last lookup yielded
  misled     \* history: has was wrong for the name of the last step

varVars == <<tables, found, misled>>

Free == [key |-> NoName, value |-> Undef]

\* A table: its buckets, numbered from 0, and count_.
Table(capacity) == [buckets |-> [i \in 0 .. capacity - 1 |-> Free], count |-> 0]
NoBuckets == Table(0)
Capacity(t) == Cardinality(DOMAIN t.buckets)
NotFound == -1

-----------------------------------------------------------------------------

\* Fault: names are told apart by their hash alone.
SameHash(bucket, n) == bucket.key # NoName /\ Hash[bucket.key] = Hash[n]

\* The hash is compared first and then the key.
Holds(bucket, n) == bucket.key # NoName /\ Hash[bucket.key] = Hash[n] /\ bucket.key = n

\* find_slot: the first bucket on the way round that is empty or holds n.
FindSlot(t, n) ==
  LET at(j) == (Hash[n] + j) % Capacity(t)
      stops == {j \in 0 .. Capacity(t) - 1 :
                  LET b == t.buckets[at(j)] IN b.key = NoName \/ Holds(b, n)}
  IN IF stops = {} THEN NotFound
     ELSE at(CHOOSE j \in stops : \A k \in stops : j <= k)

\* has: a free bucket counts as the name.
Has(t, n) == Capacity(t) > 0 /\ FindSlot(t, n) # NotFound

Get(t, n) == IF Has(t, n) THEN t.buckets[FindSlot(t, n)].value ELSE Undef

\* The store into the bucket that was found; a new name is counted.
Put(t, n, v) ==
  LET i == FindSlot(t, n)
  IN [buckets |-> [t.buckets EXCEPT ![i] = [key |-> n, value |-> v]],
      count |-> IF t.buckets[i].key = NoName THEN t.count + 1 ELSE t.count]

\* grow: twice the buckets, filled in the order of the old ones.
Grow(t) ==
  LET fresh == Table(IF Capacity(t) = 0 THEN FirstCapacity ELSE 2 * Capacity(t))
      step(u, b) == IF b.key = NoName THEN u ELSE Put(u, b.key, b.value)
      filled[i \in 0 .. Capacity(t)] ==
        IF i = 0 THEN fresh ELSE step(filled[i - 1], t.buckets[i - 1])
  IN filled[Capacity(t)]

\* set: the table grows when it has no buckets or no room for a new name.
SetIn(t, n, v) ==
  LET ready == IF Capacity(t) = 0 THEN Grow(t) ELSE t
  IN Put(IF FindSlot(ready, n) = NotFound THEN Grow(ready) ELSE ready, n, v)

-----------------------------------------------------------------------------

\* The innermost frame whose table has the name, 0 if none has.
Owner(n) ==
  LET having == {i \in DOMAIN tables : Has(tables[i], n)}
  IN IF having = {} THEN 0 ELSE CHOOSE i \in having : \A j \in having : j <= i

\* The names a table holds, with their values; the free buckets say nothing.
Contents(t) ==
  LET full == {i \in DOMAIN t.buckets : t.buckets[i].key # NoName}
  IN [n \in {t.buckets[i].key : i \in full} |->
        t.buckets[CHOOSE i \in full : t.buckets[i].key = n].value]

\* The walk stops at a table that does not hold n.
Misled(n) == Owner(n) # 0 /\ n \notin DOMAIN Contents(tables[Owner(n)])

VarInit == tables = <<NoBuckets>> /\ found = Undef /\ misled = FALSE

lookup_var_(n) ==
  /\ found' = IF Owner(n) = 0 THEN Undef ELSE Get(tables[Owner(n)], n)
  /\ misled' = Misled(n)
  /\ UNCHANGED tables

\* Stored where the name is found, or in the current frame.
set_var_(n, v) ==
  /\ LET i == IF Owner(n) = 0 THEN Len(tables) ELSE Owner(n)
     IN tables' = [tables EXCEPT ![i] = SetIn(tables[i], n, v)]
  /\ misled' = Misled(n)
  /\ UNCHANGED found

\* The arguments are set in the order of the parameters.
Call(params, args) ==
  LET bound[i \in 0 .. Len(params)] ==
        IF i = 0 THEN NoBuckets ELSE SetIn(bound[i - 1], params[i], args[i])
  IN /\ Len(tables) < MaxFrames
     /\ tables' = Append(tables, bound[Len(params)])
     /\ misled' = FALSE
     /\ UNCHANGED found

Return ==
  /\ Len(tables) > 1
  /\ tables' = SubSeq(tables, 1, Len(tables) - 1)
  /\ misled' = FALSE
  /\ UNCHANGED found

Parameters == {s \in UNION {[1 .. k -> Names] : k \in 0 .. 2} : Len(s) = 2 => s[1] # s[2]}

VarNext ==
  \/ \E n \in Names, v \in Values : set_var_(n, v)
  \/ \E n \in Names : lookup_var_(n)
  \/ \E params \in Parameters : \E args \in [DOMAIN params -> Values] : Call(params, args)
  \/ Return

VarSpec == VarInit /\ [][VarNext]_varVars

-----------------------------------------------------------------------------

\* The maps that the frames hold.
Chain == [i \in DOMAIN tables |-> Contents(tables[i])]

Scope == INSTANCE Scopes WITH scopes <- Chain

\* What a misled access does: a lookup misses, a store defines the name in a
\* table that lacked it.  No name that any table holds is lost or changed.
Misplaced ==
  \/ found' = Undef /\ UNCHANGED Chain
  \/ \E i \in DOMAIN Chain, n \in Names, v \in Values :
       /\ n \notin DOMAIN Chain[i]
       /\ Chain' = [Chain EXCEPT ![i] = Scope!Bound(Chain[i], n, v)]
       /\ UNCHANGED found

\* Probing, wrapping around, growing and rehashing lose and confuse no name: the
\* frames behave as a chain of maps at every step for which has tells the truth
\* (symbol_table.h:42-149 under interpreter.h:220-248).  It does not where it takes
\* a free bucket for the name (symbol_table.h:51), and then the walk ends at a frame
\* that lacks the name, against interpreter.h:216-219 and :232: the property asks of
\* such a step no more than Misplaced.
TablesAreScopes ==
  Scope!Init /\ [][Scope!Next \/ (misled' /\ Misplaced)]_<<Chain, found>>

=============================================================================
