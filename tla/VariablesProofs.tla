-------------------------- MODULE VariablesProofs --------------------------
(***************************************************************************)
(* Theorems of Variables, for any names, any hash of them and any capacity *)
(* a table starts with: at every step for which has tells the truth, the   *)
(* chain of hash tables behaves as the chain of maps of Scopes.            *)
(***************************************************************************)
EXTENDS Variables, FiniteSetTheorems, SequenceTheorems, TLAPS

\* Induction on the natural numbers, for a set of them.
LEMMA NatSet ==
  ASSUME NEW F, 0 \in F, \A n \in Nat : n \in F => n + 1 \in F
  PROVE  Nat \subseteq F
<1> SUFFICES ASSUME Nat \ F # {} PROVE FALSE
  OBVIOUS
<1>1. \E m \in Nat \ F : \A k \in Nat \ F : ~ (<<k, m>> \in OpToRel(<, Nat))
  BY NatLessThanWellFounded, WFMin
<1>2. \A k, m \in Nat : k < m => <<k, m>> \in OpToRel(<, Nat)
  BY DEF OpToRel
<1>3. PICK m \in Nat \ F : \A k \in Nat \ F : ~ (k < m)
  BY <1>1, <1>2
<1>4. m - 1 \in Nat /\ m - 1 < m
  BY <1>3
<1>5. m - 1 \in F
  BY <1>3, <1>4
<1> QED BY <1>3, <1>4, <1>5

\* A nonempty set of natural numbers has a smallest element.
LEMMA Smallest ==
  ASSUME NEW T, T \subseteq Nat, T # {}
  PROVE  \E m \in T : \A k \in T : m <= k
<1>1. \E m \in T : \A k \in T : ~ (<<k, m>> \in OpToRel(<, Nat))
  BY NatLessThanWellFounded, WFMin
<1>2. \A k, m \in Nat : k < m => <<k, m>> \in OpToRel(<, Nat)
  BY DEF OpToRel
<1>3. PICK m \in T : \A k \in T : ~ (<<k, m>> \in OpToRel(<, Nat))
  BY <1>1
<1>4. \A k \in T : ~ (k < m)
  BY <1>2, <1>3
<1> QED BY <1>4

\* A nonempty set of the first n positive numbers has a largest element.
LEMMA LastOfSome ==
  ASSUME NEW n \in Nat, NEW T, T \subseteq 1 .. n, T # {}
  PROVE  \E m \in T : \A k \in T : k <= m
<1> DEFINE gaps == {n - k : k \in T}
<1>5. \A k \in T : k \in 1 .. n
  OBVIOUS
<1>1. gaps \subseteq Nat /\ gaps # {}
  <2>1. \A k \in T : n - k \in Nat
    BY <1>5
  <2>2. PICK k \in T : TRUE
    OBVIOUS
  <2>3. n - k \in gaps
    BY <2>2
  <2> QED BY <2>1, <2>3
<1>2. PICK g \in gaps : \A k \in gaps : g <= k
  BY <1>1, Smallest
<1>3. PICK m \in T : g = n - m
  BY <1>2
<1>4. \A k \in T : n - m <= n - k
  BY <1>2, <1>3
<1>6. \A k \in T : k <= m
  BY <1>3, <1>4, <1>5
<1> QED BY <1>6

-----------------------------------------------------------------------------
(* The way round the buckets *)

LEMMA DivMod ==
  ASSUME NEW c \in Nat \ {0}, NEW h \in Nat
  PROVE  h = c * (h \div c) + (h % c) /\ h \div c \in Nat /\ h % c \in 0 .. c - 1
OBVIOUS
LEMMA ModOf ==
  ASSUME NEW c \in Nat \ {0}, NEW q \in Nat, NEW r \in 0 .. c - 1
  PROVE  (c * q + r) % c = r
OBVIOUS
LEMMA ModAdd ==
  ASSUME NEW c \in Nat \ {0}, NEW h \in Nat, NEW j \in 0 .. c - 1
  PROVE  (h + j) % c = IF (h % c) + j < c THEN (h % c) + j ELSE (h % c) + j - c
<1> DEFINE q == h \div c
           r == h % c
<1>1. h = c * q + r /\ q \in Nat /\ r \in 0 .. c - 1
  BY DivMod
<1> HIDE DEF q, r
<1>2. CASE r + j < c
  <2>1. r + j \in 0 .. c - 1 /\ h + j = c * q + (r + j)
    BY <1>1, <1>2
  <2> QED BY <1>1, <1>2, <2>1, ModOf DEF r
<1>3. CASE ~(r + j < c)
  <2>1. r + j - c \in 0 .. c - 1
    BY <1>1, <1>3
  <2>2. h + j = c * (q + 1) + (r + j - c)
    <3>1. c * (q + 1) = c * q + c
      BY <1>1
    <3> QED BY <1>1, <3>1
  <2>3. q + 1 \in Nat
    BY <1>1
  <2>4. (h + j) % c = r + j - c
    BY <2>1, <2>2, <2>3, ModOf
  <2> QED BY <1>3, <2>4 DEF r
<1> QED BY <1>2, <1>3

\* From any hash the probe passes each bucket, and each but once.
LEMMA ProbesAll ==
  ASSUME NEW c \in Nat \ {0}, NEW h \in Nat
  PROVE  /\ \A j \in 0 .. c - 1 : (h + j) % c \in 0 .. c - 1
         /\ \A i \in 0 .. c - 1 : \E j \in 0 .. c - 1 : (h + j) % c = i
         /\ \A j, k \in 0 .. c - 1 : (h + j) % c = (h + k) % c => j = k
<1> DEFINE r == h % c
           at(j) == (h + j) % c
<1>1. r \in 0 .. c - 1
  BY DivMod
<1>2. \A j \in 0 .. c - 1 : at(j) = IF r + j < c THEN r + j ELSE r + j - c
  BY ModAdd
<1> HIDE DEF r, at
<1>3. \A j \in 0 .. c - 1 : at(j) \in 0 .. c - 1
  BY <1>1, <1>2
<1>4. ASSUME NEW i \in 0 .. c - 1
      PROVE  \E j \in 0 .. c - 1 : at(j) = i
  <2>1. CASE r <= i
    <3>1. i - r \in 0 .. c - 1 /\ r + (i - r) = i
      BY <1>1, <2>1
    <3> QED BY <1>2, <3>1
  <2>2. CASE i < r
    <3>1. i - r + c \in 0 .. c - 1 /\ r + (i - r + c) - c = i /\ ~(r + (i - r + c) < c)
      BY <1>1, <2>2
    <3> QED BY <1>2, <3>1
  <2> QED BY <1>1, <2>1, <2>2
<1>5. \A j, k \in 0 .. c - 1 : at(j) = at(k) => j = k
  BY <1>1, <1>2
<1> QED BY <1>3, <1>4, <1>5 DEF at

-----------------------------------------------------------------------------
(* What a table is like *)

Bucket == {b \in [key : Names \cup {NoName}, value : Values \cup {Undef}] :
             IF b.key = NoName THEN b.value = Undef ELSE b.value \in Values}

Occupied(t) == {i \in DOMAIN t.buckets : t.buckets[i].key # NoName}
KeysOf(t) == {t.buckets[i].key : i \in Occupied(t)}

\* The buckets that a search for n passes before bucket i are occupied.
Reaches(t, c, n, i) ==
  \E j \in 0 .. c - 1 :
     /\ (Hash[n] + j) % c = i
     /\ \A k \in 0 .. c - 1 : k < j => (Hash[n] + k) % c \in Occupied(t)

\* A table of c buckets holds a name once, and where a search finds it.
Sound(t, c) ==
  /\ c \in Nat
  /\ t \in [buckets : [0 .. c - 1 -> Bucket], count : Nat]
  /\ \A i, j \in Occupied(t) : t.buckets[i].key = t.buckets[j].key => i = j
  /\ \A i \in Occupied(t) : Reaches(t, c, t.buckets[i].key, i)

LEMMA SoundTypes ==
  ASSUME NEW t, NEW c, Sound(t, c)
  PROVE  /\ c \in Nat /\ DOMAIN t.buckets = 0 .. c - 1 /\ Capacity(t) = c
         /\ Occupied(t) \subseteq 0 .. c - 1 /\ IsFiniteSet(Occupied(t))
         /\ Cardinality(Occupied(t)) \in Nat /\ Cardinality(Occupied(t)) <= c
         /\ Cardinality(Occupied(t)) = c => Occupied(t) = 0 .. c - 1
         /\ \A i \in 0 .. c - 1 :
              /\ t.buckets[i] \in Bucket
              /\ i \notin Occupied(t) => t.buckets[i] = Free
         /\ \A i \in Occupied(t) : t.buckets[i].key \in Names /\ t.buckets[i].value \in Values
         /\ KeysOf(t) \subseteq Names
<1>1. c \in Nat /\ t.buckets \in [0 .. c - 1 -> Bucket] /\ DOMAIN t.buckets = 0 .. c - 1
  BY DEF Sound
<1>2. IsFiniteSet(0 .. c - 1) /\ Cardinality(0 .. c - 1) = c
  <2>1. c - 1 \in Int /\ 0 \in Int
    BY <1>1
  <2>2. IsFiniteSet(0 .. c - 1)
        /\ Cardinality(0 .. c - 1) = IF 0 > c - 1 THEN 0 ELSE (c - 1) - 0 + 1
    BY <2>1, FS_Interval
  <2> QED BY <1>1, <2>2
<1>3. Capacity(t) = c
  BY <1>1, <1>2 DEF Capacity
<1>4. Occupied(t) \subseteq 0 .. c - 1
  BY <1>1 DEF Occupied
<1>5. /\ IsFiniteSet(Occupied(t)) /\ Cardinality(Occupied(t)) \in Nat
      /\ Cardinality(Occupied(t)) <= c
      /\ Cardinality(Occupied(t)) = c => Occupied(t) = 0 .. c - 1
  BY <1>2, <1>4, FS_Subset, FS_CardinalityType
<1>6. \A i \in 0 .. c - 1 : t.buckets[i] \in Bucket /\ (i \notin Occupied(t) => t.buckets[i] = Free)
  BY <1>1 DEF Bucket, Free, Occupied
<1>7. \A i \in Occupied(t) : t.buckets[i].key \in Names /\ t.buckets[i].value \in Values
  BY <1>1, <1>4 DEF Bucket, Occupied
<1> QED BY <1>1, <1>3, <1>4, <1>5, <1>6, <1>7 DEF KeysOf

\* find_slot finds a name that is there, else the first free bucket on its way, if any.
LEMMA Finds ==
  ASSUME NEW t, NEW c, Sound(t, c), c # 0, NEW n \in Names
  PROVE  \/ \E i \in Occupied(t) : t.buckets[i].key = n /\ FindSlot(t, n) = i
         \/ /\ n \notin KeysOf(t)
            /\ FindSlot(t, n) \in 0 .. c - 1 /\ FindSlot(t, n) \notin Occupied(t)
            /\ Reaches(t, c, n, FindSlot(t, n))
         \/ n \notin KeysOf(t) /\ FindSlot(t, n) = NotFound /\ Occupied(t) = 0 .. c - 1
<1> DEFINE h == Hash[n]
           at(j) == (h + j) % c
           stops == {j \in 0 .. c - 1 : t.buckets[at(j)].key = NoName \/ Holds(t.buckets[at(j)], n)}
           first == CHOOSE j \in stops : \A k \in stops : j <= k
<1>1. /\ c \in Nat \ {0} /\ DOMAIN t.buckets = 0 .. c - 1 /\ Capacity(t) = c
      /\ Occupied(t) \subseteq 0 .. c - 1
  BY SoundTypes
<1>2. h \in Nat /\ n # NoName
  BY VariablesAssumption
<1> HIDE DEF h
<1>3. /\ \A j \in 0 .. c - 1 : at(j) \in 0 .. c - 1
      /\ \A i \in 0 .. c - 1 : \E j \in 0 .. c - 1 : at(j) = i
      /\ \A j, k \in 0 .. c - 1 : at(j) = at(k) => j = k
  <2>1. c \in Nat \ {0} /\ h \in Nat
    BY <1>1, <1>2
  <2> QED BY ONLY <2>1, ProbesAll
<1>4. FindSlot(t, n) = IF stops = {} THEN NotFound ELSE at(first)
  BY <1>1 DEF FindSlot, h
<1>5. stops # {} => first \in stops /\ \A k \in stops : first <= k
  <2>1. stops \subseteq Nat
    BY <1>1
  <2> HIDE DEF stops
  <2> QED BY <2>1, Smallest
<1>6. \A j \in 0 .. c - 1 : j \in stops <=> at(j) \notin Occupied(t) \/ t.buckets[at(j)].key = n
  BY <1>1, <1>2, <1>3 DEF Holds, Occupied
<1>7. stops \subseteq 0 .. c - 1
  OBVIOUS
<1> HIDE DEF stops, first, at
<1>8. ASSUME NEW i \in Occupied(t), t.buckets[i].key = n
      PROVE  FindSlot(t, n) = i
  <2>1. PICK j \in 0 .. c - 1 : /\ at(j) = i
                                /\ \A k \in 0 .. c - 1 : k < j => at(k) \in Occupied(t)
    BY <1>8 DEF Sound, Reaches, at, h
  <2>2. j \in stops
    BY <1>6, <1>8, <2>1
  <2>3. ASSUME NEW k \in stops, k < j
        PROVE  FALSE
    <3>1. k \in 0 .. c - 1 /\ at(k) \in Occupied(t)
      BY <1>7, <2>1, <2>3
    <3>2. t.buckets[at(k)].key = n
      BY <1>6, <2>3, <3>1
    <3>3. at(k) = at(j)
      BY <1>8, <2>1, <3>1, <3>2 DEF Sound
    <3>4. k = j
      BY <1>3, <3>1, <3>3
    <3> QED BY <1>1, <2>3, <3>4
  <2>4. first \in stops /\ first <= j
    BY <1>5, <2>2
  <2>5. first = j
    BY <1>1, <1>7, <2>3, <2>4
  <2> QED BY <1>4, <2>1, <2>2, <2>5
<1>9. ASSUME n \notin KeysOf(t), stops # {}
      PROVE  /\ FindSlot(t, n) \in 0 .. c - 1 /\ FindSlot(t, n) \notin Occupied(t)
             /\ Reaches(t, c, n, FindSlot(t, n))
  <2>1. first \in 0 .. c - 1 /\ first \in stops /\ FindSlot(t, n) = at(first)
    BY <1>4, <1>5, <1>7, <1>9
  <2>2. at(first) \in 0 .. c - 1 /\ at(first) \notin Occupied(t)
    BY <1>3, <1>6, <1>9, <2>1 DEF KeysOf
  <2>3. \A k \in 0 .. c - 1 : k < first => k \notin stops
    BY <1>1, <1>5, <1>9, <2>1
  <2>4. \A k \in 0 .. c - 1 : k < first => at(k) \in Occupied(t)
    BY <1>6, <2>3
  <2> QED BY <2>1, <2>2, <2>4 DEF Reaches, at, h
<1>10. ASSUME stops = {}
       PROVE  FindSlot(t, n) = NotFound /\ Occupied(t) = 0 .. c - 1
  <2>1. \A j \in 0 .. c - 1 : at(j) \in Occupied(t)
    BY <1>6, <1>10
  <2>2. \A i \in 0 .. c - 1 : i \in Occupied(t)
    BY <1>3, <2>1
  <2> QED BY <1>1, <1>4, <1>10, <2>2
<1>11. CASE n \in KeysOf(t)
  BY <1>8, <1>11 DEF KeysOf
<1>12. CASE n \notin KeysOf(t)
  BY <1>9, <1>10, <1>12
<1> QED BY <1>11, <1>12

\* The map a table holds.
LEMMA ContentsAre ==
  ASSUME NEW t, NEW c, Sound(t, c)
  PROVE  /\ DOMAIN Contents(t) = KeysOf(t)
         /\ Contents(t) \in [KeysOf(t) -> Values]
         /\ \A i \in Occupied(t) : Contents(t)[t.buckets[i].key] = t.buckets[i].value
<1> DEFINE at(n) == CHOOSE i \in Occupied(t) : t.buckets[i].key = n
<1>1. Contents(t) = [n \in KeysOf(t) |-> t.buckets[at(n)].value]
  BY DEF Contents, KeysOf, Occupied
<1>2. \A n \in KeysOf(t) : at(n) \in Occupied(t) /\ t.buckets[at(n)].key = n
  BY DEF KeysOf
<1> HIDE DEF at
<1>3. \A i \in Occupied(t) : t.buckets[i].key \in KeysOf(t) /\ t.buckets[i].value \in Values
  BY SoundTypes DEF KeysOf
<1>4. \A i \in Occupied(t) : at(t.buckets[i].key) = i
  BY <1>2, <1>3 DEF Sound
<1> QED BY <1>1, <1>2, <1>3, <1>4

\* A name and its value are put where find_slot says: the table stays sound.
LEMMA PutKeeps ==
  ASSUME NEW t, NEW c, Sound(t, c), c # 0, NEW n \in Names, NEW v \in Values,
         FindSlot(t, n) # NotFound,
         NEW s, s = FindSlot(t, n), NEW u, u = Put(t, n, v)
  PROVE  /\ Sound(u, c)
         /\ s \in 0 .. c - 1 /\ u.buckets[s] = [key |-> n, value |-> v]
         /\ Occupied(u) = Occupied(t) \cup {s}
         /\ \A i \in Occupied(t) : i # s => u.buckets[i] = t.buckets[i]
         /\ s \in Occupied(t) => t.buckets[s].key = n
         /\ s \notin Occupied(t) => n \notin KeysOf(t)
<1> DEFINE new == [key |-> n, value |-> v]
<1>1. /\ s \in 0 .. c - 1
      /\ s \in Occupied(t) => t.buckets[s].key = n
      /\ s \notin Occupied(t) => n \notin KeysOf(t)
      /\ Reaches(t, c, n, s)
  <2>1. CASE \E i \in Occupied(t) : t.buckets[i].key = n /\ FindSlot(t, n) = i
    <3>1. s \in Occupied(t) /\ t.buckets[s].key = n
      BY <2>1
    <3>2. Reaches(t, c, t.buckets[s].key, s)
      BY <3>1 DEF Sound
    <3>3. s \in 0 .. c - 1
      BY <3>1, SoundTypes
    <3> QED BY <3>1, <3>2, <3>3
  <2>2. CASE /\ n \notin KeysOf(t)
             /\ FindSlot(t, n) \in 0 .. c - 1 /\ FindSlot(t, n) \notin Occupied(t)
             /\ Reaches(t, c, n, FindSlot(t, n))
    BY <2>2
  <2> QED BY <2>1, <2>2, Finds
<1>2. new \in Bucket /\ new.key = n /\ new.key # NoName
  BY VariablesAssumption DEF Bucket
<1>3. /\ c \in Nat /\ t.buckets \in [0 .. c - 1 -> Bucket] /\ t.count \in Nat
      /\ DOMAIN t.buckets = 0 .. c - 1
  BY DEF Sound
<1>4. /\ u.buckets = [t.buckets EXCEPT ![s] = new]
      /\ u = [buckets |-> u.buckets, count |-> u.count]
      /\ u.count \in Nat
  BY <1>3 DEF Put
<1> HIDE DEF new
<1>5. /\ u.buckets \in [0 .. c - 1 -> Bucket] /\ DOMAIN u.buckets = 0 .. c - 1
      /\ u.buckets[s] = new
      /\ \A i \in 0 .. c - 1 : i # s => u.buckets[i] = t.buckets[i]
  BY <1>1, <1>2, <1>3, <1>4
<1>6. Occupied(u) = Occupied(t) \cup {s}
  BY <1>1, <1>2, <1>3, <1>5 DEF Occupied
<1>7. \A i \in Occupied(t) : i \in 0 .. c - 1 /\ (i # s => u.buckets[i] = t.buckets[i])
  BY <1>3, <1>5 DEF Occupied
<1>8. ASSUME NEW i \in Occupied(u), NEW j \in Occupied(u), u.buckets[i].key = u.buckets[j].key
      PROVE  i = j
  <2>1. ASSUME NEW k \in Occupied(t), k # s
        PROVE  t.buckets[k].key # n
    BY <1>1, <2>1 DEF Sound, KeysOf
  <2> QED BY <1>2, <1>5, <1>6, <1>7, <1>8, <2>1 DEF Sound
<1>9. ASSUME NEW i \in Occupied(u)
      PROVE  Reaches(u, c, u.buckets[i].key, i)
  <2>1. \A m : Reaches(t, c, m, i) => Reaches(u, c, m, i)
    BY <1>6 DEF Reaches
  <2>2. CASE i = s
    BY <1>1, <1>2, <1>5, <2>1, <2>2
  <2>3. CASE i # s
    BY <1>6, <1>7, <2>1, <2>3 DEF Sound
  <2> QED BY <2>2, <2>3
<1>10. u \in [buckets : [0 .. c - 1 -> Bucket], count : Nat]
  BY <1>4, <1>5
<1>11. Sound(u, c)
  BY <1>3, <1>8, <1>9, <1>10 DEF Sound
<1> QED BY <1>1, <1>5, <1>6, <1>7, <1>11 DEF new

LEMMA PutSound ==
  ASSUME NEW t, NEW c, Sound(t, c), c # 0, NEW n \in Names, NEW v \in Values,
         FindSlot(t, n) # NotFound
  PROVE  /\ Sound(Put(t, n, v), c)
         /\ Occupied(Put(t, n, v)) = Occupied(t) \cup {FindSlot(t, n)}
<1>1. PICK s, u : s = FindSlot(t, n) /\ u = Put(t, n, v)
  OBVIOUS
<1>2. /\ Sound(u, c)
      /\ s \in 0 .. c - 1 /\ u.buckets[s] = [key |-> n, value |-> v]
      /\ Occupied(u) = Occupied(t) \cup {s}
      /\ \A i \in Occupied(t) : i # s => u.buckets[i] = t.buckets[i]
  BY <1>1, PutKeeps
<1> QED BY <1>1, <1>2

\* ... and the map it holds binds the name to the value.
LEMMA PutBinds ==
  ASSUME NEW t, NEW c, Sound(t, c), c # 0, NEW n \in Names, NEW v \in Values,
         FindSlot(t, n) # NotFound
  PROVE  /\ KeysOf(Put(t, n, v)) = KeysOf(t) \cup {n}
         /\ Contents(Put(t, n, v)) = Scope!Bound(Contents(t), n, v)
<1>1. PICK s, u : s = FindSlot(t, n) /\ u = Put(t, n, v)
  OBVIOUS
<1>2. /\ Sound(u, c)
      /\ s \in 0 .. c - 1 /\ u.buckets[s] = [key |-> n, value |-> v]
      /\ Occupied(u) = Occupied(t) \cup {s}
      /\ \A i \in Occupied(t) : i # s => u.buckets[i] = t.buckets[i]
      /\ s \in Occupied(t) => t.buckets[s].key = n
  BY <1>1, PutKeeps
<1>a. s \notin Occupied(t) => n \notin KeysOf(t)
  BY <1>1, PutKeeps
<1>3. /\ DOMAIN Contents(t) = KeysOf(t) /\ Contents(t) \in [KeysOf(t) -> Values]
      /\ \A i \in Occupied(t) : Contents(t)[t.buckets[i].key] = t.buckets[i].value
  BY ContentsAre
<1>4. /\ DOMAIN Contents(u) = KeysOf(u) /\ Contents(u) \in [KeysOf(u) -> Values]
      /\ \A i \in Occupied(u) : Contents(u)[u.buckets[i].key] = u.buckets[i].value
  BY <1>2, ContentsAre
<1>5. KeysOf(u) = KeysOf(t) \cup {n}
  <2>1. \A i \in Occupied(u) : u.buckets[i].key = IF i = s THEN n ELSE t.buckets[i].key
    BY <1>2
  <2>2. s \in Occupied(u) /\ \A i \in Occupied(t) : i \in Occupied(u)
    BY <1>2
  <2> QED BY <1>2, <2>1, <2>2 DEF KeysOf
<1>6. Contents(u)[n] = v
  BY <1>2, <1>4
<1>7. ASSUME NEW m \in KeysOf(t), m # n
      PROVE  Contents(u)[m] = Contents(t)[m]
  <2>1. PICK i \in Occupied(t) : t.buckets[i].key = m
    BY DEF KeysOf
  <2>2. i # s
    BY <1>2, <1>7, <2>1
  <2>3. i \in Occupied(u) /\ u.buckets[i] = t.buckets[i]
    BY <1>2, <2>1, <2>2
  <2> QED BY <1>3, <1>4, <2>1, <2>3
<1>8. Contents(u) = [m \in KeysOf(t) \cup {n} |-> IF m = n THEN v ELSE Contents(t)[m]]
  BY <1>4, <1>5, <1>6, <1>7
<1> QED BY <1>1, <1>3, <1>5, <1>8 DEF Scope!Bound

\* A table holds as many names as buckets are occupied.
LEMMA KeysCount ==
  ASSUME NEW t, NEW c, Sound(t, c)
  PROVE  IsFiniteSet(KeysOf(t)) /\ Cardinality(KeysOf(t)) = Cardinality(Occupied(t))
<1> DEFINE key == [i \in Occupied(t) |-> t.buckets[i].key]
<1>1. key \in Surjection(Occupied(t), KeysOf(t)) /\ key \in Injection(Occupied(t), KeysOf(t))
  <2>1. key \in [Occupied(t) -> KeysOf(t)]
    BY DEF KeysOf
  <2>2. \A i, j \in Occupied(t) : key[i] = key[j] => i = j
    BY DEF Sound
  <2>3. \A n \in KeysOf(t) : \E i \in Occupied(t) : key[i] = n
    BY DEF KeysOf
  <2> HIDE DEF key
  <2> QED BY <2>1, <2>2, <2>3 DEF Injection, Surjection, IsInjective
<1>2. IsFiniteSet(Occupied(t))
  BY SoundTypes
<1> HIDE DEF key
<1> QED BY <1>1, <1>2, FS_Surjection

-----------------------------------------------------------------------------
(* Growing *)

\* The table that grow starts from.
LEMMA FreshTable ==
  ASSUME NEW c \in Nat
  PROVE  Sound(Table(c), c) /\ Occupied(Table(c)) = {} /\ KeysOf(Table(c)) = {}
<1>1. Free \in Bucket /\ Free.key = NoName
  BY DEF Free, Bucket
<1>2. /\ Table(c) \in [buckets : [0 .. c - 1 -> Bucket], count : Nat]
      /\ DOMAIN Table(c).buckets = 0 .. c - 1
      /\ \A i \in 0 .. c - 1 : Table(c).buckets[i] = Free
  BY <1>1 DEF Table
<1>3. Occupied(Table(c)) = {}
  BY <1>1, <1>2 DEF Occupied
<1> QED BY <1>2, <1>3 DEF Sound, KeysOf

Carry(t, u, i) ==
  IF t.buckets[i].key = NoName THEN u ELSE Put(u, t.buckets[i].key, t.buckets[i].value)

IsFill(t, fresh, m, g) == g[0] = fresh /\ \A i \in 1 .. m : g[i] = Carry(t, g[i - 1], i - 1)

LEMMA FillExists ==
  ASSUME NEW t, NEW fresh, NEW m \in Nat
  PROVE  \E g : IsFill(t, fresh, m, g)
<1> DEFINE Fits == {k \in Nat : \E g : IsFill(t, fresh, k, g)}
<1>1. 0 \in Fits
  <2>1. IsFill(t, fresh, 0, [k \in 0 .. 0 |-> fresh])
    BY DEF IsFill
  <2> QED BY <2>1
<1>2. ASSUME NEW k \in Nat, k \in Fits
      PROVE  k + 1 \in Fits
  <2>1. PICK g : IsFill(t, fresh, k, g)
    BY <1>2
  <2> DEFINE h == [i \in 0 .. k + 1 |-> IF i <= k THEN g[i] ELSE Carry(t, g[k], k)]
  <2>2. h[0] = fresh
    BY <2>1 DEF IsFill
  <2>3. ASSUME NEW i \in 1 .. k + 1
        PROVE  h[i] = Carry(t, h[i - 1], i - 1)
    <3>1. i - 1 \in 0 .. k + 1 /\ h[i - 1] = g[i - 1]
      OBVIOUS
    <3>2. CASE i <= k
      BY <2>1, <3>1, <3>2 DEF IsFill
    <3>3. CASE i = k + 1
      <4>1. i - 1 = k /\ h[i] = Carry(t, g[k], k)
        BY <3>3
      <4> QED BY <3>1, <4>1
    <3> QED BY <3>2, <3>3
  <2> HIDE DEF h
  <2>4. IsFill(t, fresh, k + 1, h)
    BY <2>2, <2>3 DEF IsFill
  <2> QED BY <2>4
<1> HIDE DEF Fits
<1>3. Nat \subseteq Fits
  BY <1>1, <1>2, NatSet
<1> QED BY <1>3 DEF Fits

\* grow is a filling of the fresh table.
LEMMA GrowFills ==
  ASSUME NEW t, NEW c, Sound(t, c),
         NEW fresh, fresh = Table(IF c = 0 THEN FirstCapacity ELSE 2 * c)
  PROVE  \E g : IsFill(t, fresh, c, g) /\ Grow(t) = g[c]
<1> DEFINE Is(g) == g = [i \in 0 .. c |-> IF i = 0 THEN fresh ELSE Carry(t, g[i - 1], i - 1)]
<1>1. c \in Nat /\ Capacity(t) = c
  BY SoundTypes
<1>2. PICK g : IsFill(t, fresh, c, g)
  BY <1>1, FillExists
<1> DEFINE h == [i \in 0 .. c |-> g[i]]
<1>3. \E k : Is(k)
  <2>1. ASSUME NEW i \in 0 .. c
        PROVE  h[i] = IF i = 0 THEN fresh ELSE Carry(t, h[i - 1], i - 1)
    <3>1. CASE i = 0
      BY <1>1, <1>2, <3>1 DEF IsFill
    <3>2. CASE i # 0
      <4>1. i \in 1 .. c /\ i - 1 \in 0 .. c
        BY <1>1, <3>2
      <4>2. h[i] = g[i] /\ h[i - 1] = g[i - 1]
        BY <4>1
      <4> QED BY <1>2, <3>2, <4>1, <4>2 DEF IsFill
    <3> QED BY <3>1, <3>2
  <2>2. h = [i \in 0 .. c |-> h[i]]
    OBVIOUS
  <2> HIDE DEF h
  <2>3. Is(h)
    BY <2>1, <2>2
  <2> QED BY <2>3
<1> DEFINE filled == CHOOSE k : Is(k)
<1>4. Grow(t) = filled[c]
  BY <1>1 DEF Grow, Carry
<1>5. Is(filled)
  BY <1>3
<1> HIDE DEF filled
<1>6. IsFill(t, fresh, c, filled)
  <2>1. \A i \in 0 .. c : filled[i] = IF i = 0 THEN fresh ELSE Carry(t, filled[i - 1], i - 1)
    BY <1>5
  <2>2. 0 \in 0 .. c /\ \A i \in 1 .. c : i \in 0 .. c /\ i # 0
    BY <1>1
  <2> QED BY <2>1, <2>2 DEF IsFill
<1> QED BY <1>4, <1>6

\* The table that grow makes has more buckets and holds the same map.
LEMMA GrowKeeps ==
  ASSUME NEW t, NEW c, Sound(t, c),
         NEW d, d = IF c = 0 THEN FirstCapacity ELSE 2 * c
  PROVE  /\ d \in Nat \ {0} /\ Sound(Grow(t), d)
         /\ KeysOf(Grow(t)) = KeysOf(t)
         /\ Contents(Grow(t)) = Contents(t)
<1> DEFINE before(i) == {k \in Occupied(t) : k < i}
           Filled(u, i) ==
             /\ Sound(u, d)
             /\ Cardinality(Occupied(u)) <= i
             /\ KeysOf(u) = {t.buckets[k].key : k \in before(i)}
             /\ \A k \in before(i) : Contents(u)[t.buckets[k].key] = t.buckets[k].value
<1>1. /\ c \in Nat /\ d \in Nat \ {0} /\ c < d
      /\ Occupied(t) \subseteq 0 .. c - 1
      /\ \A i \in Occupied(t) : t.buckets[i].key \in Names /\ t.buckets[i].value \in Values
  BY SoundTypes, VariablesAssumption
<1>2. PICK g : IsFill(t, Table(d), c, g) /\ Grow(t) = g[c]
  BY GrowFills
<1>3. Filled(g[0], 0)
  <2>1. g[0] = Table(d)
    BY <1>2 DEF IsFill
  <2>2. Sound(g[0], d) /\ Occupied(g[0]) = {} /\ KeysOf(g[0]) = {}
    BY <1>1, <2>1, FreshTable
  <2>3. before(0) = {}
    BY <1>1
  <2>4. Cardinality(Occupied(g[0])) = 0
    BY <2>2, FS_EmptySet
  <2> HIDE DEF before
  <2> QED BY <2>2, <2>3, <2>4
<1>4. ASSUME NEW i \in 0 .. c - 1, Filled(g[i], i)
      PROVE  Filled(g[i + 1], i + 1)
  <2>1. g[i + 1] = Carry(t, g[i], i)
    <3>1. i + 1 \in 1 .. c /\ (i + 1) - 1 = i
      BY <1>1
    <3> QED BY <1>2, <3>1 DEF IsFill
  <2>2. CASE i \notin Occupied(t)
    <3>1. g[i + 1] = g[i]
      <4>1. DOMAIN t.buckets = 0 .. c - 1
        BY SoundTypes
      <4> QED BY <2>1, <2>2, <4>1 DEF Carry, Occupied
    <3>2. before(i + 1) = before(i)
      BY <1>1, <2>2
    <3>3. Cardinality(Occupied(g[i])) \in Nat
      BY <1>4, SoundTypes
    <3> HIDE DEF before
    <3> QED BY <1>4, <3>1, <3>2, <3>3
  <2>3. CASE i \in Occupied(t)
    <3> DEFINE n == t.buckets[i].key
               v == t.buckets[i].value
               u == g[i]
               s == FindSlot(u, n)
    <3>1. n \in Names /\ v \in Values /\ g[i + 1] = Put(u, n, v)
      BY <1>1, <2>1, <2>3 DEF Carry, Occupied
    <3>2. before(i + 1) = before(i) \cup {i}
      BY <1>1, <2>3
    <3>3. Sound(u, d) /\ Cardinality(Occupied(u)) <= i /\ Cardinality(Occupied(u)) \in Nat
          /\ IsFiniteSet(Occupied(u))
      BY <1>4, SoundTypes
    <3>a. /\ KeysOf(u) = {t.buckets[k].key : k \in before(i)}
          /\ \A k \in before(i) : Contents(u)[t.buckets[k].key] = t.buckets[k].value
      BY <1>4
    <3>b. \A k \in before(i) : k \in Occupied(t) /\ k # i /\ t.buckets[k].key # n
      BY <1>1, <2>3 DEF Sound
    <3> HIDE DEF before, n, v, u
    <3>4. s # NotFound
      <4>1. Occupied(u) # 0 .. d - 1
        <5>1. Cardinality(0 .. d - 1) = d
          <6>1. 0 \in Int /\ d - 1 \in Int /\ ~(0 > d - 1) /\ (d - 1) - 0 + 1 = d
            BY <1>1
          <6> QED BY <6>1, FS_Interval
        <5>2. Cardinality(Occupied(u)) # d
          BY <1>1, <3>3
        <5> QED BY <5>1, <5>2
      <4>2. \A j \in 0 .. d - 1 : j # NotFound
        BY DEF NotFound
      <4>3. Occupied(u) \subseteq 0 .. d - 1
        BY <3>3, SoundTypes
      <4>4. d # 0
        BY <1>1
      <4> QED BY <3>1, <3>3, <4>1, <4>2, <4>3, <4>4, Finds
    <3>5. Sound(Put(u, n, v), d) /\ Occupied(Put(u, n, v)) = Occupied(u) \cup {s}
      <4>1. d # 0
        BY <1>1
      <4> QED BY <3>1, <3>3, <3>4, <4>1, PutSound
    <3>6. /\ KeysOf(Put(u, n, v)) = KeysOf(u) \cup {n}
          /\ Contents(Put(u, n, v)) = Scope!Bound(Contents(u), n, v)
      <4>1. d # 0
        BY <1>1
      <4> QED BY <3>1, <3>3, <3>4, <4>1, PutBinds
    <3>7. Cardinality(Occupied(Put(u, n, v))) <= i + 1
      <4>1. \/ Occupied(Put(u, n, v)) = Occupied(u)
            \/ Cardinality(Occupied(Put(u, n, v))) = Cardinality(Occupied(u)) + 1
        BY <3>3, <3>5, FS_AddElement
      <4> QED BY <1>1, <3>3, <4>1
    <3>8. KeysOf(Put(u, n, v)) = {t.buckets[k].key : k \in before(i + 1)}
      BY <3>2, <3>6, <3>a DEF n
    <3>9. ASSUME NEW k \in before(i + 1)
          PROVE  Contents(Put(u, n, v))[t.buckets[k].key] = t.buckets[k].value
      <4>1. DOMAIN Contents(u) = KeysOf(u)
        BY <3>3, ContentsAre
      <4>2. \A m \in KeysOf(u) \cup {n} :
              Contents(Put(u, n, v))[m] = IF m = n THEN v ELSE Contents(u)[m]
        BY <3>6, <4>1 DEF Scope!Bound
      <4>3. CASE k = i
        BY <4>2, <4>3 DEF n, v
      <4>4. CASE k \in before(i)
        <5>1. t.buckets[k].key \in KeysOf(u) /\ t.buckets[k].key # n
          BY <3>a, <3>b, <4>4
        <5> QED BY <3>a, <4>2, <4>4, <5>1
      <4> QED BY <3>2, <4>3, <4>4
    <3>10. Filled(Put(u, n, v), i + 1)
      BY <3>5, <3>7, <3>8, <3>9
    <3> HIDE DEF Filled
    <3> QED BY <3>1, <3>10
  <2> QED BY <2>2, <2>3
<1> DEFINE Fits == {i \in Nat : i <= c => Filled(g[i], i)}
<1>5. Nat \subseteq Fits
  <2> HIDE DEF Filled
  <2>1. 0 \in Fits
    BY <1>3
  <2>2. ASSUME NEW i \in Nat, i \in Fits
        PROVE  i + 1 \in Fits
    <3> SUFFICES ASSUME i + 1 <= c PROVE Filled(g[i + 1], i + 1)
      OBVIOUS
    <3>1. i \in 0 .. c - 1 /\ i <= c
      BY <1>1
    <3>2. Filled(g[i], i)
      BY <2>2, <3>1
    <3> QED BY <1>4, <3>1, <3>2
  <2> HIDE DEF Fits
  <2> QED BY <2>1, <2>2, NatSet
<1>6. Filled(Grow(t), c)
  <2> HIDE DEF Filled
  <2> QED BY <1>1, <1>2, <1>5
<1>7. before(c) = Occupied(t)
  BY <1>1
<1> HIDE DEF before
<1>8. KeysOf(Grow(t)) = KeysOf(t)
  BY <1>6, <1>7 DEF KeysOf
<1>9. Contents(Grow(t)) = Contents(t)
  <2>1. /\ Contents(Grow(t)) \in [KeysOf(t) -> Values]
        /\ Contents(t) \in [KeysOf(t) -> Values]
    BY <1>6, <1>8, ContentsAre
  <2>2. \A m \in KeysOf(t) : Contents(Grow(t))[m] = Contents(t)[m]
    BY <1>6, <1>7, ContentsAre DEF KeysOf
  <2> QED BY <2>1, <2>2
<1> QED BY <1>1, <1>6, <1>8, <1>9

-----------------------------------------------------------------------------
(* set and has over the tables that set makes *)

Good(t) == \E c \in Nat : Sound(t, c)

\* has finds the names that a table holds; others it may find too.
LEMMA HasHeld ==
  ASSUME NEW t, Good(t), NEW n \in DOMAIN Contents(t)
  PROVE  n \in Names /\ Has(t, n)
<1>1. PICK c \in Nat : Sound(t, c)
  BY DEF Good
<1>2. /\ Capacity(t) = c /\ DOMAIN Contents(t) = KeysOf(t) /\ KeysOf(t) \subseteq Names
      /\ Occupied(t) \subseteq 0 .. c - 1
  BY <1>1, SoundTypes, ContentsAre
<1>3. n \in Names /\ c # 0
  BY <1>2 DEF KeysOf
<1>4. PICK i \in Occupied(t) : FindSlot(t, n) = i
  BY <1>1, <1>2, <1>3, Finds
<1>5. FindSlot(t, n) # NotFound
  BY <1>2, <1>4 DEF NotFound
<1> QED BY <1>2, <1>3, <1>5 DEF Has

\* get yields the value bound to the name, Undef if it finds a free bucket.
LEMMA GetLooksUp ==
  ASSUME NEW t, Good(t), NEW n \in Names, Has(t, n)
  PROVE  Get(t, n) = IF n \in DOMAIN Contents(t) THEN Contents(t)[n] ELSE Undef
<1>1. PICK c \in Nat : Sound(t, c)
  BY DEF Good
<1>2. /\ c # 0 /\ FindSlot(t, n) # NotFound /\ Get(t, n) = t.buckets[FindSlot(t, n)].value
  BY <1>1, SoundTypes DEF Has, Get
<1>3. DOMAIN Contents(t) = KeysOf(t)
  BY <1>1, ContentsAre
<1>4. CASE \E i \in Occupied(t) : t.buckets[i].key = n /\ FindSlot(t, n) = i
  BY <1>1, <1>2, <1>3, <1>4, ContentsAre DEF KeysOf
<1>5. CASE n \notin KeysOf(t) /\ FindSlot(t, n) \in 0 .. c - 1 /\ FindSlot(t, n) \notin Occupied(t)
  <2>1. t.buckets[FindSlot(t, n)] = Free
    BY <1>1, <1>5, SoundTypes
  <2> QED BY <1>2, <1>3, <1>5, <2>1 DEF Free
<1> QED BY <1>1, <1>2, <1>4, <1>5, Finds

\* set binds the name, and keeps tables good.
LEMMA SetBinds ==
  ASSUME NEW t, Good(t), NEW n \in Names, NEW v \in Values
  PROVE  /\ Good(SetIn(t, n, v))
         /\ Contents(SetIn(t, n, v)) = Scope!Bound(Contents(t), n, v)
<1>1. PICK c \in Nat : Sound(t, c)
  BY DEF Good
<1>2. Capacity(t) = c
  BY <1>1, SoundTypes
<1>3. \* What Put leaves, in a table u of d buckets that holds the names of t.
      ASSUME NEW u, NEW d, Sound(u, d), d # 0, KeysOf(u) = KeysOf(t), Contents(u) = Contents(t),
             FindSlot(u, n) # NotFound
      PROVE  Good(Put(u, n, v)) /\ Contents(Put(u, n, v)) = Scope!Bound(Contents(t), n, v)
  <2>1. /\ Sound(Put(u, n, v), d)
        /\ KeysOf(Put(u, n, v)) = KeysOf(u) \cup {n}
        /\ Contents(Put(u, n, v)) = Scope!Bound(Contents(u), n, v)
    BY <1>3, PutSound, PutBinds
  <2>2. d \in Nat
    BY <1>3, SoundTypes
  <2> QED BY <2>1, <2>2, <1>3 DEF Good
<1>4. CASE c = 0
  <2> DEFINE u == Grow(t)
  <2>1. /\ FirstCapacity \in Nat \ {0} /\ Sound(u, FirstCapacity)
        /\ KeysOf(u) = KeysOf(t) /\ Contents(u) = Contents(t)
    BY <1>1, <1>4, GrowKeeps
  <2>2. KeysOf(t) = {}
    <3>1. Occupied(t) \subseteq 0 .. 0 - 1
      BY <1>1, <1>4, SoundTypes
    <3> QED BY <3>1 DEF KeysOf
  <2>3. FindSlot(u, n) # NotFound
    <3>1. Occupied(u) = {} /\ 0 \in 0 .. FirstCapacity - 1
      <4> HIDE DEF u
      <4>1. \A i \in Occupied(u) : u.buckets[i].key \in KeysOf(u)
        BY DEF KeysOf
      <4> QED BY <2>1, <2>2, <4>1
    <3>2. NotFound \notin 0 .. FirstCapacity - 1
      BY DEF NotFound
    <3> QED BY <2>1, <3>1, <3>2, Finds
  <2>4. SetIn(t, n, v) = Put(u, n, v)
    BY <1>2, <1>4, <2>3 DEF SetIn
  <2> HIDE DEF u
  <2> QED BY <1>3, <2>1, <2>3, <2>4
<1>5. CASE c # 0 /\ FindSlot(t, n) # NotFound
  <2>1. SetIn(t, n, v) = Put(t, n, v)
    BY <1>2, <1>5 DEF SetIn
  <2> QED BY <1>1, <1>3, <1>5, <2>1
<1>6. CASE c # 0 /\ FindSlot(t, n) = NotFound
  <2> DEFINE u == Grow(t)
             d == 2 * c
  <2>2. /\ d # 0 /\ Sound(u, d) /\ KeysOf(u) = KeysOf(t) /\ Contents(u) = Contents(t)
    BY <1>1, <1>6, GrowKeeps
  <2>3. n \notin KeysOf(t) /\ Occupied(t) = 0 .. c - 1
    <3>1. NotFound \notin 0 .. c - 1 /\ Occupied(t) \subseteq 0 .. c - 1
      BY <1>1, SoundTypes DEF NotFound
    <3> QED BY <1>1, <1>6, <3>1, Finds
  <2>4. Cardinality(Occupied(t)) = c
    <3>1. 0 \in Int /\ c - 1 \in Int /\ ~(0 > c - 1) /\ (c - 1) - 0 + 1 = c
      BY <1>6
    <3> QED BY <2>3, <3>1, FS_Interval
  <2> HIDE DEF u
  <2>5. Cardinality(Occupied(u)) = c
    BY <1>1, <2>2, <2>4, KeysCount
  <2>7. FindSlot(u, n) # NotFound
    <3>1. Occupied(u) # 0 .. d - 1
      <4>1. 0 \in Int /\ d - 1 \in Int /\ ~(0 > d - 1) /\ (d - 1) - 0 + 1 = d /\ d # c
        BY <1>6
      <4> QED BY <2>5, <4>1, FS_Interval
    <3>2. NotFound \notin 0 .. d - 1 /\ Occupied(u) \subseteq 0 .. d - 1
      BY <2>2, SoundTypes DEF NotFound
    <3> HIDE DEF d
    <3> QED BY <2>2, <3>1, <3>2, Finds
  <2>8. SetIn(t, n, v) = Put(u, n, v)
    BY <1>2, <1>6 DEF SetIn, u
  <2> HIDE DEF d
  <2> QED BY <1>3, <2>2, <2>7, <2>8
<1> QED BY <1>4, <1>5, <1>6

-----------------------------------------------------------------------------
(* The chain of tables *)

GoodTables == {t \in [buckets : UNION {[0 .. c - 1 -> Bucket] : c \in Nat}, count : Nat] : Good(t)}
Maps == {Contents(t) : t \in GoodTables}

\* The inductive invariant.
ChainOK == tables \in Seq(GoodTables) /\ Len(tables) >= 1

LEMMA GoodIsTable ==
  ASSUME NEW t, Good(t)
  PROVE  /\ t \in GoodTables
         /\ \E D \in SUBSET Names : Contents(t) \in [D -> Values]
<1>1. PICK c \in Nat : Sound(t, c)
  BY DEF Good
<1>2. t \in [buckets : [0 .. c - 1 -> Bucket], count : Nat]
  BY <1>1 DEF Sound
<1>3. t \in [buckets : UNION {[0 .. k - 1 -> Bucket] : k \in Nat}, count : Nat]
  BY <1>2
<1>4. KeysOf(t) \in SUBSET Names /\ Contents(t) \in [KeysOf(t) -> Values]
  BY <1>1, SoundTypes, ContentsAre
<1> QED BY <1>3, <1>4 DEF GoodTables

\* The table of a frame that has no variables yet.
LEMMA EmptyTable == Good(NoBuckets) /\ Contents(NoBuckets) = Scope!Empty
<1>1. /\ Sound(NoBuckets, 0) /\ KeysOf(NoBuckets) = {}
  BY FreshTable DEF NoBuckets
<1>2. Contents(NoBuckets) \in [{} -> Values]
  BY <1>1, ContentsAre
<1>3. Contents(NoBuckets) = Scope!Empty
  BY <1>2 DEF Scope!Empty
<1> QED BY <1>1, <1>3 DEF Good

IsBinding(params, args, m, g) ==
  g[0] = NoBuckets /\ \A i \in 1 .. m : g[i] = SetIn(g[i - 1], params[i], args[i])

LEMMA BindingExists ==
  ASSUME NEW params, NEW args, NEW m \in Nat
  PROVE  \E g : IsBinding(params, args, m, g)
<1> DEFINE Fits == {k \in Nat : \E g : IsBinding(params, args, k, g)}
<1>1. 0 \in Fits
  <2>1. IsBinding(params, args, 0, [k \in 0 .. 0 |-> NoBuckets])
    BY DEF IsBinding
  <2> QED BY <2>1
<1>2. ASSUME NEW k \in Nat, k \in Fits
      PROVE  k + 1 \in Fits
  <2>1. PICK g : IsBinding(params, args, k, g)
    BY <1>2
  <2> DEFINE last == SetIn(g[k], params[k + 1], args[k + 1])
             h == [i \in 0 .. k + 1 |-> IF i <= k THEN g[i] ELSE last]
  <2>2. h[0] = NoBuckets
    BY <2>1 DEF IsBinding
  <2>3. ASSUME NEW i \in 1 .. k + 1
        PROVE  h[i] = SetIn(h[i - 1], params[i], args[i])
    <3>1. i - 1 \in 0 .. k + 1 /\ h[i - 1] = g[i - 1]
      OBVIOUS
    <3>2. CASE i <= k
      BY <2>1, <3>1, <3>2 DEF IsBinding
    <3>3. CASE i = k + 1
      <4>1. i - 1 = k /\ h[i] = last
        BY <3>3
      <4> QED BY <3>1, <3>3, <4>1
    <3> QED BY <3>2, <3>3
  <2> HIDE DEF h
  <2>4. IsBinding(params, args, k + 1, h)
    BY <2>2, <2>3 DEF IsBinding
  <2> QED BY <2>4
<1> HIDE DEF Fits
<1>3. Nat \subseteq Fits
  BY <1>1, <1>2, NatSet
<1> QED BY <1>3 DEF Fits

\* A call leaves the caller's tables and adds a good one.
LEMMA CallAdds ==
  ASSUME NEW params \in Parameters, NEW args \in [DOMAIN params -> Values], Call(params, args)
  PROVE  \E t : Good(t) /\ tables' = Append(tables, t) /\ UNCHANGED found
<1>1. PICK m \in 0 .. 2 : params \in [1 .. m -> Names]
  BY DEF Parameters
<1>2. m \in Nat /\ DOMAIN params = 1 .. m /\ Len(params) = m
  BY <1>1
<1> DEFINE Is(g) == g = [i \in 0 .. m |-> IF i = 0 THEN NoBuckets
                                          ELSE SetIn(g[i - 1], params[i], args[i])]
           bound == CHOOSE g : Is(g)
<1>3. Len(tables) < MaxFrames /\ tables' = Append(tables, bound[m]) /\ UNCHANGED found
  BY <1>2 DEF Call
<1>4. Is(bound)
  <2>1. PICK g : IsBinding(params, args, m, g)
    BY <1>2, BindingExists
  <2> DEFINE h == [i \in 0 .. m |-> g[i]]
  <2>2. ASSUME NEW i \in 0 .. m
        PROVE  h[i] = IF i = 0 THEN NoBuckets ELSE SetIn(h[i - 1], params[i], args[i])
    <3>1. CASE i = 0
      BY <1>2, <2>1, <3>1 DEF IsBinding
    <3>2. CASE i # 0
      <4>1. i \in 1 .. m /\ i - 1 \in 0 .. m
        BY <1>2, <3>2
      <4>2. h[i] = g[i] /\ h[i - 1] = g[i - 1]
        BY <4>1
      <4> QED BY <2>1, <3>2, <4>1, <4>2 DEF IsBinding
    <3> QED BY <3>1, <3>2
  <2>3. h = [i \in 0 .. m |-> h[i]]
    OBVIOUS
  <2> HIDE DEF h
  <2>4. Is(h)
    BY <2>2, <2>3
  <2> QED BY <2>4
<1> HIDE DEF bound
<1>5. \A i \in 0 .. m : bound[i] = IF i = 0 THEN NoBuckets
                                   ELSE SetIn(bound[i - 1], params[i], args[i])
  BY <1>4
<1> DEFINE Fits == {i \in Nat : i <= m => Good(bound[i])}
<1>6. Nat \subseteq Fits
  <2>1. 0 \in Fits
    <3>1. 0 \in 0 .. m
      BY <1>2
    <3> QED BY <1>5, <3>1, EmptyTable
  <2>2. ASSUME NEW i \in Nat, i \in Fits
        PROVE  i + 1 \in Fits
    <3> SUFFICES ASSUME i + 1 <= m PROVE Good(bound[i + 1])
      OBVIOUS
    <3>1. Good(bound[i]) /\ i + 1 \in 1 .. m /\ i + 1 \in 0 .. m /\ i + 1 # 0 /\ (i + 1) - 1 = i
      BY <1>2, <2>2
    <3>2. bound[i + 1] = SetIn(bound[i], params[i + 1], args[i + 1])
      BY <1>5, <3>1
    <3>3. params[i + 1] \in Names /\ args[i + 1] \in Values
      BY <1>1, <1>2, <3>1
    <3> QED BY <3>1, <3>2, <3>3, SetBinds
  <2> HIDE DEF Fits
  <2> QED BY <2>1, <2>2, NatSet
<1>7. Good(bound[m])
  BY <1>2, <1>6
<1> QED BY <1>3, <1>7

\* The frame that answers for a name is one of the frames.
LEMMA OwnerIsFrame ==
  ASSUME tables \in Seq(GoodTables), NEW n, Owner(n) # 0
  PROVE  /\ Owner(n) \in DOMAIN tables /\ Has(tables[Owner(n)], n)
         /\ \A j \in DOMAIN tables : Has(tables[j], n) => j <= Owner(n)
<1> DEFINE having == {i \in DOMAIN tables : Has(tables[i], n)}
           last == CHOOSE i \in having : \A j \in having : j <= i
<1>1. Len(tables) \in Nat /\ DOMAIN tables = 1 .. Len(tables)
  OBVIOUS
<1>2. having # {} /\ Owner(n) = last
  BY DEF Owner
<1>3. having \subseteq 1 .. Len(tables)
  BY <1>1
<1>4. \A i \in DOMAIN tables : i \in having <=> Has(tables[i], n)
  OBVIOUS
<1> HIDE DEF having
<1>5. last \in having /\ \A j \in having : j <= last
  BY <1>1, <1>2, <1>3, LastOfSome
<1> QED BY <1>1, <1>2, <1>3, <1>4, <1>5

\* A step keeps the tables good.
LEMMA ChainOKStep ==
  ASSUME ChainOK, [VarNext]_varVars
  PROVE  ChainOK'
<1>0. tables \in Seq(GoodTables) /\ Len(tables) \in Nat /\ Len(tables) >= 1
      /\ DOMAIN tables = 1 .. Len(tables)
  BY DEF ChainOK
<1>a. \A i \in DOMAIN tables : tables[i] \in GoodTables /\ Good(tables[i])
  <2> TAKE i \in DOMAIN tables
  <2>1. tables[i] \in GoodTables
    BY <1>0, ElementOfSeq
  <2> QED BY <2>1 DEF GoodTables
<1>1. ASSUME NEW n \in Names, NEW v \in Values, set_var_(n, v)
      PROVE  ChainOK'
  <2>1. PICK i \in DOMAIN tables : tables' = [tables EXCEPT ![i] = SetIn(tables[i], n, v)]
    <3> DEFINE i == IF Owner(n) = 0 THEN Len(tables) ELSE Owner(n)
    <3>1. i \in DOMAIN tables
      BY <1>0, OwnerIsFrame
    <3>2. tables' = [tables EXCEPT ![i] = SetIn(tables[i], n, v)]
      BY <1>1 DEF set_var_
    <3> QED BY <3>1, <3>2
  <2>2. SetIn(tables[i], n, v) \in GoodTables
    BY <1>a, SetBinds, GoodIsTable
  <2> QED BY <1>0, <2>1, <2>2, ExceptSeq DEF ChainOK
<1>2. ASSUME NEW n \in Names, lookup_var_(n)
      PROVE  ChainOK'
  BY <1>2 DEF lookup_var_, ChainOK
<1>3. ASSUME NEW params \in Parameters, NEW args \in [DOMAIN params -> Values], Call(params, args)
      PROVE  ChainOK'
  <2>1. PICK t : Good(t) /\ tables' = Append(tables, t)
    BY <1>3, CallAdds
  <2>2. t \in GoodTables
    BY <2>1, GoodIsTable
  <2> QED BY <1>0, <2>1, <2>2, AppendProperties DEF ChainOK
<1>4. CASE Return
  <2>1. tables' = SubSeq(tables, 1, Len(tables) - 1) /\ Len(tables) > 1
    BY <1>4 DEF Return
  <2>2. tables' \in Seq(GoodTables) /\ Len(tables') = Len(tables) - 1
    BY <1>0, <2>1, SubSeqProperties
  <2> QED BY <1>0, <2>1, <2>2 DEF ChainOK
<1>5. CASE UNCHANGED varVars
  BY <1>5 DEF varVars, ChainOK
<1> QED BY <1>1, <1>2, <1>3, <1>4, <1>5 DEF VarNext

-----------------------------------------------------------------------------
(* Every step of the tables is a step of the maps. *)

LEMMA MapsOfTables ==
  ASSUME NEW T, T \in Seq(GoodTables), NEW C, C = [i \in DOMAIN T |-> Contents(T[i])]
  PROVE  /\ C \in Seq(Maps) /\ Len(C) = Len(T)
         /\ \A k \in 1 .. Len(T) : C[k] = Contents(T[k])
<1>1. Len(T) \in Nat /\ DOMAIN T = 1 .. Len(T)
  OBVIOUS
<1>2. \A i \in 1 .. Len(T) : Contents(T[i]) \in Maps
  BY <1>1, ElementOfSeq DEF Maps
<1>3. C = [i \in 1 .. Len(T) |-> Contents(T[i])]
  BY <1>1
<1> QED BY <1>1, <1>2, <1>3

LEMMA ChainMaps ==
  ASSUME ChainOK
  PROVE  /\ Len(tables) \in Nat /\ Len(tables) >= 1 /\ DOMAIN tables = 1 .. Len(tables)
         /\ \A i \in DOMAIN tables : Good(tables[i]) /\ Chain[i] = Contents(tables[i])
         /\ DOMAIN Chain = 1 .. Len(tables) /\ Chain \in Seq(Maps) /\ Len(Chain) = Len(tables)
<1>1. /\ tables \in Seq(GoodTables)
      /\ Len(tables) \in Nat /\ Len(tables) >= 1 /\ DOMAIN tables = 1 .. Len(tables)
  BY DEF ChainOK
<1>2. \A i \in DOMAIN tables : tables[i] \in GoodTables /\ Good(tables[i])
  <2> TAKE i \in DOMAIN tables
  <2>1. tables[i] \in GoodTables
    BY <1>1, ElementOfSeq
  <2> QED BY <2>1 DEF GoodTables
<1>3. \A i \in DOMAIN tables : Contents(tables[i]) \in Maps
  BY <1>2 DEF Maps
<1>4. Chain = [i \in 1 .. Len(tables) |-> Contents(tables[i])]
  BY <1>1 DEF Chain
<1>5. Chain \in Seq(Maps) /\ Len(Chain) = Len(tables)
  BY <1>1, <1>3, <1>4
<1> QED BY <1>1, <1>2, <1>4, <1>5

\* The frame whose table has the name is the scope that has it, unless has is wrong.
LEMMA OwnerIsOwner ==
  ASSUME ChainOK, NEW n \in Names, ~ Misled(n)
  PROVE  Owner(n) = Scope!Owner(n)
<1> DEFINE holding == {i \in DOMAIN Chain : n \in DOMAIN Chain[i]}
           last == CHOOSE i \in holding : \A j \in holding : j <= i
<1>1. /\ DOMAIN Chain = DOMAIN tables /\ DOMAIN tables = 1 .. Len(tables) /\ Len(tables) \in Nat
      /\ \A i \in DOMAIN tables : Good(tables[i]) /\ Chain[i] = Contents(tables[i])
  BY ChainMaps
<1>2. Scope!Owner(n) = IF holding = {} THEN 0 ELSE last
  BY DEF Scope!Owner
<1>3. \A i \in holding : i \in DOMAIN tables /\ Has(tables[i], n)
  BY <1>1, HasHeld
<1>4. \A i \in DOMAIN tables : n \in DOMAIN Contents(tables[i]) => i \in holding
  BY <1>1
<1>5. holding \subseteq 1 .. Len(tables)
  BY <1>1
<1> HIDE DEF holding
<1>6. CASE Owner(n) = 0
  <2>1. \A i \in DOMAIN tables : ~ Has(tables[i], n)
    <3> SUFFICES ASSUME NEW i \in DOMAIN tables, Has(tables[i], n) PROVE FALSE
      OBVIOUS
    <3> DEFINE having == {k \in DOMAIN tables : Has(tables[k], n)}
               inner == CHOOSE k \in having : \A j \in having : j <= k
    <3>1. having # {} /\ having \subseteq 1 .. Len(tables)
      BY <1>1
    <3>2. Owner(n) = inner
      BY <3>1 DEF Owner
    <3> HIDE DEF having
    <3>3. inner \in having
      BY <1>1, <3>1, LastOfSome
    <3>4. inner \in 1 .. Len(tables) /\ inner = 0
      BY <1>6, <3>1, <3>2, <3>3
    <3> HIDE DEF inner
    <3> QED BY <1>1, <3>4
  <2>2. holding = {}
    BY <1>3, <2>1
  <2> QED BY <1>2, <1>6, <2>2
<1>7. CASE Owner(n) # 0
  <2>1. /\ Owner(n) \in DOMAIN tables
        /\ \A j \in DOMAIN tables : Has(tables[j], n) => j <= Owner(n)
    BY <1>7, OwnerIsFrame DEF ChainOK
  <2>2. Owner(n) \in holding
    BY <1>4, <1>7, <2>1 DEF Misled
  <2>3. \A j \in holding : j <= Owner(n)
    BY <1>3, <2>1
  <2>4. last \in holding /\ Owner(n) <= last
    <3>1. \E i \in holding : \A j \in holding : j <= i
      BY <2>2, <2>3
    <3>2. last \in holding /\ \A j \in holding : j <= last
      BY <3>1
    <3> QED BY <2>2, <3>2
  <2> HIDE DEF last
  <2>5. Owner(n) = last
    <3>1. last \in 1 .. Len(tables) /\ Owner(n) \in 1 .. Len(tables)
      BY <1>5, <2>2, <2>4
    <3>2. last <= Owner(n)
      BY <2>3, <2>4
    <3> QED BY <1>1, <2>4, <3>1, <3>2
  <2> QED BY <1>2, <2>2, <2>5
<1> QED BY <1>6, <1>7

\* set_var_ binds the name in the frame whose table has it, or in the current one.
LEMMA SetBindsInChain ==
  ASSUME ChainOK, NEW n \in Names, NEW v \in Values, set_var_(n, v),
         NEW i, i = IF Owner(n) = 0 THEN Len(tables) ELSE Owner(n)
  PROVE  /\ i \in DOMAIN Chain /\ Chain[i] = Contents(tables[i])
         /\ Chain' = [Chain EXCEPT ![i] = Scope!Bound(Chain[i], n, v)]
         /\ UNCHANGED found
<1>1. /\ Len(tables) \in Nat /\ Len(tables) >= 1 /\ DOMAIN tables = 1 .. Len(tables)
      /\ \A k \in DOMAIN tables : Good(tables[k]) /\ Chain[k] = Contents(tables[k])
      /\ DOMAIN Chain = DOMAIN tables
  BY ChainMaps
<1>2. i \in DOMAIN tables
  BY <1>1, OwnerIsFrame DEF ChainOK
<1>3. tables' = [tables EXCEPT ![i] = SetIn(tables[i], n, v)] /\ found' = found
  BY DEF set_var_
<1>5. Contents(SetIn(tables[i], n, v)) = Scope!Bound(Chain[i], n, v)
  BY <1>1, <1>2, SetBinds
<1>6. DOMAIN tables' = DOMAIN tables
      /\ \A k \in DOMAIN tables :
           tables'[k] = IF k = i THEN SetIn(tables[i], n, v) ELSE tables[k]
  BY <1>1, <1>2, <1>3
<1>7. Chain' = [Chain EXCEPT ![i] = Scope!Bound(Chain[i], n, v)]
  <2>1. Chain' = [k \in DOMAIN tables |-> Contents(tables'[k])]
    BY <1>6 DEF Chain
  <2>2. Chain = [k \in DOMAIN tables |-> Chain[k]]
    BY DEF Chain
  <2>3. \A k \in DOMAIN tables :
          Contents(tables'[k]) = IF k = i THEN Scope!Bound(Chain[i], n, v) ELSE Chain[k]
    BY <1>1, <1>5, <1>6
  <2> QED BY <1>2, <2>1, <2>2, <2>3
<1> QED BY <1>1, <1>2, <1>3, <1>7

LEMMA SetIsSet ==
  ASSUME ChainOK, NEW n \in Names, NEW v \in Values, set_var_(n, v)
  PROVE  Scope!Set(n, v) \/ (misled' /\ Misplaced)
<1> DEFINE i == IF Owner(n) = 0 THEN Len(tables) ELSE Owner(n)
<1>1. /\ i \in DOMAIN Chain /\ Chain[i] = Contents(tables[i])
      /\ Chain' = [Chain EXCEPT ![i] = Scope!Bound(Chain[i], n, v)]
      /\ UNCHANGED found
  BY SetBindsInChain
<1>2. misled' = Misled(n)
  BY DEF set_var_
<1>3. CASE Misled(n)
  <2>1. n \notin DOMAIN Chain[i]
    BY <1>1, <1>3 DEF Misled
  <2> HIDE DEF i
  <2> QED BY <1>1, <1>2, <1>3, <2>1 DEF Misplaced
<1>4. CASE ~ Misled(n)
  <2>1. i = IF Scope!Owner(n) = 0 THEN Len(Chain) ELSE Scope!Owner(n)
    BY <1>4, ChainMaps, OwnerIsOwner
  <2> HIDE DEF i
  <2> QED BY <1>1, <2>1 DEF Scope!Set
<1> QED BY <1>3, <1>4

LEMMA LookupIsLookup ==
  ASSUME ChainOK, NEW n \in Names, lookup_var_(n)
  PROVE  Scope!Lookup(n) \/ (misled' /\ Misplaced)
<1>1. /\ \A k \in DOMAIN tables : Good(tables[k]) /\ Chain[k] = Contents(tables[k])
      /\ UNCHANGED Chain /\ misled' = Misled(n)
      /\ found' = IF Owner(n) = 0 THEN Undef ELSE Get(tables[Owner(n)], n)
  BY ChainMaps DEF lookup_var_, Chain
<1>2. Owner(n) # 0 => /\ Owner(n) \in DOMAIN tables
                      /\ Get(tables[Owner(n)], n) =
                           IF n \in DOMAIN Chain[Owner(n)] THEN Chain[Owner(n)][n] ELSE Undef
  <2> SUFFICES ASSUME Owner(n) # 0
               PROVE  /\ Owner(n) \in DOMAIN tables
                      /\ Get(tables[Owner(n)], n) =
                           IF n \in DOMAIN Chain[Owner(n)] THEN Chain[Owner(n)][n] ELSE Undef
    OBVIOUS
  <2>1. Owner(n) \in DOMAIN tables /\ Has(tables[Owner(n)], n)
    BY OwnerIsFrame DEF ChainOK
  <2> QED BY <1>1, <2>1, GetLooksUp
<1>3. CASE Misled(n)
  BY <1>1, <1>2, <1>3 DEF Misled, Misplaced
<1>4. CASE ~ Misled(n)
  <2>1. Owner(n) = Scope!Owner(n)
    BY <1>4, OwnerIsOwner
  <2>2. found' = IF Owner(n) = 0 THEN Undef ELSE Chain[Owner(n)][n]
    BY <1>1, <1>2, <1>4 DEF Misled
  <2> QED BY <1>1, <2>1, <2>2 DEF Scope!Lookup
<1> QED BY <1>3, <1>4

LEMMA CallIsCall ==
  ASSUME ChainOK, ChainOK',
         NEW params \in Parameters, NEW args \in [DOMAIN params -> Values], Call(params, args)
  PROVE  \E D \in SUBSET Names : \E bound \in [D -> Values] : Scope!Call(bound)
<1>1. PICK t : Good(t) /\ tables' = Append(tables, t) /\ UNCHANGED found
  BY CallAdds
<1>2. PICK D \in SUBSET Names : Contents(t) \in [D -> Values]
  BY <1>1, GoodIsTable
<1>3. t \in GoodTables /\ Contents(t) \in Maps
  BY <1>1, GoodIsTable DEF Maps
<1>4. tables \in Seq(GoodTables) /\ Len(tables) \in Nat
  BY DEF ChainOK
<1>5. /\ Len(tables') = Len(tables) + 1
      /\ \A k \in 1 .. Len(tables) : tables'[k] = tables[k]
      /\ tables'[Len(tables) + 1] = t
  BY <1>1, <1>3, <1>4, AppendProperties
<1>6. /\ Chain \in Seq(Maps) /\ Len(Chain) = Len(tables)
      /\ \A k \in 1 .. Len(tables) : Chain[k] = Contents(tables[k])
  BY ChainMaps
<1>7. /\ Chain' \in Seq(Maps) /\ Len(Chain') = Len(tables')
      /\ \A k \in 1 .. Len(tables') : Chain'[k] = Contents(tables'[k])
  BY MapsOfTables DEF Chain, ChainOK
<1>8. /\ Append(Chain, Contents(t)) \in Seq(Maps)
      /\ Len(Append(Chain, Contents(t))) = Len(tables) + 1
      /\ \A k \in 1 .. Len(tables) : Append(Chain, Contents(t))[k] = Chain[k]
      /\ Append(Chain, Contents(t))[Len(tables) + 1] = Contents(t)
  BY <1>3, <1>6, AppendProperties
<1>9. Chain' = Append(Chain, Contents(t))
  <2>1. \A k \in 1 .. Len(tables) + 1 : Chain'[k] = Append(Chain, Contents(t))[k]
    BY <1>4, <1>5, <1>6, <1>7, <1>8
  <2> QED BY <1>5, <1>7, <1>8, <2>1, SeqEqual
<1> QED BY <1>1, <1>2, <1>9 DEF Scope!Call, Chain

LEMMA ReturnIsReturn ==
  ASSUME ChainOK, ChainOK', Return
  PROVE  Scope!Return
<1>1. tables' = SubSeq(tables, 1, Len(tables) - 1) /\ Len(tables) > 1 /\ UNCHANGED found
  BY DEF Return
<1>2. tables \in Seq(GoodTables) /\ Len(tables) \in Nat
  BY DEF ChainOK
<1>3. Len(tables') = Len(tables) - 1 /\ \A k \in 1 .. Len(tables) - 1 : tables'[k] = tables[k]
  BY <1>1, <1>2, SubSeqProperties
<1>4. /\ Chain \in Seq(Maps) /\ Len(Chain) = Len(tables)
      /\ \A k \in 1 .. Len(tables) : Chain[k] = Contents(tables[k])
  BY ChainMaps
<1>5. /\ Chain' \in Seq(Maps) /\ Len(Chain') = Len(tables')
      /\ \A k \in 1 .. Len(tables') : Chain'[k] = Contents(tables'[k])
  BY MapsOfTables DEF Chain, ChainOK
<1>6. /\ SubSeq(Chain, 1, Len(Chain) - 1) \in Seq(Maps)
      /\ Len(SubSeq(Chain, 1, Len(Chain) - 1)) = Len(Chain) - 1
      /\ \A k \in 1 .. Len(Chain) - 1 : SubSeq(Chain, 1, Len(Chain) - 1)[k] = Chain[k]
  BY <1>1, <1>2, <1>4, SubSeqProperties
<1>7. Chain' = SubSeq(Chain, 1, Len(Chain) - 1)
  <2>1. \A k \in 1 .. Len(tables) - 1 : Chain'[k] = SubSeq(Chain, 1, Len(Chain) - 1)[k]
    BY <1>2, <1>3, <1>4, <1>5, <1>6
  <2> QED BY <1>3, <1>4, <1>5, <1>6, <2>1, SeqEqual
<1> QED BY <1>1, <1>4, <1>7 DEF Scope!Return, Chain

LEMMA ScopeStep ==
  ASSUME ChainOK, ChainOK', [VarNext]_varVars
  PROVE  [Scope!Next \/ (misled' /\ Misplaced)]_<<Chain, found>>
<1>1. ASSUME NEW params \in Parameters, NEW args \in [DOMAIN params -> Values], Call(params, args)
      PROVE  Scope!Next
  BY <1>1, CallIsCall DEF Scope!Next
<1>2. CASE UNCHANGED varVars
  BY <1>2 DEF varVars, Chain
<1>3. ASSUME NEW n \in Names, NEW v \in Values, set_var_(n, v)
      PROVE  Scope!Next \/ (misled' /\ Misplaced)
  BY <1>3, SetIsSet DEF Scope!Next
<1>4. ASSUME NEW n \in Names, lookup_var_(n)
      PROVE  Scope!Next \/ (misled' /\ Misplaced)
  BY <1>4, LookupIsLookup DEF Scope!Next
<1>5. CASE Return
  BY <1>5, ReturnIsReturn DEF Scope!Next
<1> QED BY <1>1, <1>2, <1>3, <1>4, <1>5 DEF VarNext

\* For any names, hashes, values and first capacity: at every step for which has tells
\* the truth the chain of hash tables, with its probing, wrapping around, growing and
\* rehashing, does what the chain of maps of Scopes does; and a step for which has
\* takes a free bucket for the name changes and loses no name that a table holds.
THEOREM TablesRefineScopes == VarSpec => TablesAreScopes
<1>1. VarInit => ChainOK /\ Scope!Init
  <2> SUFFICES ASSUME VarInit PROVE ChainOK /\ Scope!Init
    OBVIOUS
  <2>1. tables = <<NoBuckets>> /\ found = Undef
    BY DEF VarInit
  <2>2. NoBuckets \in GoodTables
    BY EmptyTable, GoodIsTable
  <2>3. ChainOK
    BY <2>1, <2>2 DEF ChainOK
  <2>4. Chain = <<Scope!Empty>>
    BY <2>1, EmptyTable DEF Chain
  <2> QED BY <2>1, <2>3, <2>4 DEF Scope!Init
<1>2. ChainOK /\ [VarNext]_varVars => ChainOK'
  BY ChainOKStep
<1>3. ChainOK /\ ChainOK' /\ [VarNext]_varVars
        => [Scope!Next \/ (misled' /\ Misplaced)]_<<Chain, found>>
  BY ScopeStep
<1> QED BY <1>1, <1>2, <1>3, PTL DEF VarSpec, TablesAreScopes

\* A program for which has always tells the truth sees a chain of maps, no more and
\* no less: the interpreter's variables implement Scopes.
THEOREM TruthfulRefinesScopes == VarSpec /\ [][~ misled']_varVars => Scope!Spec
<1>1. /\ [Scope!Next \/ (misled' /\ Misplaced)]_<<Chain, found>>
      /\ [~ misled']_varVars
      => [Scope!Next]_<<Chain, found>>
  BY DEF varVars, Chain
<1> QED BY <1>1, TablesRefineScopes, PTL DEF TablesAreScopes, Scope!Spec

=============================================================================
