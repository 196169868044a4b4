----------------------------- MODULE CacheProofs ------------------------------
(***************************************************************************)
(* For any keys, values and sizes: as long as no inactive cache is         *)
(* resized, the list, the index and the count of a cache agree, the        *)
(* assertion of StripCache() holds, the cache implements a bounded map,    *)
(* and it forgets what was not used for longest.                           *)
(***************************************************************************)
EXTENDS CacheCalls, FiniteSetTheorems, TLAPS

Cells == [key : Keys, value : Values]

\* Every cell is in the index, and no key has two; there may be too many cells.
Listed(c) ==
  /\ c.order \in Seq(Cells)
  /\ c.maxSize \in MaxSizes
  /\ c.size = Len(c.order)
  /\ \A i \in 1..c.size : c.order[i].key \in c.map
  /\ \A key \in c.map : \E i \in 1..c.size : c.order[i].key = key
  /\ \A i, j \in 1..c.size : c.order[i].key = c.order[j].key => i = j

\* What an active cache is between two calls, and an inactive one.
Full(c) == Listed(c) /\ c.size <= c.maxSize

Empty(c) ==
  /\ c.order \in Seq(Cells)
  /\ c.maxSize \in MaxSizes
  /\ c.size = 0 /\ c.maxSize = 0
  /\ c.map = {}

Sound(c) == IF IsActive(c) THEN Full(c) ELSE Empty(c)

Inv == Sound(cache) /\ answer \in SUBSET Values /\ aborted = FALSE

------------------------------------------------------------------------------
(* Lists and indexes                                                       *)

LEMMA ListedFacts ==
  ASSUME NEW c, Listed(c)
  PROVE  /\ c.size \in Nat /\ c.maxSize \in Nat
         /\ c.map \in SUBSET Keys
         /\ DOMAIN c.order = 1..c.size
         /\ \A i \in 1..c.size : c.order[i] \in Cells
<1>1. c.size \in Nat /\ c.maxSize \in Nat /\ DOMAIN c.order = 1..c.size
  <2>1. c.order \in Seq(Cells) /\ c.size = Len(c.order) /\ c.maxSize \in MaxSizes
    BY DEF Listed
  <2>2. Len(c.order) \in Nat /\ DOMAIN c.order = 1..Len(c.order)
    BY <2>1
  <2>3. QED
    BY <2>1, <2>2, CacheCallsAssumption
<1>2. \A i \in 1..c.size : c.order[i] \in Cells
  BY <1>1 DEF Listed
<1>3. \A key \in c.map : key \in Keys
  <2> SUFFICES ASSUME NEW key \in c.map PROVE key \in Keys
    OBVIOUS
  <2>1. PICK i \in 1..c.size : c.order[i].key = key
    BY DEF Listed
  <2>2. c.order[i] \in Cells
    BY <1>2
  <2>3. QED
    BY <2>1, <2>2 DEF Cells
<1>4. QED
  BY <1>1, <1>2, <1>3

\* The index leads to the cell of a key.
LEMMA FindCell ==
  ASSUME NEW c, Listed(c), NEW i \in 1..c.size
  PROVE  Find(c, c.order[i].key) = i
<1> DEFINE Youngest(p) == /\ c.order[p].key = c.order[i].key
                          /\ \A j \in 1..(p - 1) : c.order[j].key # c.order[i].key
<1>1. c.size \in Nat /\ c.size = Len(c.order)
  BY ListedFacts DEF Listed
<1>2. Youngest(i)
  BY <1>1 DEF Listed
<1>3. \A p \in 1..c.size : Youngest(p) => p = i
  BY DEF Listed
<1>4. Find(c, c.order[i].key) = CHOOSE p \in 1..c.size : Youngest(p)
  BY <1>1 DEF Find
<1> HIDE DEF Youngest
<1>5. QED
  BY <1>2, <1>3, <1>4

LEMMA CellOfKey ==
  ASSUME NEW c, Listed(c), NEW key \in c.map
  PROVE  /\ Find(c, key) \in 1..c.size
         /\ c.order[Find(c, key)].key = key
<1>1. PICK i \in 1..c.size : c.order[i].key = key
  BY DEF Listed
<1>2. QED
  BY <1>1, FindCell

LEMMA ValueAt ==
  ASSUME NEW c, Listed(c), NEW i \in 1..c.size, NEW key, c.order[i].key = key
  PROVE  Value(c, key) = c.order[i].value
  BY FindCell DEF Value

\* As many keys as cells.
LEMMA MapSize ==
  ASSUME NEW c, Listed(c)
  PROVE  IsFiniteSet(c.map) /\ Cardinality(c.map) = c.size
<1> DEFINE key == [i \in 1..c.size |-> c.order[i].key]
<1>1. c.size \in Nat
  BY ListedFacts
<1>2. key \in Surjection(1..c.size, c.map)
  BY DEF Listed, Surjection
<1>3. key \in Injection(1..c.size, c.map)
  <2>1. key \in [1..c.size -> c.map]
    BY <1>2 DEF Surjection
  <2>2. \A i, j \in 1..c.size : key[i] = key[j] => i = j
    BY DEF Listed
  <2> HIDE DEF key
  <2>3. QED
    BY <2>1, <2>2 DEF Injection, IsInjective
<1>4. key \in Bijection(1..c.size, c.map)
  BY <1>2, <1>3 DEF Bijection
<1>5. ExistsBijection(1..c.size, c.map)
  BY <1>4 DEF ExistsBijection
<1>6. IsFiniteSet(1..c.size) /\ Cardinality(1..c.size) = c.size
  BY <1>1, FS_Interval
<1>7. QED
  BY <1>5, <1>6, FS_Bijection

------------------------------------------------------------------------------
(* The operations                                                          *)

\* A cell that moves to the front takes its value along.
LEMMA TouchListed ==
  ASSUME NEW c, Listed(c), NEW key \in c.map
  PROVE  /\ Listed(Touch(c, key))
         /\ Len(Touch(c, key).order) = c.size /\ c.size > 0
         /\ Touch(c, key).order[1].key = key
         /\ \A k \in c.map : Value(Touch(c, key), k) = Value(c, k)
<1> DEFINE p == Find(c, key)
           t == Touch(c, key)
<1>1. /\ c.size \in Nat /\ p \in 1..c.size /\ c.order[p].key = key
      /\ c.size = Len(c.order) /\ \A i \in 1..c.size : c.order[i] \in Cells
  BY ListedFacts, CellOfKey DEF Listed
<1>2. /\ t.order = [j \in 1..c.size |-> IF j = 1 THEN c.order[p]
                      ELSE IF j <= p THEN c.order[j - 1] ELSE c.order[j]]
      /\ t.map = c.map /\ t.size = c.size /\ t.maxSize = c.maxSize
  BY <1>1 DEF Touch, Splice
<1> HIDE DEF p, t
<1>3. t.order \in Seq(Cells) /\ Len(t.order) = c.size
  BY <1>1, <1>2
<1> DEFINE from(j) == IF j = 1 THEN p ELSE IF j <= p THEN j - 1 ELSE j
           to(i) == IF i = p THEN 1 ELSE IF i < p THEN i + 1 ELSE i
<1>4. \A j \in 1..c.size : from(j) \in 1..c.size /\ t.order[j] = c.order[from(j)]
  BY <1>1, <1>2
<1>5. \A i \in 1..c.size : to(i) \in 1..c.size /\ from(to(i)) = i
  BY <1>1
<1>6. \A i, j \in 1..c.size : from(i) = from(j) => i = j
  BY <1>1
<1>7. \A i, j \in 1..c.size : t.order[i].key = t.order[j].key => i = j
  <2> SUFFICES ASSUME NEW i \in 1..c.size, NEW j \in 1..c.size,
                      t.order[i].key = t.order[j].key
               PROVE  i = j
    OBVIOUS
  <2>1. c.order[from(i)].key = c.order[from(j)].key
    BY <1>4
  <2>2. from(i) = from(j)
    BY <1>4, <2>1 DEF Listed
  <2>3. QED
    BY <1>6, <2>2
<1> HIDE DEF from, to
<1>8. /\ \A j \in 1..c.size : t.order[j].key \in t.map
      /\ \A k \in t.map : \E j \in 1..c.size : t.order[j].key = k
  <2>1. \A i \in 1..c.size : c.order[i].key = t.order[to(i)].key /\ to(i) \in 1..c.size
    BY <1>4, <1>5
  <2>2. /\ \A i \in 1..c.size : c.order[i].key \in c.map
        /\ \A k \in c.map : \E i \in 1..c.size : c.order[i].key = k
    BY DEF Listed
  <2>3. \A j \in 1..c.size : t.order[j].key \in t.map
    BY <1>2, <1>4, <2>2
  <2>4. \A k \in t.map : \E j \in 1..c.size : t.order[j].key = k
    <3> SUFFICES ASSUME NEW k \in t.map PROVE \E j \in 1..c.size : t.order[j].key = k
      OBVIOUS
    <3>1. PICK i \in 1..c.size : c.order[i].key = k
      BY <1>2, <2>2
    <3>2. QED
      BY <2>1, <3>1
  <2>5. QED
    BY <2>3, <2>4
<1>9. Listed(t)
  BY <1>2, <1>3, <1>7, <1>8 DEF Listed
<1>10. \A k \in c.map : Value(t, k) = Value(c, k)
  <2> SUFFICES ASSUME NEW k \in c.map PROVE Value(t, k) = Value(c, k)
    OBVIOUS
  <2>1. PICK i \in 1..c.size : c.order[i].key = k
    BY DEF Listed
  <2>2. to(i) \in 1..t.size /\ t.order[to(i)] = c.order[i]
    BY <1>2, <1>4, <1>5
  <2>3. QED
    BY <1>9, <2>1, <2>2, ValueAt
<1>11. t.order[1].key = key /\ c.size > 0
  BY <1>1, <1>2
<1>12. QED
  BY <1>3, <1>9, <1>10, <1>11 DEF t

LEMMA UpdateListed ==
  ASSUME NEW c, Listed(c), NEW key \in c.map, NEW value \in Values
  PROVE  /\ Listed(Update(c, key, value))
         /\ \A k \in c.map : Value(Update(c, key, value), k) =
                               IF k = key THEN value ELSE Value(c, k)
<1> DEFINE t == Touch(c, key)
           u == Update(c, key, value)
<1>1. /\ Listed(t) /\ Len(t.order) = c.size /\ c.size > 0 /\ t.order[1].key = key
      /\ \A k \in c.map : Value(t, k) = Value(c, k)
  BY TouchListed
<1>2. t.map = c.map /\ t.size = c.size /\ t.maxSize = c.maxSize
  BY DEF Touch
<1>3. /\ u.order = [t.order EXCEPT ![1] = Cell(key, value)]
      /\ u.map = c.map /\ u.size = c.size /\ u.maxSize = c.maxSize
  BY DEF Update
<1> HIDE DEF t, u
<1>4. c.size \in Nat /\ 1 \in 1..c.size /\ key \in Keys
  BY <1>1, ListedFacts
<1>5. Cell(key, value) \in Cells
  BY <1>4 DEF Cell, Cells
<1>6. t.order \in Seq(Cells) /\ DOMAIN t.order = 1..c.size
  BY <1>1, <1>2, ListedFacts DEF Listed
<1>7. u.order \in Seq(Cells) /\ Len(u.order) = c.size
  BY <1>1, <1>3, <1>5, <1>6
<1>8. \A i \in 1..c.size : /\ u.order[i].key = t.order[i].key
                           /\ u.order[i].value = IF i = 1 THEN value ELSE t.order[i].value
  BY <1>1, <1>3, <1>6 DEF Cell
<1>9. Listed(u)
  <2>1. /\ \A i \in 1..c.size : t.order[i].key \in c.map
        /\ \A k \in c.map : \E i \in 1..c.size : t.order[i].key = k
        /\ \A i, j \in 1..c.size : t.order[i].key = t.order[j].key => i = j
        /\ c.maxSize \in MaxSizes
    BY <1>1, <1>2 DEF Listed
  <2>2. /\ \A i \in 1..c.size : u.order[i].key \in c.map
        /\ \A k \in c.map : \E i \in 1..c.size : u.order[i].key = k
        /\ \A i, j \in 1..c.size : u.order[i].key = u.order[j].key => i = j
    BY <1>8, <2>1
  <2>3. QED
    BY <1>3, <1>7, <2>1, <2>2 DEF Listed
<1>10. \A k \in c.map : Value(u, k) = IF k = key THEN value ELSE Value(c, k)
  <2> SUFFICES ASSUME NEW k \in c.map
               PROVE  Value(u, k) = IF k = key THEN value ELSE Value(c, k)
    OBVIOUS
  <2>1. PICK i \in 1..c.size : t.order[i].key = k
    BY <1>1, <1>2 DEF Listed
  <2>2. i \in 1..u.size /\ i \in 1..t.size /\ u.order[i].key = k
    BY <1>2, <1>3, <1>8, <2>1
  <2>3. Value(u, k) = u.order[i].value /\ Value(t, k) = t.order[i].value
    BY <1>1, <1>9, <2>1, <2>2, ValueAt
  <2>4. i = 1 <=> k = key
    BY <1>1, <1>2, <1>4, <2>1 DEF Listed
  <2>5. QED
    BY <1>1, <1>8, <2>3, <2>4
<1>11. QED
  BY <1>9, <1>10 DEF u

LEMMA InsertListed ==
  ASSUME NEW c, Listed(c), NEW key \in Keys \ c.map, NEW value \in Values
  PROVE  /\ Listed(Insert(c, key, value))
         /\ Insert(c, key, value).size = c.size + 1
         /\ Insert(c, key, value).map = c.map \union {key}
         /\ Insert(c, key, value).maxSize = c.maxSize
         /\ Insert(c, key, value).order[1] = Cell(key, value)
         /\ \A i \in 1..c.size : Insert(c, key, value).order[i + 1] = c.order[i]
<1> DEFINE n == Insert(c, key, value)
<1>1. c.size \in Nat /\ c.size = Len(c.order) /\ \A i \in 1..c.size : c.order[i] \in Cells
  BY ListedFacts DEF Listed
<1>2. /\ n.order = [j \in 1..(c.size + 1) |-> IF j = 1 THEN Cell(key, value) ELSE c.order[j - 1]]
      /\ n.map = c.map \union {key} /\ n.size = c.size + 1 /\ n.maxSize = c.maxSize
  BY <1>1 DEF Insert, PushFront
<1> HIDE DEF n
<1>3. Cell(key, value) \in Cells /\ Cell(key, value).key = key
  BY DEF Cell, Cells
<1>4. n.order \in Seq(Cells) /\ Len(n.order) = c.size + 1
  BY <1>1, <1>2, <1>3
<1>5. n.order[1] = Cell(key, value)
  BY <1>1, <1>2
<1>6. \A i \in 1..c.size : i + 1 \in 1..(c.size + 1) /\ n.order[i + 1] = c.order[i]
  BY <1>1, <1>2
<1>7. \A j \in 1..(c.size + 1) : j # 1 => j - 1 \in 1..c.size /\ n.order[j] = c.order[j - 1]
  BY <1>1, <1>2
<1>8. /\ \A i \in 1..c.size : c.order[i].key \in c.map
      /\ \A i, j \in 1..c.size : c.order[i].key = c.order[j].key => i = j
  BY DEF Listed
<1>9. /\ \A j \in 1..(c.size + 1) : n.order[j].key \in n.map
      /\ \A k \in n.map : \E j \in 1..(c.size + 1) : n.order[j].key = k
  <2>1. \A j \in 1..(c.size + 1) : n.order[j].key \in n.map
    BY <1>2, <1>3, <1>5, <1>7, <1>8
  <2>2. \A k \in n.map : \E j \in 1..(c.size + 1) : n.order[j].key = k
    <3> SUFFICES ASSUME NEW k \in n.map
                 PROVE  \E j \in 1..(c.size + 1) : n.order[j].key = k
      OBVIOUS
    <3>1. CASE k = key
      BY <1>1, <1>3, <1>5, <3>1
    <3>2. CASE k \in c.map
      <4>1. PICK i \in 1..c.size : c.order[i].key = k
        BY <3>2 DEF Listed
      <4>2. QED
        BY <1>6, <4>1
    <3>3. QED
      BY <1>2, <3>1, <3>2
  <2>3. QED
    BY <2>1, <2>2
<1>10. \A i, j \in 1..(c.size + 1) : n.order[i].key = n.order[j].key => i = j
  <2> SUFFICES ASSUME NEW i \in 1..(c.size + 1), NEW j \in 1..(c.size + 1),
                      n.order[i].key = n.order[j].key
               PROVE  i = j
    OBVIOUS
  <2>1. CASE i = 1 /\ j = 1
    BY <2>1
  <2>2. CASE i = 1 /\ j # 1
    BY <1>3, <1>5, <1>7, <1>8, <2>2
  <2>3. CASE i # 1 /\ j = 1
    BY <1>3, <1>5, <1>7, <1>8, <2>3
  <2>4. CASE i # 1 /\ j # 1
    <3>1. i - 1 = j - 1
      BY <1>7, <1>8, <2>4
    <3>2. QED
      BY <1>1, <3>1
  <2>5. QED
    BY <2>1, <2>2, <2>3, <2>4
<1>11. Listed(n)
  BY <1>2, <1>4, <1>9, <1>10 DEF Listed
<1>12. QED
  BY <1>2, <1>5, <1>6, <1>11 DEF n

\* What StripCache() leaves is the front of the list, with its keys.
LEMMA StripListed ==
  ASSUME NEW c, Listed(c)
  PROVE  /\ StripAssertion(c)
         /\ Full(StripCache(c))
         /\ StripCache(c).maxSize = c.maxSize
         /\ StripCache(c).size = IF c.size <= c.maxSize THEN c.size ELSE c.maxSize
         /\ \A i \in 1..StripCache(c).size : c.order[i].key \in StripCache(c).map
         /\ \A k \in StripCache(c).map :
              \E i \in 1..StripCache(c).size : c.order[i].key = k
         /\ \A k \in StripCache(c).map : Value(StripCache(c), k) = Value(c, k)
<1> DEFINE s == StripCache(c)
           rest == IF c.size <= c.maxSize THEN c.size ELSE c.maxSize
<1>1. /\ c.size \in Nat /\ c.maxSize \in Nat /\ c.size = Len(c.order)
      /\ \A i \in 1..c.size : c.order[i] \in Cells
  BY ListedFacts DEF Listed
<1>2. /\ Excess(c) = c.size - rest /\ Kept(c) = rest /\ rest \in Nat
      /\ rest <= c.size /\ rest <= c.maxSize /\ Dropped(c) = (rest + 1)..c.size
  BY <1>1 DEF Excess, Kept, Dropped
<1>3. /\ \A i \in 1..c.size : c.order[i].key \in c.map
      /\ \A k \in c.map : \E i \in 1..c.size : c.order[i].key = k
      /\ \A i, j \in 1..c.size : c.order[i].key = c.order[j].key => i = j
  BY DEF Listed
<1>4. /\ s.order = [i \in 1..rest |-> c.order[i]] /\ s.size = rest /\ s.maxSize = c.maxSize
      /\ s.map = c.map \ {c.order[i].key : i \in (rest + 1)..c.size}
  BY <1>1, <1>2 DEF StripCache
<1> HIDE DEF s, rest
<1>5. StripAssertion(c)
  <2>1. Excess(c) <= Len(c.order)
    BY <1>1, <1>2
  <2>2. \A i \in Dropped(c) : i \in 1..c.size
    BY <1>1, <1>2
  <2>3. QED
    BY <1>3, <2>1, <2>2 DEF StripAssertion
<1>6. s.order \in Seq(Cells) /\ Len(s.order) = rest /\ \A i \in 1..rest : s.order[i] = c.order[i]
  BY <1>1, <1>2, <1>4
<1>7. /\ \A i \in 1..rest : c.order[i].key \in s.map
      /\ \A k \in s.map : \E i \in 1..rest : c.order[i].key = k
  <2>1. \A i \in 1..c.size : i \in 1..rest \/ i \in (rest + 1)..c.size
    BY <1>1, <1>2
  <2>2. \A i \in 1..rest : i \in 1..c.size /\ i \notin (rest + 1)..c.size
    BY <1>1, <1>2
  <2>3. \A i \in (rest + 1)..c.size : i \in 1..c.size
    BY <1>1, <1>2
  <2>4. \A k : k \in s.map <=> k \in c.map /\ \A i \in (rest + 1)..c.size : c.order[i].key # k
    BY <1>4
  <2>5. \A i \in 1..rest : c.order[i].key \in s.map
    BY <1>3, <2>2, <2>3, <2>4
  <2>6. \A k \in s.map : \E i \in 1..rest : c.order[i].key = k
    BY <1>3, <2>1, <2>4
  <2>7. QED
    BY <2>5, <2>6
<1>8. Listed(s)
  <2>1. /\ \A i \in 1..rest : s.order[i].key \in s.map
        /\ \A k \in s.map : \E i \in 1..rest : s.order[i].key = k
    BY <1>6, <1>7
  <2>2. \A i, j \in 1..rest : s.order[i].key = s.order[j].key => i = j
    <3>1. \A i \in 1..rest : i \in 1..c.size
      BY <1>1, <1>2
    <3>2. QED
      BY <1>3, <1>6, <3>1
  <2>3. c.maxSize \in MaxSizes
    BY DEF Listed
  <2>4. QED
    BY <1>4, <1>6, <2>1, <2>2, <2>3 DEF Listed
<1>9. \A k \in s.map : Value(s, k) = Value(c, k)
  <2> SUFFICES ASSUME NEW k \in s.map PROVE Value(s, k) = Value(c, k)
    OBVIOUS
  <2>1. PICK i \in 1..rest : c.order[i].key = k
    BY <1>7
  <2>2. i \in 1..c.size /\ i \in 1..s.size /\ s.order[i] = c.order[i]
    BY <1>1, <1>2, <1>4, <1>6
  <2>3. Value(s, k) = s.order[i].value /\ Value(c, k) = c.order[i].value
    BY <1>8, <2>1, <2>2, ValueAt
  <2>4. QED
    BY <2>2, <2>3
<1>10. Full(s)
  BY <1>2, <1>4, <1>8 DEF Full
<1>11. QED
  BY <1>4, <1>5, <1>7, <1>9, <1>10 DEF s, rest

------------------------------------------------------------------------------
(* The calls                                                               *)

LEMMA ActiveOrNot ==
  ASSUME Inv
  PROVE  /\ cache.maxSize \in MaxSizes /\ cache.maxSize \in Nat
         /\ IF IsActive(cache)
            THEN Full(cache) /\ Listed(cache) /\ cache.maxSize > 0
            ELSE Empty(cache) /\ cache.maxSize = 0 /\ cache.map = {}
  BY CacheCallsAssumption DEF Inv, Sound, Full, Listed, Empty, IsActive

LEMMA FullSound ==
  ASSUME NEW c, Full(c), c.maxSize > 0
  PROVE  Sound(c)
  BY DEF Sound, IsActive

LEMMA ValueType ==
  ASSUME NEW c, Listed(c), NEW key \in c.map
  PROVE  Value(c, key) \in Values
<1>1. Find(c, key) \in 1..c.size
  BY CellOfKey
<1>2. c.order[Find(c, key)] \in Cells
  BY <1>1, ListedFacts
<1>3. QED
  BY <1>2 DEF Value, Cells

LEMMA InitSound == Init => Inv /\ BM!Init
<1> SUFFICES ASSUME Init PROVE Inv /\ BM!Init
  OBVIOUS
<1>1. PICK n \in MaxSizes : cache = NewCache(n)
  BY DEF Init
<1>2. /\ cache.order = <<>> /\ cache.map = {} /\ cache.size = 0 /\ cache.maxSize = n
      /\ n \in Nat
  BY <1>1, CacheCallsAssumption DEF NewCache
<1>3. Sound(cache)
  BY <1>2 DEF Sound, Full, Listed, Empty, IsActive
<1>4. BM!Init
  BY <1>2 DEF Init, BM!Init
<1>5. QED
  BY <1>3, <1>4 DEF Init, Inv

LEMMA GetEntryStep ==
  ASSUME Inv, NEW key \in Keys, CallGetEntry(key)
  PROVE  Inv' /\ BM!Get(key)
<1>1. CASE Hit(cache, key)
  <2>1. IsActive(cache) /\ key \in cache.map
    BY <1>1 DEF Hit
  <2>2. Full(cache) /\ Listed(cache) /\ cache.maxSize > 0
    BY <2>1, ActiveOrNot
  <2>3. cache' = Touch(cache, key) /\ answer' = {Value(cache, key)} /\ aborted' = aborted
    BY <1>1 DEF CallGetEntry, GetEntry
  <2>4. /\ cache'.map = cache.map /\ cache'.size = cache.size
        /\ cache'.maxSize = cache.maxSize
    BY <2>3 DEF Touch
  <2>5. Listed(cache') /\ \A k \in cache.map : Value(cache', k) = Value(cache, k)
    BY <2>1, <2>2, <2>3, TouchListed
  <2>6. Sound(cache')
    BY <2>2, <2>4, <2>5, FullSound DEF Full
  <2>7. Value(cache, key) \in Values
    BY <2>1, <2>2, ValueType
  <2>8. BM!Get(key)
    BY <2>1, <2>3, <2>4, <2>5 DEF BM!Get, BM!Remembered
  <2>9. QED
    BY <2>3, <2>6, <2>7, <2>8 DEF Inv
<1>2. CASE ~Hit(cache, key)
  <2>1. key \notin cache.map
    BY <1>2, ActiveOrNot DEF Hit
  <2>2. cache' = cache /\ answer' = {} /\ aborted' = aborted
    BY <1>2 DEF CallGetEntry, GetEntry
  <2>3. BM!Get(key)
    BY <2>1, <2>2 DEF BM!Get, BM!Remembered
  <2>4. QED
    BY <2>2, <2>3 DEF Inv
<1>3. QED
  BY <1>1, <1>2

\* An inactive cache only holds the cell it was given.
LEMMA HoldStep ==
  ASSUME Inv, NEW key \in Keys, NEW value \in Values, CallSetEntry(key, value),
         ~IsActive(cache)
  PROVE  Inv' /\ BM!Pass(value)
<1>1. Empty(cache) /\ cache.maxSize = 0
  BY ActiveOrNot
<1>2. cache' = Hold(cache, key, value) /\ answer' = {value} /\ aborted' = FALSE
  BY DEF CallSetEntry, SetEntry, SetEntryAssertion
<1>3. /\ cache'.order = <<Cell(key, value)>> /\ cache'.map = cache.map
      /\ cache'.size = cache.size /\ cache'.maxSize = cache.maxSize
  BY <1>2 DEF Hold
<1>4. cache'.order \in Seq(Cells)
  BY <1>3 DEF Cell, Cells
<1>5. Sound(cache')
  BY <1>1, <1>3, <1>4 DEF Sound, IsActive, Empty
<1>6. cache'.map = {} /\ cache.map = {}
  BY <1>1, <1>3 DEF Empty
<1>7. BM!Pass(value)
  BY <1>1, <1>2, <1>3, <1>6 DEF BM!Pass
<1>8. QED
  BY <1>2, <1>5, <1>7 DEF Inv

LEMMA CardinalityAgrees ==
  ASSUME NEW S
  PROVE  BM!Cardinality(S) = Cardinality(S)
BY DEF BM!Cardinality, Cardinality

LEMMA UpdateStep ==
  ASSUME Inv, NEW key \in Keys, NEW value \in Values, CallSetEntry(key, value),
         IsActive(cache), key \in cache.map
  PROVE  Inv' /\ BM!Set(key, value)
<1>1. Full(cache) /\ Listed(cache) /\ cache.maxSize > 0
  BY ActiveOrNot
<1>2. cache' = Update(cache, key, value) /\ answer' = {value} /\ aborted' = FALSE
  BY DEF CallSetEntry, SetEntry, SetEntryAssertion, Hit
<1>3. cache'.map = cache.map /\ cache'.size = cache.size /\ cache'.maxSize = cache.maxSize
  BY <1>2 DEF Update
<1>4. /\ Listed(cache')
      /\ \A k \in cache.map : Value(cache', k) = IF k = key THEN value ELSE Value(cache, k)
  BY <1>1, <1>2, UpdateListed
<1>5. Sound(cache')
  BY <1>1, <1>3, <1>4, FullSound DEF Full
<1>6. BM!Set(key, value)
  <2>1. {} \in SUBSET (cache.map \ {key}) /\ Cardinality({}) = 0
    BY FS_EmptySet
  <2>2. (cache.map \ {}) \union {key} = cache.map
    OBVIOUS
  <2>3. [k \in cache'.map |-> Value(cache', k)]
          = [k \in (cache.map \ {}) \union {key} |->
               IF k = key THEN value ELSE [x \in cache.map |-> Value(cache, x)][k]]
    BY <1>3, <1>4, <2>2
  <2>4. /\ BM!Cardinality({}) = 0 /\ key \in BM!Remembered
        /\ BM!Remembered = cache.map
    BY <2>1, CardinalityAgrees DEF BM!Remembered
  <2>5. [k \in cache.map |-> Value(cache, k)]'
          = [k \in (BM!Remembered \ {}) \union {key} |->
               IF k = key THEN value ELSE [x \in cache.map |-> Value(cache, x)][k]]
    BY <2>3, <2>4
  <2>6. cache.maxSize > 0 /\ answer' = {value} /\ UNCHANGED cache.maxSize
    BY <1>1, <1>2, <1>3
  <2>7. {} \in SUBSET (BM!Remembered \ {key})
    OBVIOUS
  <2>8. QED
    BY <2>4, <2>5, <2>6, <2>7 DEF BM!Set
<1>7. QED
  BY <1>2, <1>5, <1>6 DEF Inv

\* A full cache drops its last cell for a new one.
LEMMA InsertStep ==
  ASSUME Inv, NEW key \in Keys, NEW value \in Values, CallSetEntry(key, value),
         IsActive(cache), key \notin cache.map
  PROVE  Inv' /\ BM!Set(key, value)
<1> DEFINE n == Insert(cache, key, value)
           size == cache.size
           max == cache.maxSize
<1>1. Full(cache) /\ Listed(cache) /\ max > 0 /\ size <= max /\ size \in Nat /\ max \in Nat
  BY ActiveOrNot, ListedFacts DEF Full
<1>2. /\ Listed(n) /\ n.size = size + 1 /\ n.map = cache.map \union {key} /\ n.maxSize = max
      /\ n.order[1] = Cell(key, value)
      /\ \A i \in 1..size : n.order[i + 1] = cache.order[i]
  BY <1>1, InsertListed
<1>3. StripAssertion(n)
  BY <1>2, StripListed
<1>4. cache' = StripCache(n) /\ answer' = {value} /\ aborted' = FALSE
  BY <1>3 DEF CallSetEntry, SetEntry, SetEntryAssertion
<1> HIDE DEF n
<1>5. /\ Full(cache') /\ cache'.maxSize = max
      /\ cache'.size = IF size < max THEN size + 1 ELSE size
      /\ \A i \in 1..cache'.size : n.order[i].key \in cache'.map
      /\ \A k \in cache'.map : \E i \in 1..cache'.size : n.order[i].key = k
      /\ \A k \in cache'.map : Value(cache', k) = Value(n, k)
  <2>1. /\ Full(StripCache(n)) /\ StripCache(n).maxSize = n.maxSize
        /\ StripCache(n).size = IF n.size <= n.maxSize THEN n.size ELSE n.maxSize
        /\ \A i \in 1..StripCache(n).size : n.order[i].key \in StripCache(n).map
        /\ \A k \in StripCache(n).map : \E i \in 1..StripCache(n).size : n.order[i].key = k
        /\ \A k \in StripCache(n).map : Value(StripCache(n), k) = Value(n, k)
    BY <1>2, StripListed
  <2>2. (IF size + 1 <= max THEN size + 1 ELSE max) = IF size < max THEN size + 1 ELSE size
    BY <1>1
  <2>3. QED
    BY <1>2, <1>4, <2>1, <2>2
<1>6. Sound(cache')
  BY <1>1, <1>5, FullSound
<1>7. n.order[1].key = key /\ n.order[1].value = value
  BY <1>2 DEF Cell
<1>8. \A k \in n.map : Value(n, k) = IF k = key THEN value ELSE Value(cache, k)
  <2> SUFFICES ASSUME NEW k \in n.map
               PROVE  Value(n, k) = IF k = key THEN value ELSE Value(cache, k)
    OBVIOUS
  <2>1. CASE k = key
    <3>1. 1 \in 1..n.size
      BY <1>1, <1>2
    <3>2. QED
      BY <1>2, <1>7, <2>1, <3>1, ValueAt
  <2>2. CASE k # key
    <3>1. PICK i \in 1..size : cache.order[i].key = k
      BY <1>1, <1>2, <2>2 DEF Listed
    <3>2. i + 1 \in 1..n.size /\ n.order[i + 1] = cache.order[i]
      BY <1>1, <1>2
    <3>3. Value(n, k) = n.order[i + 1].value /\ Value(cache, k) = cache.order[i].value
      BY <1>1, <1>2, <3>1, <3>2, ValueAt
    <3>4. QED
      BY <2>2, <3>2, <3>3
  <2>3. QED
    BY <2>1, <2>2
<1> DEFINE victims == IF size < max THEN {} ELSE {n.order[size + 1].key}
<1>9. /\ victims \in SUBSET (cache.map \ {key})
      /\ Cardinality(victims) = IF size = max THEN 1 ELSE 0
      /\ cache'.map = (cache.map \ victims) \union {key}
  <2>1. CASE size < max
    <3>1. victims = {} /\ cache'.size = n.size
      BY <1>2, <1>5, <2>1
    <3>2. cache'.map = n.map
      <4>1. Listed(n) /\ \A k \in n.map : \E i \in 1..n.size : n.order[i].key = k
        BY <1>2 DEF Listed
      <4>2. \A k \in cache'.map : k \in n.map
        <5> SUFFICES ASSUME NEW k \in cache'.map PROVE k \in n.map
          OBVIOUS
        <5>1. PICK i \in 1..n.size : n.order[i].key = k
          BY <1>5, <3>1
        <5>2. QED
          BY <4>1, <5>1 DEF Listed
      <4>3. \A k \in n.map : k \in cache'.map
        <5> SUFFICES ASSUME NEW k \in n.map PROVE k \in cache'.map
          OBVIOUS
        <5>1. PICK i \in 1..n.size : n.order[i].key = k
          BY <4>1
        <5>2. QED
          BY <1>5, <3>1, <5>1
      <4>4. QED
        BY <4>2, <4>3
    <3>3. Cardinality(victims) = 0
      BY <3>1, FS_EmptySet
    <3>4. QED
      BY <1>1, <1>2, <2>1, <3>1, <3>2, <3>3
  <2>2. CASE size = max
    <3> DEFINE last == n.order[size + 1].key
    <3>1. victims = {last} /\ cache'.size = size /\ n.size = size + 1
      BY <1>1, <1>2, <1>5, <2>2
    <3>2. last \in cache.map /\ last # key
      <4>1. size \in 1..size /\ n.order[size + 1] = cache.order[size]
        BY <1>1, <1>2, <2>2
      <4>2. last \in cache.map
        BY <1>1, <4>1 DEF Listed
      <4>3. QED
        BY <4>2
    <3>3. Cardinality({last}) = 1
      BY FS_Singleton
    <3>4. /\ \A i \in 1..(size + 1) : n.order[i].key \in n.map
          /\ \A k \in n.map : \E i \in 1..(size + 1) : n.order[i].key = k
          /\ \A i, j \in 1..(size + 1) : n.order[i].key = n.order[j].key => i = j
      BY <1>2 DEF Listed
    <3>5. \A i \in 1..(size + 1) : i \in 1..size \/ i = size + 1
      BY <1>1
    <3>6. \A i \in 1..size : i \in 1..(size + 1) /\ i # size + 1
      BY <1>1
    <3>7. size + 1 \in 1..(size + 1)
      BY <1>1
    <3>8. \A k \in n.map : k = last \/ k \in cache'.map
      <4> SUFFICES ASSUME NEW k \in n.map PROVE k = last \/ k \in cache'.map
        OBVIOUS
      <4>1. PICK i \in 1..(size + 1) : n.order[i].key = k
        BY <3>4
      <4>2. CASE i = size + 1
        BY <4>1, <4>2
      <4>3. CASE i \in 1..size
        BY <1>5, <3>1, <4>1, <4>3
      <4>4. QED
        BY <3>5, <4>2, <4>3
    <3>9. \A k \in cache'.map : k \in n.map /\ k # last
      <4> SUFFICES ASSUME NEW k \in cache'.map PROVE k \in n.map /\ k # last
        OBVIOUS
      <4>1. PICK i \in 1..size : n.order[i].key = k
        BY <1>5, <3>1
      <4>2. QED
        BY <3>4, <3>6, <3>7, <4>1
    <3>10. cache'.map = n.map \ {last}
      BY <3>8, <3>9
    <3> HIDE DEF last
    <3>11. QED
      BY <1>2, <2>2, <3>1, <3>2, <3>3, <3>10
  <2>3. QED
    BY <1>1, <2>1, <2>2
<1>10. Cardinality(cache.map) = size
  BY <1>1, MapSize
<1> HIDE DEF victims
<1>11. [k \in cache'.map |-> Value(cache', k)]
         = [k \in (cache.map \ victims) \union {key} |->
              IF k = key THEN value ELSE [x \in cache.map |-> Value(cache, x)][k]]
  <2>1. \A k \in cache'.map : k \in n.map /\ Value(cache', k) = Value(n, k)
    BY <1>2, <1>5, <1>9
  <2>2. \A k \in cache'.map : k # key => k \in cache.map
    BY <1>9
  <2>3. QED
    BY <1>8, <1>9, <2>1, <2>2
<1>12. BM!Set(key, value)
  <2>1. BM!Remembered = cache.map
    BY DEF BM!Remembered
  <2>2. /\ victims \in SUBSET (BM!Remembered \ {key})
        /\ BM!Cardinality(victims)
             = IF key \notin BM!Remembered /\ BM!Cardinality(BM!Remembered) = max THEN 1 ELSE 0
    BY <1>9, <1>10, <2>1, CardinalityAgrees
  <2>3. [k \in cache.map |-> Value(cache, k)]'
          = [k \in (BM!Remembered \ victims) \union {key} |->
               IF k = key THEN value ELSE [x \in cache.map |-> Value(cache, x)][k]]
    BY <1>11, <2>1
  <2>4. max > 0 /\ answer' = {value} /\ UNCHANGED cache.maxSize
    BY <1>1, <1>4, <1>5
  <2>5. QED
    BY <2>2, <2>3, <2>4 DEF BM!Set
<1>13. QED
  BY <1>4, <1>6, <1>12 DEF Inv

LEMMA SetMaxSizeStep ==
  ASSUME Inv, NEW n \in MaxSizes, CallSetMaxSize(n)
  PROVE  Inv' /\ BM!SetCapacity(n)
<1> DEFINE r == Resize(cache, n)
<1>1. IsActive(cache) /\ Full(cache) /\ Listed(cache) /\ n \in Nat
  BY ActiveOrNot, CacheCallsAssumption DEF CallSetMaxSize
<1>2. /\ r.order = cache.order /\ r.map = cache.map /\ r.size = cache.size /\ r.maxSize = n
  BY DEF Resize
<1> HIDE DEF r
<1>3. Listed(r)
  BY <1>1, <1>2 DEF Listed
<1>4. StripAssertion(r)
  BY <1>3, StripListed
<1>5. cache' = StripCache(r) /\ answer' = {} /\ aborted' = FALSE
  BY <1>4 DEF CallSetMaxSize, SetMaxSize, r
<1>6. /\ Full(cache') /\ cache'.maxSize = n
      /\ cache'.size = IF cache.size <= n THEN cache.size ELSE n
      /\ \A k \in cache'.map : \E i \in 1..cache'.size : cache.order[i].key = k
      /\ \A k \in cache'.map : Value(cache', k) = Value(r, k)
  BY <1>2, <1>3, <1>5, StripListed
<1>7. Listed(cache') /\ cache'.size <= n /\ cache'.size \in Nat /\ cache.size \in Nat
  BY <1>1, <1>6, ListedFacts DEF Full
<1>8. Sound(cache')
  <2>1. CASE n > 0
    BY <1>6, <2>1, FullSound
  <2>2. CASE n = 0
    <3>1. cache'.size = 0 /\ cache'.maxSize = 0
      BY <1>6, <1>7, <2>2
    <3>2. cache'.map = {}
      BY <1>7, <3>1 DEF Listed
    <3>3. QED
      BY <1>7, <3>1, <3>2 DEF Sound, IsActive, Empty, Listed
  <2>3. QED
    BY <1>1, <2>1, <2>2
<1>9. /\ Cardinality(cache.map) = cache.size
      /\ Cardinality(cache'.map) = cache'.size
  BY <1>1, <1>7, MapSize
<1>10. \A k \in cache'.map : k \in cache.map /\ Value(cache', k) = Value(cache, k)
  <2> SUFFICES ASSUME NEW k \in cache'.map
               PROVE  k \in cache.map /\ Value(cache', k) = Value(cache, k)
    OBVIOUS
  <2>1. PICK i \in 1..cache'.size : cache.order[i].key = k
    BY <1>6
  <2>2. i \in 1..cache.size
    BY <1>1, <1>6, <1>7
  <2>3. k \in cache.map
    BY <1>1, <2>1, <2>2 DEF Listed
  <2>4. Value(r, k) = r.order[i].value /\ Value(cache, k) = cache.order[i].value
    BY <1>1, <1>2, <1>3, <2>1, <2>2, ValueAt
  <2>5. QED
    BY <1>2, <1>6, <2>3, <2>4
<1>11. BM!SetCapacity(n)
  <2>1. cache'.map \in SUBSET cache.map
    BY <1>10
  <2>2. [k \in cache'.map |-> Value(cache', k)]
          = [k \in cache'.map |-> [x \in cache.map |-> Value(cache, x)][k]]
    BY <1>10
  <2>3. BM!Remembered = cache.map
    BY DEF BM!Remembered
  <2>4. /\ cache'.map \in SUBSET BM!Remembered
        /\ BM!Cardinality(cache'.map)
             = IF BM!Cardinality(BM!Remembered) <= n THEN BM!Cardinality(BM!Remembered) ELSE n
    BY <1>6, <1>9, <2>1, <2>3, CardinalityAgrees
  <2>5. [k \in cache.map |-> Value(cache, k)]'
          = [k \in cache'.map |-> [x \in cache.map |-> Value(cache, x)][k]]
    BY <2>2
  <2>6. QED
    BY <1>5, <1>6, <2>4, <2>5 DEF BM!SetCapacity
<1>12. QED
  BY <1>5, <1>8, <1>11 DEF Inv

LEMMA FlushStep ==
  ASSUME Inv, CallFlush
  PROVE  Inv' /\ BM!Clear
<1>1. /\ cache'.order = <<>> /\ cache'.map = {} /\ cache'.size = 0
      /\ cache'.maxSize = cache.maxSize /\ answer' = {} /\ aborted' = aborted
  BY DEF CallFlush, Flush
<1>2. cache.maxSize \in MaxSizes /\ cache.maxSize \in Nat
  BY ActiveOrNot
<1>3. Sound(cache')
  BY <1>1, <1>2 DEF Sound, Full, Listed, Empty, IsActive
<1>4. BM!Clear
  BY <1>1 DEF BM!Clear
<1>5. QED
  BY <1>1, <1>3, <1>4 DEF Inv

------------------------------------------------------------------------------
LEMMA NextStep ==
  ASSUME Inv, [Next]_vars
  PROVE  Inv' /\ [BM!Next]_<<[key \in cache.map |-> Value(cache, key)], cache.maxSize, answer>>
<1>1. CASE UNCHANGED vars
  BY <1>1 DEF vars, Inv
<1>2. ASSUME NEW key \in Keys, CallGetEntry(key)
      PROVE  Inv' /\ BM!Next
  BY <1>2, GetEntryStep DEF BM!Next
<1>3. ASSUME NEW key \in Keys, NEW value \in Values, CallSetEntry(key, value)
      PROVE  Inv' /\ BM!Next
  <2>1. CASE ~IsActive(cache)
    BY <1>3, <2>1, HoldStep DEF BM!Next
  <2>2. CASE IsActive(cache) /\ key \in cache.map
    BY <1>3, <2>2, UpdateStep DEF BM!Next
  <2>3. CASE IsActive(cache) /\ key \notin cache.map
    BY <1>3, <2>3, InsertStep DEF BM!Next
  <2>4. QED
    BY <2>1, <2>2, <2>3
<1>4. ASSUME NEW n \in MaxSizes, CallSetMaxSize(n)
      PROVE  Inv' /\ BM!Next
  BY <1>4, SetMaxSizeStep DEF BM!Next
<1>5. CASE CallFlush
  BY <1>5, FlushStep DEF BM!Next
<1>6. QED
  BY <1>1, <1>2, <1>3, <1>4, <1>5 DEF Next

LEMMA Invariance ==
  Spec => []Inv
<1>1. Init => Inv
  BY InitSound
<1>2. Inv /\ [Next]_vars => Inv'
  BY NextStep
<1>3. QED
  BY <1>1, <1>2, PTL DEF Spec

\* The list, the index and the count of a cache agree after any calls, and StripCache()
\* never meets a cell that is not in the index.
THEOREM ListAndIndexAgree ==
  Spec => []Consistent
<1>1. Inv => Consistent
  <2> SUFFICES ASSUME Inv PROVE Consistent
    OBVIOUS
  <2>0. ~aborted
    BY DEF Inv
  <2>1. CASE IsActive(cache)
    <3>1. Full(cache) /\ Listed(cache)
      BY <2>1, ActiveOrNot
    <3>2. cache.map = {cache.order[i].key : i \in 1..cache.size}
      <4>1. \A k \in cache.map : \E i \in 1..cache.size : cache.order[i].key = k
        BY <3>1 DEF Listed
      <4>2. \A i \in 1..cache.size : cache.order[i].key \in cache.map
        BY <3>1 DEF Listed
      <4>3. cache.map \subseteq {cache.order[i].key : i \in 1..cache.size}
        BY <4>1
      <4>4. {cache.order[i].key : i \in 1..cache.size} \subseteq cache.map
        BY <4>2
      <4>5. QED
        BY <4>3, <4>4
    <3>3. QED
      BY <2>0, <2>1, <3>1, <3>2 DEF Consistent, Full, Listed
  <2>2. CASE ~IsActive(cache)
    BY <2>0, <2>2, ActiveOrNot DEF Consistent, Empty
  <2>3. QED
    BY <2>1, <2>2
<1>2. QED
  BY <1>1, Invariance, PTL

\* A cache of any size is a bounded map: it answers with the value set last, and
\* only forgets one when it is full, shrunk or flushed.
THEOREM Implementation ==
  Spec => ImplementsBoundedMap
<1>1. Init => BM!Init
  BY InitSound
<1>2. Inv /\ [Next]_vars
        => [BM!Next]_<<[key \in cache.map |-> Value(cache, key)], cache.maxSize, answer>>
  BY NextStep
<1>3. QED
  BY <1>1, <1>2, Invariance, PTL DEF Spec, ImplementsBoundedMap, BM!Spec

------------------------------------------------------------------------------
(* What a full cache forgets                                               *)

\* The list is by last use, and nothing outside was used since something inside.
ByLastUse(c, uses) ==
  \A i, j \in 1..c.size : i < j => <<c.order[j].key, c.order[i].key>> \notin uses

UsedLast(c, uses) ==
  \A key \in c.map :
    /\ key \in {p[2] : p \in uses}
    /\ \A other \in Keys \ c.map : <<other, key>> \notin uses

RecentInv ==
  /\ recent \in SUBSET (Keys \X Keys)
  /\ IsActive(cache) => ByLastUse(cache, recent)
  /\ UsedLast(cache, recent)

\* Nothing was used since the key that is used now.
LEMMA UseStep ==
  ASSUME recent \in SUBSET (Keys \X Keys), NEW key \in Keys, Used(key)
  PROVE  /\ recent' \in SUBSET (Keys \X Keys)
         /\ {p[2] : p \in recent'} = UsedKeys \union {key}
         /\ \A a, b : <<a, b>> \in recent' /\ a # key => <<a, b>> \in recent /\ b # key
<1>1. recent' = {p \in recent : p[2] # key} \union {<<key, k>> : k \in UsedKeys \union {key}}
  BY DEF Used
<1>2. UsedKeys \in SUBSET Keys
  BY DEF UsedKeys
<1>3. recent' \in SUBSET (Keys \X Keys)
  BY <1>1, <1>2
<1>4. \A k : k \in UsedKeys \union {key} => <<key, k>> \in recent'
  BY <1>1
<1>5. \A p \in recent' : p[2] \in UsedKeys \union {key}
  BY <1>1 DEF UsedKeys
<1>6. {p[2] : p \in recent'} = UsedKeys \union {key}
  <2>1. \A k \in UsedKeys \union {key} : k \in {p[2] : p \in recent'}
    <3> SUFFICES ASSUME NEW k \in UsedKeys \union {key}
                 PROVE  \E p \in recent' : p[2] = k
      OBVIOUS
    <3>1. <<key, k>> \in recent' /\ <<key, k>>[2] = k
      BY <1>4
    <3>2. QED
      BY <3>1
  <2>2. QED
    BY <1>5, <2>1
<1>7. \A a, b : <<a, b>> \in recent' /\ a # key => <<a, b>> \in recent /\ b # key
  BY <1>1
<1>8. QED
  BY <1>3, <1>6, <1>7

\* Dropping the last cells keeps what was used last.
LEMMA StripRecent ==
  ASSUME NEW c, Listed(c), NEW uses, ByLastUse(c, uses), UsedLast(c, uses)
  PROVE  ByLastUse(StripCache(c), uses) /\ UsedLast(StripCache(c), uses)
<1> DEFINE s == StripCache(c)
<1>1. /\ c.size \in Nat /\ c.maxSize \in Nat /\ c.size = Len(c.order)
      /\ c.map \in SUBSET Keys
  BY ListedFacts DEF Listed
<1>2. /\ s.size \in Nat /\ s.size <= c.size
      /\ \A i \in 1..s.size : s.order[i] = c.order[i]
      /\ s.map \subseteq c.map
  BY <1>1 DEF StripCache, Excess, Kept
<1>3. /\ \A i \in 1..s.size : c.order[i].key \in s.map
      /\ \A k \in s.map : \E i \in 1..s.size : c.order[i].key = k
  BY StripListed
<1> HIDE DEF s
<1>4. ByLastUse(s, uses)
  BY <1>1, <1>2 DEF ByLastUse
<1>5. UsedLast(s, uses)
  <2> SUFFICES ASSUME NEW key \in s.map
               PROVE  /\ key \in {p[2] : p \in uses}
                      /\ \A other \in Keys \ s.map : <<other, key>> \notin uses
    BY DEF UsedLast
  <2>1. key \in c.map
    BY <1>2
  <2>2. ASSUME NEW other \in Keys \ s.map PROVE <<other, key>> \notin uses
    <3>1. CASE other \notin c.map
      BY <2>1, <3>1 DEF UsedLast
    <3>2. CASE other \in c.map
      <4>1. PICK j \in 1..c.size : c.order[j].key = other
        BY <3>2 DEF Listed
      <4>2. PICK i \in 1..s.size : c.order[i].key = key
        BY <1>3
      <4>3. j \notin 1..s.size
        BY <1>3, <4>1
      <4>4. i \in 1..c.size /\ i < j
        BY <1>1, <1>2, <4>1, <4>2, <4>3
      <4>5. QED
        BY <4>1, <4>2, <4>4 DEF ByLastUse
    <3>3. QED
      BY <3>1, <3>2
  <2>3. QED
    BY <2>1, <2>2 DEF UsedLast
<1>6. QED
  BY <1>4, <1>5 DEF s

\* A cell that moves to the front leaves the others in their order.
LEMMA TouchOrder ==
  ASSUME NEW c, Listed(c), NEW key \in c.map, NEW uses, NEW later,
         ByLastUse(c, uses),
         \A a, b : <<a, b>> \in later /\ a # key => <<a, b>> \in uses /\ b # key
  PROVE  ByLastUse(Touch(c, key), later)
<1> DEFINE p == Find(c, key)
           t == Touch(c, key)
           from(j) == IF j = 1 THEN p ELSE IF j <= p THEN j - 1 ELSE j
<1>1. /\ c.size \in Nat /\ p \in 1..c.size /\ c.order[p].key = key
      /\ c.size = Len(c.order)
      /\ \A i, j \in 1..c.size : c.order[i].key = c.order[j].key => i = j
  BY ListedFacts, CellOfKey DEF Listed
<1>2. /\ t.size = c.size
      /\ t.order = [j \in 1..c.size |-> IF j = 1 THEN c.order[p]
                      ELSE IF j <= p THEN c.order[j - 1] ELSE c.order[j]]
  BY <1>1 DEF Touch, Splice
<1> HIDE DEF p, t
<1>3. \A j \in 1..c.size : from(j) \in 1..c.size /\ t.order[j] = c.order[from(j)]
  BY <1>1, <1>2
<1>4. ASSUME NEW i \in 1..c.size, NEW j \in 1..c.size, i < j
      PROVE  <<t.order[j].key, t.order[i].key>> \notin later
  <2>1. from(j) # p /\ (i # 1 => from(i) < from(j)) /\ (i = 1 => from(i) = p)
    BY <1>1, <1>4
  <2> HIDE DEF from
  <2>2. t.order[j].key # key
    BY <1>1, <1>3, <2>1
  <2>3. CASE i = 1
    BY <1>1, <1>3, <2>1, <2>2, <2>3
  <2>4. CASE i # 1
    <3>1. <<c.order[from(j)].key, c.order[from(i)].key>> \notin uses
      BY <1>3, <2>1, <2>4 DEF ByLastUse
    <3>2. QED
      BY <1>3, <2>2, <3>1
  <2>5. QED
    BY <2>3, <2>4
<1>5. QED
  BY <1>2, <1>4 DEF ByLastUse, t

\* A key that is used is used last, with what was.
LEMMA UsedLastStep ==
  ASSUME NEW c, NEW d, NEW uses, NEW later, NEW key \in Keys,
         UsedLast(c, uses), c.map \in SUBSET Keys, d.map = c.map \union {key},
         {p[2] : p \in later} = {p[2] : p \in uses} \union {key},
         \A a, b : <<a, b>> \in later /\ a # key => <<a, b>> \in uses /\ b # key
  PROVE  UsedLast(d, later)
<1> SUFFICES ASSUME NEW k \in d.map
             PROVE  /\ k \in {p[2] : p \in later}
                    /\ \A other \in Keys \ d.map : <<other, k>> \notin later
  BY DEF UsedLast
<1>1. k = key \/ k \in c.map
  OBVIOUS
<1>2. k \in {p[2] : p \in later}
  <2>1. k \in c.map => k \in {p[2] : p \in uses}
    BY DEF UsedLast
  <2>2. k = key \/ k \in {p[2] : p \in uses}
    BY <1>1, <2>1
  <2>3. QED
    BY <2>2
<1>3. ASSUME NEW other \in Keys \ d.map, <<other, k>> \in later PROVE FALSE
  <2>1. other # key /\ other \in Keys \ c.map
    OBVIOUS
  <2>2. <<other, k>> \in uses /\ k # key
    BY <1>3, <2>1
  <2>3. QED
    BY <1>1, <2>1, <2>2 DEF UsedLast
<1>4. QED
  BY <1>2, <1>3

LEMMA InsertOrder ==
  ASSUME NEW c, Listed(c), NEW key \in Keys \ c.map, NEW value \in Values,
         NEW uses, NEW later, ByLastUse(c, uses),
         \A a, b : <<a, b>> \in later /\ a # key => <<a, b>> \in uses /\ b # key
  PROVE  ByLastUse(Insert(c, key, value), later)
<1> DEFINE n == Insert(c, key, value)
<1>1. c.size \in Nat /\ \A i \in 1..c.size : c.order[i].key \in c.map
  BY ListedFacts DEF Listed
<1>2. /\ n.size = c.size + 1 /\ n.order[1] = Cell(key, value)
      /\ \A i \in 1..c.size : n.order[i + 1] = c.order[i]
  BY InsertListed
<1> HIDE DEF n
<1>5. n.order[1].key = key
  BY <1>2 DEF Cell
<1>3. ASSUME NEW i \in 1..n.size, NEW j \in 1..n.size, i < j
      PROVE  <<n.order[j].key, n.order[i].key>> \notin later
  <2>1. j - 1 \in 1..c.size /\ n.order[j] = c.order[j - 1]
    <3>1. j - 1 \in 1..c.size /\ (j - 1) + 1 = j
      BY <1>1, <1>2, <1>3
    <3>2. QED
      BY <1>2, <3>1
  <2>2. n.order[j].key # key
    BY <1>1, <2>1
  <2>3. CASE i = 1
    BY <1>5, <2>2, <2>3
  <2>4. CASE i # 1
    <3>1. i - 1 \in 1..c.size /\ (i - 1) + 1 = i /\ i - 1 < j - 1
      BY <1>1, <1>2, <1>3, <2>4
    <3>2. n.order[i] = c.order[i - 1]
      BY <1>2, <3>1
    <3>3. <<c.order[j - 1].key, c.order[i - 1].key>> \notin uses
      BY <2>1, <3>1 DEF ByLastUse
    <3>4. QED
      BY <2>1, <2>2, <3>2, <3>3
  <2>5. QED
    BY <2>3, <2>4
<1>4. QED
  BY <1>3 DEF ByLastUse, n

\* The value of a cell says nothing about its place.
LEMMA UpdateOrderSame ==
  ASSUME NEW c, Listed(c), NEW key \in c.map, NEW value \in Values, NEW uses,
         ByLastUse(Touch(c, key), uses)
  PROVE  /\ ByLastUse(Update(c, key, value), uses)
         /\ Update(c, key, value).map = c.map
<1> DEFINE t == Touch(c, key)
           u == Update(c, key, value)
<1>1. /\ Listed(t) /\ Len(t.order) = c.size /\ c.size > 0 /\ t.order[1].key = key
      /\ t.size = c.size
  BY TouchListed DEF Touch
<1>2. /\ u.size = c.size /\ u.map = c.map
      /\ u.order = [t.order EXCEPT ![1] = Cell(key, value)]
  BY DEF Update
<1> HIDE DEF t, u
<1>3. c.size \in Nat /\ DOMAIN t.order = 1..c.size
  BY <1>1, ListedFacts
<1>4. \A i \in 1..c.size : u.order[i].key = t.order[i].key
  BY <1>1, <1>2, <1>3 DEF Cell
<1>5. ByLastUse(t, uses) => ByLastUse(u, uses)
  BY <1>1, <1>2, <1>3, <1>4 DEF ByLastUse
<1>6. QED
  BY <1>2, <1>5 DEF t, u

LEMMA RecentStep ==
  ASSUME Inv, RecentInv, [Next]_vars
  PROVE  RecentInv'
<1>1. /\ cache.map \in SUBSET Keys
      /\ IsActive(cache) => Listed(cache) /\ cache.maxSize > 0
  BY ActiveOrNot, ListedFacts
<1>3. ASSUME NEW key \in Keys, Used(key), NEW d, d.map = cache.map \union {key}
      PROVE  UsedLast(d, recent')
  <2>1. recent \in SUBSET (Keys \X Keys) /\ UsedLast(cache, recent)
    BY DEF RecentInv
  <2>2. /\ {p[2] : p \in recent'} = {p[2] : p \in recent} \union {key}
        /\ \A a, b : <<a, b>> \in recent' /\ a # key => <<a, b>> \in recent /\ b # key
    BY <1>3, <2>1, UseStep DEF UsedKeys
  <2>3. QED
    BY <1>1, <1>3, <2>1, <2>2, UsedLastStep
<1>4. CASE UNCHANGED vars
  BY <1>4 DEF vars, RecentInv, IsActive
<1>5. ASSUME NEW key \in Keys, CallGetEntry(key)
      PROVE  RecentInv'
  <2>1. CASE Hit(cache, key)
    <3>1. cache' = Touch(cache, key) /\ Used(key) /\ IsActive(cache) /\ key \in cache.map
      BY <1>5, <2>1 DEF CallGetEntry, GetEntry, Hit
    <3>2. cache'.map = cache.map \union {key}
      BY <3>1 DEF Touch
    <3>3. UsedLast(cache', recent')
      BY <1>3, <3>1, <3>2
    <3>4. /\ recent' \in SUBSET (Keys \X Keys)
          /\ \A a, b : <<a, b>> \in recent' /\ a # key => <<a, b>> \in recent /\ b # key
      BY <3>1, UseStep DEF RecentInv
    <3>5. ByLastUse(cache', recent')
      BY <1>1, <3>1, <3>4, TouchOrder DEF RecentInv
    <3>6. QED
      BY <3>3, <3>4, <3>5 DEF RecentInv
  <2>2. CASE ~Hit(cache, key)
    BY <1>5, <2>2 DEF CallGetEntry, GetEntry, RecentInv, IsActive
  <2>3. QED
    BY <2>1, <2>2
<1>6. ASSUME NEW key \in Keys, NEW value \in Values, CallSetEntry(key, value)
      PROVE  RecentInv'
  <2>1. Used(key) /\ cache' = SetEntry(cache, key, value)
    BY <1>6 DEF CallSetEntry
  <2>2. /\ recent' \in SUBSET (Keys \X Keys)
        /\ \A a, b : <<a, b>> \in recent' /\ a # key => <<a, b>> \in recent /\ b # key
    BY <2>1, UseStep DEF RecentInv
  <2>3. CASE ~IsActive(cache)
    <3>1. cache'.map = {} /\ cache'.maxSize = cache.maxSize
      BY <2>1, <2>3, ActiveOrNot DEF SetEntry, Hold
    <3>2. QED
      BY <2>2, <2>3, <3>1 DEF RecentInv, UsedLast, IsActive
  <2>4. CASE IsActive(cache) /\ key \in cache.map
    <3>1. cache' = Update(cache, key, value)
      BY <2>1, <2>4 DEF SetEntry
    <3>2. ByLastUse(Touch(cache, key), recent')
      BY <1>1, <2>2, <2>4, TouchOrder DEF RecentInv
    <3>3. ByLastUse(cache', recent') /\ cache'.map = cache.map \union {key}
      BY <1>1, <2>4, <3>1, <3>2, UpdateOrderSame
    <3>4. UsedLast(cache', recent')
      BY <1>3, <2>1, <3>3
    <3>5. QED
      BY <2>2, <3>3, <3>4 DEF RecentInv
  <2>5. CASE IsActive(cache) /\ key \notin cache.map
    <3> DEFINE n == Insert(cache, key, value)
    <3>1. cache' = StripCache(n)
      BY <2>1, <2>5 DEF SetEntry
    <3>2. Listed(n) /\ n.map = cache.map \union {key}
      BY <1>1, <2>5, InsertListed
    <3>3. ByLastUse(n, recent')
      BY <1>1, <2>2, <2>5, InsertOrder DEF RecentInv
    <3> HIDE DEF n
    <3>4. UsedLast(n, recent')
      BY <1>3, <2>1, <3>2
    <3>5. ByLastUse(cache', recent') /\ UsedLast(cache', recent')
      BY <3>1, <3>2, <3>3, <3>4, StripRecent
    <3>6. QED
      BY <2>2, <3>5 DEF RecentInv
  <2>6. QED
    BY <2>3, <2>4, <2>5
<1>7. ASSUME NEW n \in MaxSizes, CallSetMaxSize(n)
      PROVE  RecentInv'
  <2> DEFINE r == Resize(cache, n)
  <2>1. IsActive(cache) /\ cache' = StripCache(r) /\ recent' = recent
    BY <1>7 DEF CallSetMaxSize, SetMaxSize
  <2>2. /\ r.order = cache.order /\ r.map = cache.map /\ r.size = cache.size
        /\ r.maxSize = n
    BY DEF Resize
  <2> HIDE DEF r
  <2>3. Listed(r)
    BY <1>1, <2>1, <2>2 DEF Listed
  <2>4. ByLastUse(r, recent) /\ UsedLast(r, recent)
    BY <2>1, <2>2 DEF RecentInv, ByLastUse, UsedLast
  <2>5. QED
    BY <2>1, <2>3, <2>4, StripRecent DEF RecentInv
<1>8. CASE CallFlush
  <2>1. cache'.map = {} /\ cache'.size = 0 /\ recent' = recent
    BY <1>8 DEF CallFlush, Flush
  <2>2. QED
    BY <2>1 DEF RecentInv, ByLastUse, UsedLast
<1>9. QED
  BY <1>4, <1>5, <1>6, <1>7, <1>8 DEF Next

\* KeepsMostRecent: through any calls, what is in the cache has been used, and
\* nothing that is not was used since.
THEOREM ForgetsLeastRecent ==
  Spec => []KeepsMostRecent
<1>1. Init => RecentInv
  <2> SUFFICES ASSUME Init PROVE RecentInv
    OBVIOUS
  <2>1. recent = {} /\ cache.map = {} /\ cache.size = 0
    BY DEF Init, NewCache
  <2>2. QED
    BY <2>1 DEF RecentInv, ByLastUse, UsedLast
<1>2. Inv /\ RecentInv /\ [Next]_vars => RecentInv'
  BY RecentStep
<1>3. RecentInv => KeepsMostRecent
  BY DEF RecentInv, UsedLast, KeepsMostRecent, UsedKeys
<1>4. QED
  BY <1>1, <1>2, <1>3, Invariance, PTL DEF Spec

==============================================================================
