-------------------------------- MODULE Cache ---------------------------------
(***************************************************************************)
(* The operations of osmscout::Cache, as functions of the cache they       *)
(* change: a list of cells, the most recently used first, and an index of  *)
(* the keys, whose iterators say where the cell of a key is.               *)
(*                                                                         *)
(* The iterators are not modelled: a list never moves its cells, and where *)
(* two cells have a key, which takes a cache that was inactive, the index  *)
(* refers to the younger one.  `map' is the set of the keys in the index.  *)
(***************************************************************************)
EXTENDS Naturals, Sequences

Cell(key, value) == [key |-> key, value |-> value]

\* Cache(maxSize)
NewCache(maxSize) == [order |-> <<>>, map |-> {}, size |-> 0, maxSize |-> maxSize]

IsActive(cache) == cache.maxSize > 0

\* The position of the youngest cell with a key.
Find(cache, key) ==
  CHOOSE i \in 1..Len(cache.order) :
    /\ cache.order[i].key = key
    /\ \A j \in 1..(i - 1) : cache.order[j].key # key

\* order.splice(order.begin(), order, i): cell i moves to the front.
Splice(order, i) ==
  [j \in 1..Len(order) |->
     IF j = 1 THEN order[i] ELSE IF j <= i THEN order[j - 1] ELSE order[j]]

PushFront(order, cell) ==
  [j \in 1..(Len(order) + 1) |-> IF j = 1 THEN cell ELSE order[j - 1]]

Hit(cache, key) == IsActive(cache) /\ key \in cache.map

Value(cache, key) == cache.order[Find(cache, key)].value

\* GetEntry() of a key that is found.
Touch(cache, key) ==
  [order |-> Splice(cache.order, Find(cache, key)),
   map |-> cache.map, size |-> cache.size, maxSize |-> cache.maxSize]

\* Mutant: first in, first out, as the class comment says.
GetEntryInPlace(cache, key) == cache

GetEntry(cache, key) == IF Hit(cache, key) THEN Touch(cache, key) ELSE cache


------------------------------------------------------------------------------
\* StripCache() drops the last cells until size is at most maxSize.
Excess(cache) == IF cache.size > cache.maxSize THEN cache.size - cache.maxSize ELSE 0

Kept(cache) == Len(cache.order) - Excess(cache)

Dropped(cache) == (Kept(cache) + 1)..Len(cache.order)

\* assert(iter != map.end()), for every cell that is dropped.
StripAssertion(cache) ==
  /\ Excess(cache) <= Len(cache.order)
  /\ \A i \in Dropped(cache) :
       /\ cache.order[i].key \in cache.map
       /\ \A j \in Dropped(cache) : cache.order[i].key = cache.order[j].key => i = j

\* Mutant: the index is left alone.
StripCacheOnly(cache) ==
  [order |-> [i \in 1..Kept(cache) |-> cache.order[i]],
   map |-> cache.map,
   size |-> cache.size - Excess(cache), maxSize |-> cache.maxSize]

StripCache(cache) ==
  [order |-> [i \in 1..Kept(cache) |-> cache.order[i]],
   map |-> cache.map \ {cache.order[i].key : i \in Dropped(cache)},
   size |-> cache.size - Excess(cache), maxSize |-> cache.maxSize]

\* SetEntry() of a key that is not found, before StripCache().
Insert(cache, key, value) ==
  [order |-> PushFront(cache.order, Cell(key, value)),
   map |-> cache.map \union {key}, size |-> cache.size + 1, maxSize |-> cache.maxSize]

\* Mutant: the cell moves to the front and keeps its old value.
UpdateOrder(cache, key, value) ==
  [order |-> Touch(cache, key).order,
   map |-> cache.map, size |-> cache.size, maxSize |-> cache.maxSize]

\* SetEntry() of a key that is found.
Update(cache, key, value) ==
  [order |-> [Touch(cache, key).order EXCEPT ![1] = Cell(key, value)],
   map |-> cache.map, size |-> cache.size, maxSize |-> cache.maxSize]

\* SetEntry() of an inactive cache: the only cell, which is not in the index.
Hold(cache, key, value) ==
  [order |-> <<Cell(key, value)>>,
   map |-> cache.map, size |-> cache.size, maxSize |-> cache.maxSize]

SetEntry(cache, key, value) ==
  IF ~IsActive(cache) THEN Hold(cache, key, value)
  ELSE IF key \in cache.map THEN Update(cache, key, value)
  ELSE StripCache(Insert(cache, key, value))

SetEntryAssertion(cache, key, value) ==
  Hit(cache, key) \/ ~IsActive(cache) \/ StripAssertion(Insert(cache, key, value))

Resize(cache, maxSize) ==
  [order |-> cache.order, map |-> cache.map, size |-> cache.size, maxSize |-> maxSize]

SetMaxSize(cache, maxSize) == StripCache(Resize(cache, maxSize))

\* Mutant: the list is left alone.
FlushIndexOnly(cache) ==
  [order |-> cache.order, map |-> {}, size |-> 0, maxSize |-> cache.maxSize]

Flush(cache) == [order |-> <<>>, map |-> {}, size |-> 0, maxSize |-> cache.maxSize]

==============================================================================
