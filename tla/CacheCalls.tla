------------------------------ MODULE CacheCalls ------------------------------
(***************************************************************************)
(* A cache and whoever uses it: any sequence of calls.  The cache is not   *)
(* threadsafe, so a call is one step.                                      *)
(***************************************************************************)
EXTENDS Cache

CONSTANTS Keys, Values,
          MaxSizes  (* the sizes a cache is made with or resized to *)

ASSUME CacheCallsAssumption == MaxSizes \subseteq Nat

VARIABLES cache,
          answer,   (* what the last call refers to: a value, or nothing     *)
          aborted,  (* the assertion of StripCache() has failed              *)
          recent    (* history: <<a, b>> when a is b or was used since b was *)

vars == <<cache, answer, aborted, recent>>

UsedKeys == {p[2] : p \in recent}

Used(key) ==
  recent' = {p \in recent : p[2] # key} \union {<<key, k>> : k \in UsedKeys \union {key}}

Init ==
  /\ \E n \in MaxSizes : cache = NewCache(n)
  /\ answer = {} /\ aborted = FALSE /\ recent = {}

CallGetEntry(key) ==
  /\ cache' = GetEntry(cache, key)
  /\ IF Hit(cache, key)
     THEN answer' = {Value(cache, key)} /\ Used(key)
     ELSE answer' = {} /\ UNCHANGED recent
  /\ UNCHANGED aborted

\* What follows a failed assertion does not matter.
CallSetEntry(key, value) ==
  /\ cache' = SetEntry(cache, key, value)
  /\ answer' = {value}
  /\ Used(key)
  /\ aborted' = ~SetEntryAssertion(cache, key, value)

\* Only of an active cache: an inactive one may hold a cell that is neither in the
\* index nor counted, and the assertion would fail on it once it is the last of a
\* full cache.  No code of the repository resizes a cache.
CallSetMaxSize(n) ==
  /\ IsActive(cache)
  /\ cache' = SetMaxSize(cache, n)
  /\ answer' = {}
  /\ aborted' = ~StripAssertion(Resize(cache, n))
  /\ UNCHANGED recent

CallFlush ==
  /\ cache' = Flush(cache)
  /\ answer' = {}
  /\ UNCHANGED <<aborted, recent>>

Next ==
  /\ ~aborted
  /\ \/ \E key \in Keys : CallGetEntry(key)
     \/ \E key \in Keys, value \in Values : CallSetEntry(key, value)
     \/ \E n \in MaxSizes : CallSetMaxSize(n)
     \/ CallFlush

Spec == Init /\ [][Next]_vars

------------------------------------------------------------------------------
(* Properties                                                              *)

\* The index, the list and the count agree: every cell is in the index under its
\* own key, no key has two cells, and size counts them and is at most maxSize.
\* Only an inactive cache has a cell that is not in the index.  So the oldest entry that
\* StripCache() removes is in the index, as it asserts.
Consistent ==
  /\ ~aborted
  /\ cache.size <= cache.maxSize
  /\ IF IsActive(cache)
     THEN /\ cache.size = Len(cache.order)
          /\ cache.map = {cache.order[i].key : i \in 1..cache.size}
          /\ \A i, j \in 1..cache.size : cache.order[i].key = cache.order[j].key => i = j
     ELSE cache.map = {}

\* What is in the cache is what was used last, through every resize and flush: no
\* key that is not there was used since one that is.
KeepsMostRecent ==
  \A key \in cache.map :
    /\ key \in UsedKeys
    /\ \A other \in Keys \ cache.map : <<other, key>> \notin recent

BM == INSTANCE BoundedMap WITH
        contents   <- [key \in cache.map |-> Value(cache, key)],
        capacity   <- cache.maxSize,
        Capacities <- MaxSizes

\* A cache never answers with a value that is not the last one set, and only
\* forgets when it is full, shrunk or flushed.
ImplementsBoundedMap == BM!Spec

==============================================================================
