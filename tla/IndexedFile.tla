----------------------------- MODULE IndexedFile ------------------------------
(***************************************************************************)
(* An IndexedDataFile: records are found by their ids through a            *)
(* NumericIndex and read through a DataFile; pages and records are kept in *)
(* caches.  It is opened and closed again and again, as RoutingService     *)
(* does with the file of junctions for every route.                        *)
(*                                                                         *)
(* Reading a record may fail.  That the index can be read is assumed: its  *)
(* scanner does not seek any more after a failed read, so that the next    *)
(* page would consist of whatever bytes follow.                            *)
(***************************************************************************)
EXTENDS NumericIndex, Cache, FiniteSets

CONSTANTS Ids,            (* the ids that are asked for                        *)
          Files,          (* the sets of ids that a file may have              *)
          RecordSize,     (* the bytes of a record                             *)
          IndexCaches,    (* the sizes a cache of pages may be given           *)
          DataCaches,     (* and a cache of records                            *)
          MaxRequests,    (* bound: the calls of Get                           *)
          MaxRequestSize, (* bound: the ids of a call                          *)
          MaxOpens,       (* bound: the calls of Open                          *)
          MaxFailures     (* bound: the records that cannot be read            *)

Broken == 0   \* the id of a record that could not be read

OffsetOf(i) == RecordSize * i

\* What the generator of the index is given for a file.
Entries(list) == [i \in 1..Len(list) |-> Entry(list[i], OffsetOf(i))]

\* The list of the ids of a file, ascending.
Listings(file) ==
  {list \in [1..Cardinality(file) -> file] :
     \A i, j \in 1..Cardinality(file) : i < j => list[i] < list[j]}

\* The bound on levels is never what ends the index of a file.
ASSUME IndexedFileAssumption ==
  /\ Ids \subseteq Nat \ {0} /\ RecordSize \in Nat \ {0}
  /\ \A file \in Files :
       /\ file \subseteq Ids /\ IsFiniteSet(file)
       /\ \A list \in Listings(file) : GeneratedIndex(Entries(list)).levels < MaxLevels
  /\ IndexCaches \subseteq Nat /\ DataCaches \subseteq Nat
  /\ {MaxRequests, MaxRequestSize, MaxOpens, MaxFailures} \subseteq Nat

VARIABLES ids,        (* the ids of the records of the data file, ascending      *)
          cacheSize,  (* NumericIndex::cacheSize                                 *)
          isOpen,     (* DataFile::isOpen                                        *)
          root,       (* the root page                                           *)
          leafs,      (* the caches of pages of the levels below                 *)
          cache,      (* the cache of records                                    *)
          pc,
          todo,       (* the ids of the call, or the offsets it has found        *)
          offsets,
          lookup,     (* GetOffset(): id, startId, offset, level                 *)
          data,       (* the ids of the records the call has read                *)
          result,     (* of the last call: none, failed or the data              *)
          asked,      (* the ids of the last call                                *)
          requests, opens, failures

fileVars == <<ids, cacheSize>>
indexVars == <<root, leafs>>
callVars == <<pc, todo, offsets, lookup, data, result, asked>>
boundVars == <<requests, opens, failures>>
vars == <<fileVars, isOpen, indexVars, cache, callVars, boundVars>>

Index == GeneratedIndex(Entries(ids))

NoLookup == [id |-> Broken, startId |-> 0, offset |-> 0, level |-> 0]

Init ==
  /\ \E file \in Files : ids \in Listings(file)
  /\ cacheSize \in IndexCaches
  /\ isOpen = FALSE
  /\ root = <<>> /\ leafs = <<>>
  /\ \E n \in DataCaches : cache = NewCache(n)
  /\ pc = "idle" /\ todo = <<>> /\ offsets = <<>> /\ lookup = NoLookup
  /\ data = <<>> /\ result = [kind |-> "none"] /\ asked = <<>>
  /\ requests = 0 /\ opens = 0 /\ failures = 0

------------------------------------------------------------------------------
(* Open() and Close()                                                       *)

\* The caches of an earlier opening stay, and stay in front.
Open ==
  /\ ~isOpen /\ opens < MaxOpens
  /\ opens' = opens + 1
  /\ isOpen' = TRUE
  /\ root' = PageAt(Index, Index.root)
  /\ LET sizes == CacheSizes(Index, cacheSize)
     IN  leafs' = leafs \o [i \in 1..Len(sizes) |-> NewCache(sizes[i])]
  /\ UNCHANGED <<fileVars, cache, callVars, requests, failures>>

Close ==
  /\ isOpen /\ pc = "idle"
  /\ isOpen' = FALSE
  /\ cache' = Flush(cache)
  /\ UNCHANGED <<fileVars, root, leafs, callVars, boundVars>>

------------------------------------------------------------------------------
(* Get(): first all offsets, then all records                               *)

Get(request) ==
  /\ isOpen /\ pc = "idle" /\ requests < MaxRequests
  /\ requests' = requests + 1
  /\ pc' = "lookup" /\ todo' = request /\ asked' = request
  /\ offsets' = <<>> /\ data' = <<>> /\ result' = [kind |-> "none"]
  /\ UNCHANGED <<fileVars, isOpen, indexVars, cache, lookup, opens, failures>>

\* The entry of a page that an id is looked for under; without one the id is not
\* in the file and is left out.
FollowEntry(page, id, level) ==
  LET i == GetPageIndex(page, id)
  IN  IF IndexIsValid(page, i)
      THEN /\ pc' = "descend"
           /\ lookup' = [id |-> id, startId |-> page[i].startId,
                         offset |-> page[i].fileOffset, level |-> level]
      ELSE pc' = "lookup" /\ lookup' = NoLookup

StartLookup ==
  /\ pc = "lookup" /\ todo # <<>>
  /\ todo' = Tail(todo)
  /\ FollowEntry(root, Head(todo), 0)
  /\ UNCHANGED <<fileVars, isOpen, indexVars, cache, offsets, data, result, asked, boundVars>>

AtLeaf == lookup.level + 2 > Index.levels

\* The page that the entry of the level above points to is found by its startId.
PageHit ==
  /\ pc = "descend" /\ ~AtLeaf
  /\ LET n == lookup.level + 1
     IN  /\ Hit(leafs[n], lookup.startId)
         /\ leafs' = [leafs EXCEPT ![n] = GetEntry(@, lookup.startId)]
         /\ FollowEntry(Value(leafs[n], lookup.startId), lookup.id, n)
  /\ UNCHANGED <<fileVars, isOpen, root, cache, todo, offsets, data, result, asked,
                 boundVars>>

PageMiss ==
  /\ pc = "descend" /\ ~AtLeaf
  /\ LET n == lookup.level + 1
     IN  /\ ~Hit(leafs[n], lookup.startId)
         /\ LET page == PageAt(Index, lookup.offset)
            IN  /\ leafs' = [leafs EXCEPT ![n] = SetEntry(@, lookup.startId, page)]
                /\ FollowEntry(page, lookup.id, n)
  /\ UNCHANGED <<fileVars, isOpen, root, cache, todo, offsets, data, result, asked, boundVars>>

EndLookup ==
  /\ pc = "descend" /\ AtLeaf
  /\ offsets' = IF lookup.startId = lookup.id THEN Append(offsets, lookup.offset) ELSE offsets
  /\ pc' = "lookup" /\ lookup' = NoLookup
  /\ UNCHANGED <<fileVars, isOpen, indexVars, cache, todo, data, result, asked, boundVars>>

StartReading ==
  /\ pc = "lookup" /\ todo = <<>>
  /\ pc' = "read" /\ todo' = offsets
  /\ UNCHANGED <<fileVars, isOpen, indexVars, cache, offsets, lookup, data, result, asked, boundVars>>

------------------------------------------------------------------------------
(* GetByOffset()                                                            *)

\* Position 0 has the number of records, not a record.
RecordAt(offset) ==
  IF \E i \in 1..Len(ids) : OffsetOf(i) = offset THEN ids[offset \div RecordSize] ELSE Broken

RecordHit ==
  /\ pc = "read" /\ todo # <<>> /\ Hit(cache, Head(todo))
  /\ cache' = GetEntry(cache, Head(todo))
  /\ data' = Append(data, Value(cache, Head(todo)))
  /\ todo' = Tail(todo)
  /\ UNCHANGED <<fileVars, isOpen, indexVars, pc, offsets, lookup, result, asked, boundVars>>

\* Only an active cache is used.
Store(offset, record) == IF IsActive(cache) THEN SetEntry(cache, offset, record) ELSE cache

RecordMiss ==
  /\ pc = "read" /\ todo # <<>> /\ ~Hit(cache, Head(todo))
  /\ cache' = Store(Head(todo), RecordAt(Head(todo)))
  /\ data' = Append(data, RecordAt(Head(todo)))
  /\ todo' = Tail(todo)
  /\ UNCHANGED <<fileVars, isOpen, indexVars, pc, offsets, lookup, result, asked, boundVars>>

\* TODO: Remove broken entry from cache
RecordFails ==
  /\ pc = "read" /\ todo # <<>> /\ ~Hit(cache, Head(todo))
  /\ failures < MaxFailures /\ failures' = failures + 1
  /\ cache' = Store(Head(todo), Broken)
  /\ pc' = "idle" /\ todo' = <<>> /\ offsets' = <<>> /\ data' = <<>>
  /\ result' = [kind |-> "failed"]
  /\ UNCHANGED <<fileVars, isOpen, indexVars, lookup, asked, requests, opens>>

Return ==
  /\ pc = "read" /\ todo = <<>>
  /\ result' = [kind |-> "data", data |-> data]
  /\ pc' = "idle" /\ offsets' = <<>> /\ data' = <<>>
  /\ UNCHANGED <<fileVars, isOpen, indexVars, cache, todo, lookup, asked, boundVars>>

Requests == UNION {[1..n -> Ids] : n \in 1..MaxRequestSize}

Next ==
  \/ Open
  \/ Close
  \/ \E request \in Requests : Get(request)
  \/ StartLookup
  \/ PageHit
  \/ PageMiss
  \/ EndLookup
  \/ StartReading
  \/ RecordHit
  \/ RecordMiss
  \/ RecordFails
  \/ Return

Spec == Init /\ [][Next]_vars

------------------------------------------------------------------------------
(* Properties                                                              *)

Succeeded == result.kind = "data"

\* The bytes that the entries of a page take.
Footprint(page) ==
  LET bytes[i \in 1..Len(page)] ==
        IF i = 1 THEN BytesOf(page[1].startId, page[1].fileOffset)
        ELSE bytes[i - 1] + BytesAfter(page[i], page[i - 1])
  IN  bytes[Len(page)]

\* What the reader relies on: no page has more bytes than a block, and the root is the
\* last of the pages.
FitsItsBlocks(index) ==
  /\ \A k \in 1..Len(index.blocks) : Footprint(index.blocks[k]) <= PageSize
  /\ ids # <<>> => index.root = Len(index.blocks) * PageSize

IsInFile(id) == \E i \in 1..Len(ids) : ids[i] = id

\* Those of the first n ids of a request that are in the file.
Found(request, n) ==
  LET found[i \in 0..Len(request)] ==
        IF i = 0 THEN <<>>
        ELSE IF IsInFile(request[i]) THEN Append(found[i - 1], request[i]) ELSE found[i - 1]
  IN  found[n]

There(request) == Found(request, Len(request))

\* The header of an index without pages is taken for a page: the size of a page is
\* found in a file without records.
HeaderIsFound(request) == ids = <<>> /\ \E i \in 1..Len(request) : request[i] = PageSize

\* What Get() returns are the records of the file, in the order of the request,
\* however the pages are cut (and never longer than a block), whatever the caches hold
\* or have dropped, and however often the file is reopened; but a record that could not
\* be read once may be returned as if it had been, if there is a cache of records.
GetsWhatIsThere ==
  /\ requests = 0 /\ isOpen => FitsItsBlocks(Index)
  /\ Succeeded /\ ~HeaderIsFound(asked) =>
       /\ Len(result.data) = Len(There(asked))
       /\ \A i \in 1..Len(result.data) :
            \/ result.data[i] = There(asked)[i]
            \/ result.data[i] = Broken /\ failures > 0 /\ IsActive(cache)

==============================================================================
