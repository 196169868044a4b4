---------------------------- MODULE LocationSearch ---------------------------
(***************************************************************************)
(* The search for places by what they are called, and for what places are  *)
(* called: LocationService on location.idx, behind the search dialog's     *)
(* model.  The letter case is left out, and so is a search for a part of a *)
(* word: a pattern is a sequence of words, and a name holds it if it has   *)
(* these words one behind the other.                                       *)
(***************************************************************************)
EXTENDS RegionTree

LOCAL INSTANCE TLC
LOCAL INSTANCE SequencesExt
LOCAL INSTANCE FiniteSetsExt

CONSTANTS Maps,      (* what the import may find, in a sequence             *)
          Patterns,  (* what may be searched for, for each of the maps      *)
          Limits     (* how many results are asked for                      *)

ASSUME LocationSearchAssumption == Limits \subseteq Nat

------------------------------------------------------------------------------
(* LocationIndex: how location.idx is read, for a visitor that may stop or *)
(* leave out what is below a region.                                       *)

IsRegionIgnoreToken(file, token)   == token \in file[1].regionIgnoreTokens
IsLocationIgnoreToken(file, token) == token \in file[1].locationIgnoreTokens

\* LocationIndex::Load(): behind the header.
IndexOffset == 1

LoadAdminRegion(file, offset) ==
  LET entry == BlockAt(file, offset)
  IN  [offset |-> offset, data |-> entry.data, parent |-> entry.parent, name |-> entry.name,
       object |-> entry.object, aliases |-> entry.aliases, alias |-> NoName, aliasObject |-> Ref("none", 0)]

\* The regions in the order of the file, but for those below the ones at the offsets in
\* skip, which the visitor leaves out: then the reader is behind the region, and has
\* to jump behind what is below it to get at the next.
RECURSIVE VisitRegionEntries(_, _, _)
VisitEntries(file, start, count, skip) ==
  LET Child(s, i) ==
        LET child == VisitRegionEntries(file, s.at + 1, skip)
            jumps == child.skipped /\ i < count
        IN  [regions |-> s.regions \o child.regions, skipped |-> child.skipped,
             at |-> IF jumps THEN BlockAt(file, s.at).next ELSE child.at]
  IN  FoldLeft(Child, [regions |-> <<>>, skipped |-> FALSE, at |-> start], [i \in 1..count |-> i])

VisitRegionEntries(file, offset, skip) ==
  LET region == LoadAdminRegion(file, offset)
      below  == VisitEntries(file, offset + 1, BlockAt(file, offset).children, skip)
  IN  IF offset \in skip THEN [regions |-> <<region>>, skipped |-> TRUE, at |-> offset + 1]
      ELSE [below EXCEPT !.regions = <<region>> \o @]

VisitAdminRegions(file, skip) ==
  VisitEntries(file, IndexOffset + 1, BlockAt(file, IndexOffset).children, skip).regions

LoadRegionDataEntry(file, region) ==
  LET data == BlockAt(file, region.data)
  IN  [i \in DOMAIN data.pois |-> [region |-> region, what |-> "poi"] @@ data.pois[i]]
        \o [i \in DOMAIN data.locations |->
              [region |-> region, what |-> "location", at |-> <<region.data, i>>] @@ data.locations[i]]

\* The points of interest and the locations of a region and, if recursive, of all
\* regions below it.
RECURSIVE VisitRegionLocationEntries(_, _, _)
VisitRegionLocationEntries(file, offset, recursive) ==
  LET Child(s, i) ==
        LET child == VisitRegionLocationEntries(file, s.at + 1, TRUE)
        IN  [places |-> s.places \o child.places, at |-> child.at]
      own == [places |-> LoadRegionDataEntry(file, LoadAdminRegion(file, offset)), at |-> offset + 1]
  IN  IF recursive THEN FoldLeft(Child, own, [i \in 1..(BlockAt(file, offset).children) |-> i]) ELSE own

VisitAdminRegionLocations(file, region, recursive) ==
  VisitRegionLocationEntries(file, region.offset, recursive).places

\* Nobody asks whether there are addresses: without, the header is read as if it were
\* some.  What these are called is not what anybody searches for.
Garbage == <<[name |-> <<0>>, object |-> Ref("none", 0)]>>

VisitLocationAddresses(file, location) ==
  LET all == IF location.addresses = None THEN Garbage
             ELSE BlockAt(file, location.addresses).addresses
  IN  [i \in DOMAIN all |-> [location |-> location, at |-> <<location.addresses, i>>] @@ all[i]]

\* The regions around it by their offsets, up to where no parent is.
RECURSIVE ResolveAdminRegionHierachie(_, _, _)
ResolveAdminRegionHierachie(file, region, refs) ==
  LET known == refs @@ (region.offset :> region)
  IN  IF region.parent = None \/ region.parent \in DOMAIN known THEN known
      ELSE ResolveAdminRegionHierachie(file, LoadAdminRegion(file, region.parent), known)

VARIABLES map,      (* the map that is imported, one of the Maps            *)
          file,     (* location.idx; empty before the import                *)
          asked,    (* the last search                                      *)
          results,  (* its results                                          *)
          shown,    (* for each row of the dialog, the objects it refers to *)
          looked,   (* the objects of the last reverse lookup               *)
          found     (* its results                                          *)

vars == <<map, file, asked, results, shown, looked, found>>

------------------------------------------------------------------------------
(* Matching                                                                *)

Match     == 1
Candidate == 2
NoMatch   == 3

Holds(name, pattern) ==
  \E i \in 0..(Len(name) - Len(pattern)) : SubSeq(name, i + 1, i + Len(pattern)) = pattern

Quality(name, pattern) ==
  IF name = pattern THEN Match ELSE IF Holds(name, pattern) THEN Candidate ELSE NoMatch

\* A visitor stops at its limit, but has then already taken what reached it.
UpTo(s, limit) == SubSeq(s, 1, Min({Len(s), Max({limit, 1})}))

\* A region by its name, or by its other names: then one that matches is better than
\* a part of its name.
RegionMatches(region, pattern) ==
  LET quality == Quality(region.name, pattern)
      aliases == IF quality = Match THEN <<>>
                 ELSE SelectSeq(region.aliases, LAMBDA a : Quality(a.name, pattern) # NoMatch)
      own     == quality # NoMatch /\ ~\E a \in Range(aliases) : a.name = pattern
  IN  [aliases |-> Mapped(aliases, LAMBDA a :
         [region |-> [region EXCEPT !.alias = a.name, !.aliasObject = Ref("node", a.reference)],
          quality |-> Quality(a.name, pattern)]),
       own |-> IF own THEN <<[region |-> region, quality |-> quality]>> ELSE <<>>]

\* AdminRegionMatchVisitor: only other names reach the limit.
AdminRegionMatches(index, pattern, limit) ==
  LET Visit(s, region) ==
        LET hits  == RegionMatches(region, pattern)
            known == Len(s.results) + Len(hits.aliases)
        IN  IF s.stop THEN s
            ELSE [results |-> s.results \o hits.aliases \o hits.own,
                  stop |-> hits.aliases # <<>> /\ known >= limit]
  IN  FoldLeft(Visit, [results |-> <<>>, stop |-> FALSE], VisitAdminRegions(index, {})).results

LocationMatches(index, region, pattern, limit) ==
  UpTo(SelectSeq(VisitAdminRegionLocations(index, region, TRUE),
                 LAMBDA place : Quality(place.name, pattern) # NoMatch), limit)

AddressMatches(index, location, pattern, limit) ==
  UpTo(SelectSeq(VisitLocationAddresses(index, location),
                 LAMBDA a : Quality(a.name, pattern) # NoMatch), limit)

------------------------------------------------------------------------------
(* Searching                                                               *)

NoPattern == <<>>

\* GroupStringListToStrings(): every way to cut a list into parts, the first part as
\* short as possible first.
Groups(words, parts) ==
  LET n == Len(words)
      Cut(i, j) == SubSeq(words, i, j)
  IN  CASE parts = 1 -> <<<<words>>>>
        [] parts = 2 -> [i \in 1..(n - 1) |-> <<Cut(1, i), Cut(i + 1, n)>>]
        [] parts = 3 -> FlattenSeq([i \in 1..(n - 2) |->
                          [k \in 1..(n - i - 1) |-> <<Cut(1, i), Cut(i + 1, i + k), Cut(i + k + 1, n)>>]])

SearchEntry(region, location, address) == [region |-> region, location |-> location, address |-> address]

\* The region in front of the rest, or behind it.
InitializeLocationSearchEntries(index, words) ==
  LET Three(g) == <<SearchEntry(g[3], g[1], g[2]), SearchEntry(g[1], g[2], g[3])>>
      Two(g)   == <<SearchEntry(g[2], g[1], NoPattern), SearchEntry(g[1], g[2], NoPattern)>>
      One(g)   == <<SearchEntry(g[1], NoPattern, NoPattern)>>
      Of(parts, Make(_)) ==
        IF Len(words) < parts THEN <<>> ELSE FlattenSeq(Mapped(Groups(words, parts), Make))
      Asked(e) == /\ ~IsRegionIgnoreToken(index, e.region)
                  /\ ~IsLocationIgnoreToken(index, e.location)
  IN  SelectSeq(Of(3, Three) \o Of(2, Two) \o Of(1, One), Asked)

\* A result has all of its parts but those it is not about.
Result(region, quality) ==
  [region |-> region, regionQuality |-> quality, location |-> <<>>, locationQuality |-> NoMatch,
   address |-> <<>>, addressQuality |-> NoMatch, poi |-> <<>>, poiQuality |-> NoMatch]

Rest(limit, all) == Max({limit - Len(all), 0})

\* The region is that of the search, which the point of interest may be deep within.
HandleAdminRegionPOI(region, poi, quality) ==
  [Result(region.region, region.quality) EXCEPT !.poi = <<poi>>, !.poiQuality = quality]

LocationResult(region, location, quality) ==
  [Result(location.region, region.quality) EXCEPT !.location = <<location>>, !.locationQuality = quality]

\* Mutant: an address is as good as its street.
AddressLikeLocation(region, location, quality, address, addressQuality) ==
  [LocationResult(region, location, quality) EXCEPT !.address = <<address>>, !.addressQuality = quality]

HandleAdminRegionLocationAddress(region, location, quality, address, addressQuality) ==
  [LocationResult(region, location, quality) EXCEPT !.address = <<address>>,
                                                    !.addressQuality = addressQuality]

HandleAdminRegionLocation(index, limit, e, region, location, all) ==
  LET quality   == Quality(location.name, e.location)
      addresses == AddressMatches(index, location, e.address, Rest(limit, all))
  IN  IF e.address = NoPattern \/ addresses = <<>>
      THEN Append(all, LocationResult(region, location, quality))
      ELSE all \o Mapped(addresses, LAMBDA a :
             HandleAdminRegionLocationAddress(region, location, quality, a, Quality(a.name, e.address)))

\* LocationMatchVisitor hands a region on as it was found, with its other name, where
\* the place is in that region and not in one below it.
InRegion(place, region) ==
  IF place.region.object = region.object THEN [place EXCEPT !.region = region] ELSE place

HandleAdminRegion(index, limit, e, region, all) ==
  LET places == Mapped(LocationMatches(index, region.region, e.location, Rest(limit, all)),
                       LAMBDA p : InRegion(p, region.region))
      pois      == SelectSeq(places, LAMBDA p : p.what = "poi")
      locations == SelectSeq(places, LAMBDA p : p.what = "location")
      withPois  == all \o Mapped(pois, LAMBDA p :
                                   HandleAdminRegionPOI(region, p, Quality(p.name, e.location)))
  IN  IF e.location = NoPattern THEN Append(all, Result(region.region, region.quality))
      ELSE FoldLeft(LAMBDA a, p : HandleAdminRegionLocation(index, limit, e, region, p, a),
                    withPois, locations)

NameIn(part) == IF part = <<>> THEN NoName ELSE part[1].name

\* LocationSearchResult::Entry::operator<, but for its last resort, where the two are in memory.
Comes(a, b) ==
  LET key(x) == <<<<x.regionQuality>>, <<x.locationQuality>>, <<x.addressQuality>>, <<x.poiQuality>>,
                  x.region.name, NameIn(x.location), NameIn(x.address), NameIn(x.poi)>>
      differ == {i \in 1..8 : key(a)[i] # key(b)[i]}
  IN  differ # {} /\ Before(key(a)[Min(differ)], key(b)[Min(differ)])

PlaceIn(part) == IF part = <<>> THEN <<>> ELSE part[1].at

ObjectIn(part) == IF part = <<>> THEN <<>> ELSE part[1].object

\* operator==
Same(a, b) ==
  /\ a.region.aliasObject = b.region.aliasObject /\ a.region.object = b.region.object
  /\ PlaceIn(a.location) = PlaceIn(b.location) /\ PlaceIn(a.address) = PlaceIn(b.address)
  /\ ObjectIn(a.poi) = ObjectIn(b.poi)

Unique(s) ==
  FoldLeft(LAMBDA all, x : IF all # <<>> /\ Same(Last(all), x) THEN all ELSE Append(all, x), <<>>, s)

SearchForLocations(index, words, limit) ==
  LET Searched(all, e) ==
        FoldLeft(LAMBDA a, region : HandleAdminRegion(index, limit, e, region, a), all,
                 AdminRegionMatches(index, e.region, limit))
      all == FoldLeft(Searched, <<>>, InitializeLocationSearchEntries(index, words))
  IN  Unique(SortSeq(all, Comes))

\* LocationListModel::setPattern(): what a row of the dialog refers to.
References(result) ==
  CASE result.address # <<>>  -> <<result.address[1].object>>
    [] result.location # <<>> -> result.location[1].objects
    [] result.poi # <<>>      -> <<result.poi[1].object>>
    [] OTHER -> <<IF result.region.alias # NoName THEN result.region.aliasObject ELSE result.region.object>>

------------------------------------------------------------------------------
(* Looking up                                                              *)

AreaAt(m, offset) == CHOOSE a \in Range(m.areas) : a.offset = offset

\* What GetNodeByOffset(), GetWayByOffset(), GetAreaByOffset() give: the nodes of the
\* object, of an area those of each of its outer rings.
CoordsOf(m, object) ==
  CASE object.type = "node" -> <<<<(CHOOSE n \in Range(m.nodes) : n.offset = object.offset).coord>>>>
    [] object.type = "way"  -> <<(CHOOSE w \in Range(m.ways) : w.offset = object.offset).nodes>>
    [] object.type = "area" -> OuterNodes(AreaAt(m, object.offset))

RegionMatch(region, object) ==
  \/ region.object = object
  \/ object.type = "node" /\ \E a \in Range(region.aliases) : a.reference = object.offset

\* Mutant: the object has to be in the region completely.
HasCompletely(m, region, objects) ==
  LET rings == Range(OuterNodes(AreaAt(m, region.object.offset)))
  IN  \E object \in objects : \E coords \in Range(CoordsOf(m, object)), ring \in rings :
        IsAreaCompletelyInArea(coords, ring)

IsCandidate(m, region, objects) ==
  LET rings == Range(OuterNodes(AreaAt(m, region.object.offset)))
  IN  \E object \in objects : \E coords \in Range(CoordsOf(m, object)), ring \in rings :
        IsAreaAtLeastPartlyInArea(coords, ring)

\* The regions that are not candidates are left without looking below them.
CandidateRegions(m, index, objects) ==
  LET all  == Range(VisitAdminRegions(index, {}))
      skip == {r.offset : r \in {x \in all : ~IsCandidate(m, x, objects)}}
  IN  VisitAdminRegions(index, skip)

Found(object, region, location, address, poi) ==
  [object |-> object, region |-> region, location |-> location, address |-> address, poi |-> poi]

ReverseLookupObjects(m, index, objects) ==
  LET visited == Range(CandidateRegions(m, index, objects))
      regions == {r \in visited : IsCandidate(m, r, objects)}
      places  == UNION {Range(VisitAdminRegionLocations(index, r, FALSE)) : r \in regions}
      pois      == {p \in places : p.what = "poi"}
      locations == {p \in places : p.what = "location"}
      addresses == UNION {Range(VisitLocationAddresses(index, l)) : l \in locations}
  IN  UNION {
        {Found(o, r, <<>>, <<>>, <<>>) : o \in {x \in objects : RegionMatch(r, x)}} : r \in visited}
      \union {Found(p.object, p.region, <<>>, <<>>, <<p>>) : p \in {x \in pois : x.object \in objects}}
      \union UNION {{Found(o, l.region, <<l>>, <<>>, <<>>) : o \in objects \intersect Range(l.objects)} :
                      l \in locations}
      \union {Found(a.object, a.location.region, <<a.location>>, <<a>>, <<>>) :
                a \in {x \in addresses : x.object \in objects}}

------------------------------------------------------------------------------
Init ==
  /\ map \in DOMAIN Maps
  /\ file = <<>> /\ asked = <<>> /\ results = <<>> /\ shown = <<>> /\ looked = {} /\ found = {}

Import ==
  /\ file = <<>>
  /\ file' = FileOf(TreeOf(Maps[map]))
  /\ UNCHANGED <<map, asked, results, shown, looked, found>>

Search(words, limit) ==
  /\ file # <<>> /\ asked = <<>>
  /\ asked' = [words |-> words, limit |-> limit]
  /\ results' = SearchForLocations(file, words, limit)
  /\ shown' = Mapped(results', References)
  /\ UNCHANGED <<map, file, looked, found>>

\* Of what a row of the dialog refers to.
LookUp(objects) ==
  /\ looked = {} /\ objects # {}
  /\ looked' = objects
  /\ found' = ReverseLookupObjects(Maps[map], file, objects)
  /\ UNCHANGED <<map, file, asked, results, shown>>

Next ==
  \/ Import
  \/ \E words \in Patterns[map], limit \in Limits : Search(words, limit)
  \/ \E i \in DOMAIN shown : LookUp(Range(shown[i]))

Spec == Init /\ [][Next]_vars

------------------------------------------------------------------------------
(* Properties                                                              *)

TheMap == Maps[map]

\* The named regions of the map in the order in which they get into the tree, and the
\* streets and squares.
Regions(m) ==
  LET boundaries == SelectSeq(m.areas, LAMBDA a : a.type = "boundary_administrative" /\ a.level # 0)
      others == SelectSeq(m.areas, LAMBDA a : a.type \in RegionTypes)
  IN  SelectSeq(SortSeq(boundaries, LAMBDA a, b : a.level < b.level) \o others,
                LAMBDA a : a.rings[1].name # NoName)

Streets(m) == {w \in Range(m.ways) : w.type \in LocationTypes /\ w.name # NoName}

HasWhole(region, nodes) == \E area \in Range(OuterNodes(region)) : IsAreaCompletelyInArea(nodes, area)

Meets(region, nodes) ==
  BoxesMeet(GetBoundingBox(FlattenSeq(OuterNodes(region))), GetBoundingBox(nodes))

\* The regions around what no region has only a part of: none if there is one that may.
Around(m, nodes) ==
  LET near == {i \in DOMAIN Regions(m) : Meets(Regions(m)[i], nodes)}
  IN  IF \A i \in near : HasWhole(Regions(m)[i], nodes) THEN near ELSE {}

Within(m, i, j) ==
  \E a \in Range(OuterNodes(Regions(m)[i])), b \in Range(OuterNodes(Regions(m)[j])) : IsAreaSubOfArea(a, b)

\* The region was in the tree before those within it that are around it, too.
Above(m, i, nodes) == \A j \in Around(m, nodes) : Within(m, j, i) => i < j

\* What a region is called: its name, and the places right in it.
NamesOf(m, i) ==
  {Regions(m)[i].rings[1].name}
    \union {n.name : n \in {x \in Range(m.nodes) :
              /\ x.type \in RegionTypes /\ x.name # NoName
              /\ i \in Around(m, <<x.coord>>)
              /\ \A j \in Around(m, <<x.coord>>) : i = j \/ (Within(m, i, j) /\ j < i)}}

AskedFor(region, location, rest) ==
  /\ asked.words \in {region \o location \o rest, location \o rest \o region}
  /\ ~IsRegionIgnoreToken(file, region) /\ ~IsLocationIgnoreToken(file, location)

\* Every street with a part in a region is filed under some region.
NoStreetIsLost ==
  file # <<>> /\ asked = <<>> =>
    \A s \in Streets(TheMap) :
      (\E i \in DOMAIN Regions(TheMap) : \E area \in Range(OuterNodes(Regions(TheMap)[i])) :
         IsAreaAtLeastPartlyInArea(s.nodes, area))
      => \E b \in DOMAIN file : /\ file[b].block = "data"
                                /\ \E l \in Range(file[b].locations) :
                                     l.name = s.name /\ Ref("way", s.offset) \in Range(l.objects)

\* Who searches for an address by the names of a region, a street and a number, in
\* either order, finds it, with the region any that it lies in, if the street is in the
\* same regions: through the choice of the regions at the import, the file, and the
\* ways in which the words are cut. The same for a point of interest. And every
\* street that is in some region has a region whose name it is found with.
FindsEveryPlace ==
  /\ NoStreetIsLost
  /\ asked # <<>> /\ asked.limit > Len(results) =>
    /\ \A x \in Range(TheMap.areaAddresses) \union Range(TheMap.nodeAddresses), s \in Streets(TheMap) :
         \A r \in Around(TheMap, x.nodes) : \A name \in NamesOf(TheMap, r) :
           /\ IsAddress(x) /\ s.name = x.location
           /\ Around(TheMap, s.nodes) = Around(TheMap, x.nodes) /\ Above(TheMap, r, x.nodes)
           /\ AskedFor(name, x.location, x.address)
           => \E i \in DOMAIN results :
                /\ NameIn(results[i].location) = x.location /\ NameIn(results[i].address) = x.address
                /\ results[i].regionQuality = Match /\ results[i].addressQuality = Match
    /\ \A x \in UNION {Range(TheMap.areaAddresses), Range(TheMap.nodeAddresses), Range(TheMap.wayAddresses)} :
         \A r \in Around(TheMap, x.nodes) : \A name \in NamesOf(TheMap, r) :
           /\ IsPOI(x) /\ Above(TheMap, r, x.nodes) /\ AskedFor(name, x.name, <<>>)
           => \E i \in DOMAIN results :
                /\ results[i].poi # <<>> /\ results[i].poi[1].object.offset = x.offset
                /\ results[i].poiQuality = Match

Chain(region) == Range(ResolveAdminRegionHierachie(file, region, <<>>))

Calls(region, pattern) ==
  Holds(region.name, pattern) \/ \E a \in Range(region.aliases) : Holds(a.name, pattern)

\* The words are cut into the name of a region around it, the name of the street or of
\* the point of interest, and the number or what no number fits.
Fits(region, location, address) ==
  \E parts \in {2, 3} : Len(asked.words) >= parts /\
    \E g \in Range(Groups(asked.words, parts)), r \in Chain(region) :
      \/ /\ Calls(r, g[1]) /\ Holds(location, g[2])
         /\ address = NoName \/ (parts = 3 /\ Holds(address, g[3]))
      \/ /\ Calls(r, g[parts]) /\ Holds(location, g[1])
         /\ address = NoName \/ (parts = 3 /\ Holds(address, g[2]))

Touched(region, object) ==
  \E coords \in Range(CoordsOf(TheMap, object)), ring \in Range(OuterNodes(AreaAt(TheMap, region.object.offset))) :
    IsAreaAtLeastPartlyInArea(coords, ring)

RegionOfResult(e) == IF e.poi # <<>> THEN e.poi[1].region ELSE e.region

\* What the dialog shows of an object, looking the object up finds as well: if a part of
\* the object is in the region and in all those around it, that is if nothing has filed
\* it by the corner of its box alone.
LookedUp ==
  \A i \in DOMAIN shown : \A object \in Range(shown[i]) :
    LET e == results[i]
    IN  /\ looked = Range(shown[i])
        /\ \A r \in Chain(RegionOfResult(e)) : Touched(r, object)
        => \E f \in found :
             /\ f.object = object /\ f.region.offset = RegionOfResult(e).offset
             /\ PlaceIn(f.location) = PlaceIn(e.location) /\ PlaceIn(f.address) = PlaceIn(e.address)
             /\ ObjectIn(f.poi) = ObjectIn(e.poi)

\* A result fits what was searched for, and says of an address, a street and a region
\* only what the map says: nobody finds the number 5 of another street, or of the
\* street of the same name elsewhere. What the dialog shows of a result is found again by the
\* reverse lookup (LookedUp).
FindsOnlyWhatFits ==
  /\ LookedUp
  /\ \A i \in DOMAIN results :
       LET e == results[i]
       IN  /\ e.address # <<>> =>
                /\ \E x \in Range(TheMap.areaAddresses) \union Range(TheMap.nodeAddresses) :
                     /\ x.offset = e.address[1].object.offset
                     /\ x.location = NameIn(e.location) /\ x.address = NameIn(e.address)
                /\ Fits(e.region, NameIn(e.location), NameIn(e.address))
                /\ e.addressQuality = Match => \E k \in DOMAIN asked.words : \E n \in k..Len(asked.words) :
                                                 SubSeq(asked.words, k, n) = NameIn(e.address)
           /\ e.location # <<>> =>
                /\ \A object \in Range(e.location[1].objects) :
                     \/ object.type = "way" /\ \E s \in Streets(TheMap) :
                          s.offset = object.offset /\ s.name = NameIn(e.location)
                     \/ object.type = "area" /\ \E ring \in Range(AreaAt(TheMap, object.offset).rings) :
                          ring.name = NameIn(e.location)
                /\ Fits(e.region, NameIn(e.location), NoName)
           /\ e.poi # <<>> => Fits(e.poi[1].region, NameIn(e.poi), NoName)

==============================================================================
