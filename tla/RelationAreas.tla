---------------------------- MODULE RelationAreas ----------------------------
(***************************************************************************)
(* The import's areas of relations (GenRelAreaDat): the ways of a relation *)
(* and of the relations it is composed of are joined to rings, rings are   *)
(* nested by what lies within what, and every ring gets its level, its     *)
(* type and its features.  The ways that became rings are not to become    *)
(* areas of their own: they are on the black list.                         *)
(*                                                                         *)
(* A part, and later a ring, is a record with its level (ring), its type,  *)
(* its features, its nodes as ids and as points, and its raw ways.         *)
(* Relations that contain each other, below the relation at hand, make     *)
(* ComposeBoundaryMembers call itself without end; they are not modelled.  *)
(***************************************************************************)
EXTENDS Geometry, RawData

LOCAL INSTANCE TLC
LOCAL INSTANCE FiniteSetsExt
LOCAL INSTANCE SequencesExt

masterRingId == 0
outerRingId  == 1

------------------------------------------------------------------------------
(* The members of a relation                                               *)

InRing(member)  == member.role \in {"inner", "outer", ""}
IsBoundary(rel) == rel.type = "boundary_administrative"

ById(s, id) == CHOOSE e \in Range(s) : e.id = id
Ids(s)      == {s[i].id : i \in DOMAIN s}

\* The relations below rel that are there, in the end: relationMap.
RECURSIVE Below(_, _, _)
Below(rawrels, pending, loaded) ==
  LET found == (pending \ loaded) \intersect Ids(rawrels)
      next  == UNION {{m.id : m \in {m \in Range(ById(rawrels, id).members) :
                                       m.type = "relation" /\ InRing(m)}} : id \in found}
  IN  IF found = {} THEN loaded ELSE Below(rawrels, next, loaded \union found)

Children(rawrels, rel) ==
  IF IsBoundary(rel)
  THEN Below(rawrels, {m.id : m \in {m \in Range(rel.members) :
                                       m.type = "relation" /\ InRing(m)}} \ {rel.id},
             {rel.id}) \ {rel.id}
  ELSE {}

PartIsArea(part) ==
  /\ Len(part.ways) = 1
  /\ part.ways[1].isArea \/ First(part.ways[1].nodes) = Last(part.ways[1].nodes)

Part(coord, way) ==
  [ring |-> masterRingId, type |-> "ignore", features |-> NoFeatures,
   ids |-> [n \in DOMAIN way.nodes |-> SubstituteId(coord, way.nodes[n])],
   nodes |-> [n \in DOMAIN way.nodes |-> CoordOf(coord, way.nodes[n])],
   ways |-> <<way>>]

\* ComposeAreaMembers, ComposeBoundaryMembers: the parts in the order of the
\* members.  What is missing makes the relation fail; a relation within it
\* that fails only ends the list.
RECURSIVE Compose(_, _, _, _, _)
Compose(raw, children, boundary, rel, before) ==
  LET Add(state, m) ==
        IF state.ended THEN state
        ELSE IF m.type = "way" /\ InRing(m)
        THEN IF m.id \in Ids(raw.rawways)
                /\ \A n \in Range(ById(raw.rawways, m.id).nodes) : HasCoord(raw.coord, n)
             THEN [state EXCEPT !.parts = Append(@, Part(raw.coord, ById(raw.rawways, m.id)))]
             ELSE [state EXCEPT !.ok = FALSE, !.ended = TRUE]
        ELSE IF m.type = "relation" /\ boundary /\ m.role \in {"inner", "outer"}
        THEN IF m.id \notin children THEN [state EXCEPT !.ok = FALSE, !.ended = TRUE]
             ELSE LET child == Compose(raw, children, boundary, ById(raw.rawrels, m.id),
                                       state.parts)
                  IN  [state EXCEPT !.parts = child.parts, !.ended = ~child.ok]
        ELSE state
  IN  FoldLeft(Add, [ok |-> TRUE, ended |-> FALSE, parts |-> before], rel.members)

Members(raw, rel) ==
  Compose(raw, Children(raw.rawrels, rel), IsBoundary(rel), rel, <<>>)

------------------------------------------------------------------------------
(* BuildRings                                                              *)

Ends(part) == {First(part.ids), Last(part.ids)}

\* Every end is where an even number of open parts meet.
Joinable(parts) ==
  \A i \in DOMAIN parts : ~PartIsArea(parts[i]) =>
    \A id \in Ends(parts[i]) :
      Cardinality({k \in DOMAIN parts : ~PartIsArea(parts[k]) /\ id \in Ends(parts[k])}) % 2 = 0

\* Goes on at the end of trail with the first part that is left.
RECURSIVE Trail(_, _, _, _)
Trail(parts, left, trail, back) ==
  LET next == {k \in left : back \in Ends(parts[k])}
      k    == Min(next)
  IN  IF next = {} THEN trail
      ELSE Trail(parts, left \ {k}, Append(trail, k),
                 IF back = First(parts[k].ids) THEN Last(parts[k].ids) ELSE First(parts[k].ids))

\* Mutant: every part is taken to go in the right direction.
JoinedForward(line, part) ==
  [line EXCEPT !.ids = @ \o Tail(part.ids), !.nodes = @ \o Tail(part.nodes),
               !.ways = @ \o part.ways]

\* The nodes of part after those of line, from the end that line has reached.
Joined(line, part) ==
  LET forward == Last(line.ids) = First(part.ids)
      Rest(s) == IF forward THEN Tail(s) ELSE Tail(Reverse(s))
  IN  [line EXCEPT !.ids = @ \o Rest(part.ids), !.nodes = @ \o Rest(part.nodes),
                   !.ways = @ \o part.ways]

\* A ring does not repeat its first node.
Ring(parts, trail) ==
  LET line   == FoldLeft(LAMBDA l, k : Joined(l, parts[k]), parts[trail[1]], Tail(trail))
      closed == First(line.ids) = Last(line.ids)
  IN  [line EXCEPT !.ring = outerRingId,
                   !.ids = IF closed THEN Front(@) ELSE @,
                   !.nodes = IF closed THEN Front(@) ELSE @]

\* The trails, from the nodes in the order of their ids.
RECURSIVE Trails(_, _, _)
Trails(parts, left, rings) ==
  LET start == Min({Min(Ends(parts[k])) : k \in left})
      k     == Min({k \in left : start \in Ends(parts[k])})
      trail == Trail(parts, left \ {k}, <<k>>, Last(parts[k].ids))
  IN  IF left = {} THEN rings
      ELSE Trails(parts, left \ Range(trail), Append(rings, Ring(parts, trail)))

\* The rings: parts that are areas are left as they are and come first.
BuildRings(parts) ==
  IF \A i \in DOMAIN parts : PartIsArea(parts[i]) THEN parts
  ELSE Trails(parts, {i \in DOMAIN parts : ~PartIsArea(parts[i])},
              SelectSeq(parts, PartIsArea))

------------------------------------------------------------------------------
(* ResolveMultipolygon                                                     *)

\* The next of the unused rings that no other unused ring includes, top excepted.
NextIn(rings, unused, top) ==
  {i \in unused :
     /\ top # 0 => IsAreaSubOfArea(rings[i].nodes, rings[top].nodes)
     /\ \A x \in unused \ {i} : ~IsAreaSubOfArea(rings[i].nodes, rings[x].nodes)}

\* Mutant: what is within a ring within is at the same level.
ConsumeSubsFlat(rings, state, top, level) ==
  LET inside == {i \in state.unused : top = 0 \/ IsAreaSubOfArea(rings[i].nodes, rings[top].nodes)}
  IN  [unused |-> state.unused \ inside,
       groups |-> state.groups \o [n \in 1..Cardinality(inside) |->
         [rings[SetToSortSeq(inside, <)[n]] EXCEPT !.ring = level]]]

\* ConsumeSubs(): the rings within top, each followed by those within it.
RECURSIVE ConsumeSubs(_, _, _, _)
ConsumeSubs(rings, state, top, level) ==
  LET sub == NextIn(rings, state.unused, top)
      i   == Min(sub)
      one == [unused |-> state.unused \ {i},
              groups |-> Append(state.groups, [rings[i] EXCEPT !.ring = level])]
  IN  IF sub = {} THEN state
      ELSE ConsumeSubs(rings, ConsumeSubs(rings, one, i, level + 1), top, level)

\* The top level rings are the rings within nothing.
Group(rings) ==
  ConsumeSubs(rings, [unused |-> DOMAIN rings, groups |-> <<>>], 0, outerRingId).groups

\* Each ring that was a way has that way's type and features.
Typed(ring) ==
  LET way == ring.ways[1]
  IN  IF PartIsArea(ring) /\ way.type # "ignore"
      THEN [ring EXCEPT !.type = way.type, !.features = way.features] ELSE ring

\* A child ring of the same type as its parent is a clip region.  The children
\* end at the first ring that is none.
ClipChildren(rings) ==
  LET ChildrenOf(rs, r) ==
        {c \in (r + 1)..Len(rs) : \A k \in (r + 1)..c : rs[k].ring = rs[r].ring + 1}
      Clip(rs, r) ==
        IF ~PartIsArea(rs[r]) THEN rs
        ELSE [c \in DOMAIN rs |->
                IF c \in ChildrenOf(rs, r) /\ PartIsArea(rs[c]) /\ rs[c].type = rs[r].type
                THEN [rs[c] EXCEPT !.type = "ignore"] ELSE rs[c]]
  IN  FoldLeft(Clip, rings, [r \in DOMAIN rings |-> r])

OnlyAreaTypes(ring) ==
  IF TypeInfo[ring.type].canBeArea THEN ring ELSE [ring EXCEPT !.type = "ignore"]

\* A relation without a type takes that of its first outer ring that has one.
MasterRing(rel, rings) ==
  LET typed == {r \in DOMAIN rings : /\ rings[r].ring = outerRingId
                                     /\ PartIsArea(rings[r]) /\ rings[r].type # "ignore"}
      from  == IF rel.type = "ignore" /\ typed # {} THEN Min(typed) ELSE 0
      owner == IF from = 0 THEN rel ELSE rings[from]
  IN  [from |-> from,
       ring |-> [ring |-> masterRingId, type |-> owner.type, features |-> owner.features,
                 ids |-> <<>>, nodes |-> <<>>, ways |-> <<>>]]

\* HandleMultipolygonRelation(): the rings, or none if the relation is rejected.
\* With strict areas the rings that were built have to be simple.
RelationRings(raw, rel, strictAreas) ==
  LET members == Members(raw, rel)
      closed  == BuildRings(members.parts)
      groups  == Group(closed)
      clipped == Map(OnlyAreaTypes, ClipChildren(Map(Typed, groups)))
      master  == MasterRing(rel, clipped)
  IN  IF \/ ~members.ok
         \/ members.parts = <<>>
         \/ ~Joinable(members.parts)
         \/ strictAreas /\ \E r \in DOMAIN closed :
              ~PartIsArea(closed[r]) /\ ~AreaIsSimple(closed[r].nodes)
         \/ Len(groups) < Len(closed)
         \/ KnownType(master.ring.type) = "ignore"
      THEN <<>>
      ELSE <<master.ring>> \o
           [r \in DOMAIN clipped |-> IF r = master.from THEN [clipped[r] EXCEPT !.type = "ignore"]
                                     ELSE clipped[r]]

------------------------------------------------------------------------------
(* Areas                                                                   *)

\* Area::Write() and Read(): what the file keeps of a ring.  A ring of no type
\* after the first has neither ids nor features; a single ring is an outer ring.
StoredRings(rings) ==
  [r \in DOMAIN rings |->
     LET bare == r > 1 /\ rings[r].type = "ignore"
     IN  [ring |-> IF Len(rings) = 1 THEN outerRingId ELSE rings[r].ring,
          type |-> rings[r].type,
          features |-> IF bare THEN NoFeatures ELSE rings[r].features,
          ids |-> IF bare THEN <<>> ELSE rings[r].ids,
          nodes |-> rings[r].nodes]]

StoredArea(kind, id, rings) == [kind |-> kind, id |-> id, rings |-> StoredRings(rings)]

\* relarea.tmp, and the ways for the black list.
RelationAreas(raw, strictAreas) ==
  LET Handle(state, rel) ==
        LET rings == RelationRings(raw, rel, strictAreas)
        IN  IF rings = <<>> THEN state
            ELSE [relarea |-> Append(state.relarea, StoredArea("relation", rel.id, rings)),
                  wayareablack |-> state.wayareablack \union
                    {rings[r].ways[1].id : r \in {r \in 2..Len(rings) : PartIsArea(rings[r])}}]
  IN  FoldLeft(Handle, [relarea |-> <<>>, wayareablack |-> {}], raw.rawrels)

==============================================================================
