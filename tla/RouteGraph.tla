------------------------------ MODULE RouteGraph -------------------------------
(***************************************************************************)
(* The routing graph that RouteDataGenerator writes for one vehicle: the   *)
(* points that several ways share are route nodes, with a path to the next *)
(* route node along every way, and the turns that restrictions exclude.    *)
(* The file offset of a route node is its point: route nodes are written   *)
(* by ascending ids.  The writing in blocks is left to RouteData.          *)
(*                                                                         *)
(* A way has the points it leads along; forward and backward say whether   *)
(* our vehicle may use it, others whether another vehicle may use it both  *)
(* ways; hasAccess that the access to it is not restricted; area that it   *)
(* is the ring of an area to go around, whose first point does not come    *)
(* again, and which is in the graphs of all vehicles; factor is what       *)
(* a unit of distance costs the routing profile on it.  For the            *)
(* description of a route a way also has a type, a name and a reference    *)
(* ("" for none), and may be a bridge or part of a roundabout.             *)
(***************************************************************************)
EXTENDS Integers, Sequences, FiniteSets

CONSTANTS Points,    (* the ids of points, from 1 on                       *)
          Distance   (* GetSphericalDistance                               *)

ASSUME PointsAssumption == Points \subseteq Nat \ {0} /\ IsFiniteSet(Points)

\* The triangle inequality is what the estimate of the search rests on.
ASSUME DistanceAssumption ==
  /\ Distance \in [Points -> [Points -> Nat]]
  /\ \A p, q, r \in Points : /\ Distance[p][q] = Distance[q][p]
                             /\ Distance[p][r] <= Distance[p][q] + Distance[q][r]

Least(S)    == CHOOSE x \in S : \A y \in S : x <= y
Greatest(S) == CHOOSE x \in S : \A y \in S : x >= y

PointsOf(way)   == {way.points[i] : i \in DOMAIN way.points}
CanRoute(way)   == way.forward \/ way.backward
IsCircular(way) == way.points[1] = way.points[Len(way.points)]
WaysAt(ways, p) == {k \in DOMAIN ways : p \in PointsOf(ways[k])}

\* The index of a point in a way is that of its first occurrence.
IndexIn(way, p) == Least({i \in DOMAIN way.points : way.points[i] = p})

\* Points at which ways meet that some vehicle may use.
Intersections(ways) == {p \in Points : Cardinality(WaysAt(ways, p)) >= 2}

\* IsAnyRoutable: the intersections that matter to our vehicle.
RouteNodes(ways) ==
  {p \in Intersections(ways) : \E k \in WaysAt(ways, p) : CanRoute(ways[k]) \/ ways[k].area}

------------------------------------------------------------------------------
(* The paths from route node p along way k, the backward one before the    *)
(* forward one for a way with two ends.                                    *)

\* The length of the way's course from index i up to index j.
Length(way, i, j) ==
  LET upTo[l \in i..j] ==
        IF l = i THEN 0 ELSE upTo[l - 1] + Distance[way.points[l - 1]][way.points[l]]
  IN  upTo[j]

Path(ways, k, p, next, distance, usable) ==
  IF next = p THEN <<>>
  ELSE <<[to |-> next, way |-> k, distance |-> distance,
          usable |-> usable, hasAccess |-> ways[k].hasAccess]>>

\* CalculateWayPaths, for the occurrence of the route node at index i.
WayPathsAt(ways, k, i) ==
  LET way    == ways[k]
      stops  == {j \in DOMAIN way.points : way.points[j] \in Intersections(ways)}
      before == {j \in stops : j < i}
      after  == {j \in stops : j > i}
      To(j)  == IF j < i THEN Path(ways, k, way.points[i], way.points[j], Length(way, j, i), way.backward)
                         ELSE Path(ways, k, way.points[i], way.points[j], Length(way, i, j), way.forward)
  IN  (IF (way.backward \/ way.others) /\ before # {} THEN To(Greatest(before)) ELSE <<>>)
   \o (IF (way.forward \/ way.others) /\ after # {} THEN To(Least(after)) ELSE <<>>)

WayPaths(ways, k, p) ==
  LET upTo[i \in 0..Len(ways[k].points)] ==
        IF i = 0 THEN <<>>
        ELSE upTo[i - 1] \o (IF ways[k].points[i] = p THEN WayPathsAt(ways, k, i) ELSE <<>>)
  IN  upTo[Len(ways[k].points)]

\* CalculateCircularWayPaths: around the way until an intersection or the start.
\* The last point is the first one again, and both have an index.
CircularWayPaths(ways, k, p, others) ==
  LET way    == ways[k]
      n      == Len(way.points)
      i      == IndexIn(way, p)
      Wrap(j) == ((j - 1) % n) + 1
      Ends(j) == Wrap(j) = i \/ way.points[Wrap(j)] \in Intersections(ways)
      up     == Least({s \in 1..n : Ends(i + s)})
      down   == Least({s \in 1..n : Ends(i - s)})
      \* Where the search for the next node stands before the one for the previous.
      next   == IF way.forward \/ others THEN Wrap(i + up) ELSE i + 1
      Around(s, d) ==
        LET upTo[l \in 0..s] ==
              IF l = 0 THEN 0
              ELSE upTo[l - 1] + Distance[way.points[Wrap(i + d * (l - 1))]][way.points[Wrap(i + d * l)]]
        IN  upTo[s]
  IN  (IF way.forward \/ others
         THEN Path(ways, k, p, way.points[Wrap(i + up)], Around(up, 1), way.forward) ELSE <<>>)
   \o (IF (way.backward \/ others) /\ Wrap(i - down) # next
         THEN Path(ways, k, p, way.points[Wrap(i - down)], Around(down, -1), way.backward) ELSE <<>>)

\* CalculateAreaPaths: around an area as around a way that leads both ways,
\* whoever may use it.
AreaPaths(ways, k, p) == CircularWayPaths(ways, k, p, TRUE)

\* WriteRouteGraph: the paths along the ways at p that our vehicle may use, and
\* around all areas.
Paths(ways, p) ==
  LET upTo[k \in 0..Len(ways)] ==
        IF k = 0 THEN <<>>
        ELSE upTo[k - 1] \o (IF k \notin WaysAt(ways, p) THEN <<>>
                             ELSE IF ways[k].area THEN AreaPaths(ways, k, p)
                             ELSE IF ~CanRoute(ways[k]) THEN <<>>
                             ELSE IF IsCircular(ways[k]) THEN CircularWayPaths(ways, k, p, ways[k].others)
                             ELSE WayPaths(ways, k, p))
  IN  upTo[Len(ways)]

------------------------------------------------------------------------------
(* Turns.  A restriction allows or forbids the turn from one way to        *)
(* another at a point; an allowed one forbids all others.                  *)

CanTurn(restrictions, p, from, to) ==
  LET about  == {r \in DOMAIN restrictions : restrictions[r].via = p /\ restrictions[r].from = from}
      exact  == {r \in about : restrictions[r].to = to}
  IN  IF exact # {} THEN restrictions[Least(exact)].allow
      ELSE about # {} => ~restrictions[Greatest(about)].allow

\* FillRoutePathExcludes: a forbidden turn from way to way excludes the first
\* path along the way.
Excludes(ways, restrictions, p, paths) ==
  LET at == {k \in WaysAt(ways, p) : ~ways[k].area}
      Along(k) == {i \in DOMAIN paths : paths[i].way = k}
  IN  {[source |-> t[1], targetIndex |-> Least(Along(t[2]))] :
         t \in {t \in at \X at : /\ t[1] # t[2]
                                /\ ~CanTurn(restrictions, p, t[1], t[2])
                                /\ Along(t[2]) # {}}}

RouteGraph(ways, restrictions) ==
  [p \in RouteNodes(ways) |->
     LET paths == Paths(ways, p)
     IN  [paths |-> paths, excludes |-> Excludes(ways, restrictions, p, paths)]]

==============================================================================
