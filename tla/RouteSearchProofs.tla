--------------------------- MODULE RouteSearchProofs ---------------------------
(***************************************************************************)
(* For any map whose forbidden turns can be excluded: the route that       *)
(* CalculateRoute finds is legal and leads from place to place along the   *)
(* ways, in their directions but around loops (RoutesAreLegal).  It goes   *)
(* over the end only of a way that is closed or of a one-way street that   *)
(* touches itself (RoutesGoAroundClosedWays), and what is drawn and told   *)
(* of it is the route (DescriptionsFit).  Without restrictions it costs    *)
(* more than the cheapest at most by twice what it costs to start          *)
(* (RoutesAreCheapest).  Where it turns off, something is told             *)
(* (TurnsAreAllTold), if no part of a roundabout is a link of a motorway   *)
(* and another is none; roundabouts with their exits and motorways are     *)
(* told (ManoeuvresAreAllTold), if roundabouts lead around.                *)
(*                                                                         *)
(* The first three rest on ListsInv (the lists and maps of nodes agree,    *)
(* those that are closed stay closed), LegalInv and ChainInv (every node   *)
(* follows a closed one by a legal move, so that the chain of predecessors *)
(* ends), and on what AddNodes makes of a move: a path leads from an       *)
(* occurrence of one node in a way to an occurrence of another (Passable), *)
(* and the first occurrences, between which AddNodes goes, lie no further  *)
(* on, or there is a loop (EarlierIndices, LoopHolds).  The third rests on *)
(* DescribedInv, too.  The fourth rests on CostInv: no label - a node with *)
(* what it costs to get there on some way - is lost, for either a node is  *)
(* closed at no more than that or another on its way is still open and     *)
(* cheaper.  The last two rest on TurnsInv and ManoeuvresInv: the loop has *)
(* told, or passed over on links, what is due before its node, takes       *)
(* itself to be in a roundabout only where it is in one, and has counted   *)
(* the exits since it entered it.                                          *)
(***************************************************************************)
EXTENDS RouteDescription, Induction

------------------------------------------------------------------------------
(* Numbers                                                                 *)

\* A non-empty set of natural numbers has a least element, which Least returns.
LEMMA LeastOf ==
  ASSUME NEW S \in SUBSET Nat, S # {}
  PROVE  Least(S) \in S /\ \A n \in S : Least(S) <= n
  BY LeastNat DEF Least

\* A bounded non-empty set of them has a greatest one, which Greatest returns.
LEMMA GreatestOf ==
  ASSUME NEW S \in SUBSET Nat, S # {}, NEW b \in Nat, \A n \in S : n <= b
  PROVE  Greatest(S) \in S /\ \A n \in S : Greatest(S) >= n
<1> DEFINE T == {b - n : n \in S}
<1>1. T \in SUBSET Nat /\ T # {}
  <2>1. \A n \in S : b - n \in Nat
    OBVIOUS
  <2>2. QED
    BY <2>1
<1> HIDE DEF T
<1>2. PICK m \in T : \A n \in T : m <= n
  BY <1>1, LeastNat
<1>3. b - m \in S /\ \A n \in S : b - m >= n
  <2>1. PICK n \in S : m = b - n
    BY DEF T
  <2>2. b - m = n
    BY <2>1
  <2>3. ASSUME NEW k \in S PROVE b - m >= k
    <3>1. b - k \in T
      BY DEF T
    <3>2. m <= b - k
      BY <1>2, <3>1
    <3>3. QED
      BY <3>2, <2>1
  <2>4. QED
    BY <2>2, <2>3
<1>4. QED
  BY <1>3 DEF Greatest

------------------------------------------------------------------------------
(* Ways                                                                    *)

WayOK(way) ==
  /\ way.points \in Seq(Points)
  /\ way.forward \in BOOLEAN /\ way.backward \in BOOLEAN /\ way.hasAccess \in BOOLEAN

WaysOK(roads) ==
  /\ Len(roads) \in Nat /\ DOMAIN roads = 1..Len(roads)
  /\ \A k \in DOMAIN roads : WayOK(roads[k])

\* GetNodeIndexByNodeId finds a point of the way at the index it returns.
LEMMA IndexOfPoint ==
  ASSUME NEW way, WayOK(way), NEW p \in PointsOf(way)
  PROVE  /\ IndexIn(way, p) \in 1..Len(way.points)
         /\ way.points[IndexIn(way, p)] = p
<1> DEFINE S == {at \in DOMAIN way.points : way.points[at] = p}
<1>1. S \in SUBSET Nat /\ S # {} /\ DOMAIN way.points = 1..Len(way.points)
  BY DEF PointsOf, WayOK
<1> HIDE DEF S
<1>2. Least(S) \in S
  BY <1>1, LeastOf
<1>3. QED
  BY <1>1, <1>2 DEF S, IndexIn

OverPoints(c, a, b) == \A n \in a..b : c[n] \in Points

\* The length of a course over points c[a], ..., c[b] is not less than the distance
\* between its ends.
LEMMA CourseLength ==
  ASSUME NEW a \in Int, NEW b \in Int, a < b, NEW c, OverPoints(c, a, b)
  PROVE  /\ \E f : f = [l \in a..b |-> IF l = a THEN 0 ELSE f[l - 1] + Distance[c[l - 1]][c[l]]]
         /\ \A f : f = [l \in a..b |-> IF l = a THEN 0 ELSE f[l - 1] + Distance[c[l - 1]][c[l]]]
              => f[b] \in Nat /\ f[b] >= Distance[c[a]][c[b]]
<1> USE DEF OverPoints
<1> DEFINE D(n) == Distance[c[n - 1]][c[n]]
           W == [n \in a..b |-> {v \in Nat : (n = a => v = 0) /\ (n # a => v >= Distance[c[a]][c[n]])}]
<1>1. ASSUME NEW n \in a + 1..b, NEW v \in W[n - 1] PROVE v + D(n) \in W[n]
  <2>1. /\ n \in a..b /\ n - 1 \in a..b /\ n # a
        /\ c[a] \in Points /\ c[n - 1] \in Points /\ c[n] \in Points
    OBVIOUS
  <2>2. /\ D(n) \in Nat /\ Distance[c[a]][c[n - 1]] \in Nat /\ Distance[c[a]][c[n]] \in Nat
        /\ Distance[c[a]][c[n]] <= Distance[c[a]][c[n - 1]] + D(n)
    BY <2>1, DistanceAssumption
  <2>3. v \in Nat /\ (n - 1 = a => v = 0) /\ (n - 1 # a => v >= Distance[c[a]][c[n - 1]])
    BY <2>1
  <2>4. v + D(n) >= Distance[c[a]][c[n]]
    <3>1. CASE n - 1 = a
      BY <2>2, <2>3, <3>1
    <3>2. CASE n - 1 # a
      <4> HIDE DEF D
      <4>1. QED
        BY <2>2, <2>3, <3>2
    <3>3. QED
      BY <3>1, <3>2
  <2>5. QED
    BY <2>1, <2>2, <2>3, <2>4
<1>2. 0 \in W[a]
  OBVIOUS
<1> HIDE DEF W
<1>3. \E f : f = [l \in a..b |-> IF l = a THEN 0 ELSE f[l - 1] + D(l)]
  <2> DEFINE g == [n \in a + 1..b |-> [v \in W[n - 1] |-> v + D(n)]]
  <2>1. \A n \in a + 1..b : \A v \in W[n - 1] : g[n][v] \in W[n]
    BY <1>1
  <2>2. PICK h : /\ h = [n \in a..b |-> IF n = a THEN 0 ELSE g[n][h[n - 1]]]
                 /\ \A n \in a..b : h[n] \in W[n]
    <3> HIDE DEF g
    <3>1. StaysIn(W, a, b, 0, g)
      BY <1>2, <2>1 DEF StaysIn
    <3>2. a <= b
      OBVIOUS
    <3>3. QED
      BY <3>1, <3>2, Recursion
  <2>3. \A n \in a..b : n # a => g[n][h[n - 1]] = h[n - 1] + D(n)
    <3>1. \A n \in a..b : n # a => n \in a + 1..b /\ n - 1 \in a..b
      OBVIOUS
    <3> HIDE DEF D
    <3>2. QED
      BY <2>2, <3>1
  <2> HIDE DEF g, D
  <2>4. [n \in a..b |-> IF n = a THEN 0 ELSE g[n][h[n - 1]]]
          = [n \in a..b |-> IF n = a THEN 0 ELSE h[n - 1] + D(n)]
    BY <2>3
  <2>5. QED
    BY <2>2, <2>4
<1>4. ASSUME NEW f, f = [l \in a..b |-> IF l = a THEN 0 ELSE f[l - 1] + D(l)]
      PROVE  f[b] \in W[b]
  <2> DEFINE S == {n \in a..b : f[n] \in W[n]}
  <2> HIDE DEF D
  <2>1. a \in S
    BY <1>2, <1>4
  <2>2. ASSUME NEW n \in a + 1..b, n - 1 \in S PROVE n \in S
    <3>1. f[n] = f[n - 1] + D(n) /\ n \in a..b
      BY <1>4
    <3>2. QED
      BY <1>1, <2>2, <3>1
  <2> HIDE DEF S
  <2>3. b \in a..b
    OBVIOUS
  <2>4. Reaches(S, a, b)
    BY <2>1, <2>2 DEF Reaches
  <2>5. b \in S
    BY <2>3, <2>4, IntervalInduction
  <2>6. QED
    BY <2>5 DEF S
<1>5. W[b] \subseteq {v \in Nat : v >= Distance[c[a]][c[b]]}
  BY DEF W
<1>6. QED
  BY <1>3, <1>4, <1>5

------------------------------------------------------------------------------
(* Paths                                                                   *)

\* The way comes to the point of index a again after index b.
ComesBack(way, a, b) == \E j \in DOMAIN way.points : b < j /\ way.points[j] = way.points[a]

\* From index s of a way one gets to index t in a direction in which it may be used, or
\* there is a loop with both of them.
LeadsAlong(way, s, t) ==
  \/ way.area
  \/ IsCircular(way) /\ CanRoute(way)
  \/ s < t /\ way.forward
  \/ t < s /\ way.backward
  \/ s < t /\ way.backward /\ ComesBack(way, s, t)
  \/ t < s /\ way.forward /\ ComesBack(way, t, s)

\* So it is for the first indices of the points between which one gets along the way.
Passable(way, p, next) == LeadsAlong(way, IndexIn(way, p), IndexIn(way, next))

\* The index of a point is that of its first occurrence.
LEMMA FirstIndex ==
  ASSUME NEW way, WayOK(way), NEW j \in DOMAIN way.points
  PROVE  /\ IndexIn(way, way.points[j]) \in DOMAIN way.points
         /\ IndexIn(way, way.points[j]) <= j
         /\ way.points[IndexIn(way, way.points[j])] = way.points[j]
<1> DEFINE S == {at \in DOMAIN way.points : way.points[at] = way.points[j]}
<1>1. S \in SUBSET Nat /\ j \in S
  BY DEF WayOK
<1>2. IndexIn(way, way.points[j]) = Least(S)
  BY DEF IndexIn
<1> HIDE DEF S
<1>3. Least(S) \in S /\ Least(S) <= j
  BY <1>1, LeastOf
<1>4. QED
  BY <1>2, <1>3 DEF S

\* Whoever gets from index a to index b gets from indices of the same points before them,
\* or there is a loop.
LEMMA EarlierIndices ==
  ASSUME NEW way, WayOK(way), NEW a \in DOMAIN way.points, NEW b \in DOMAIN way.points,
         (a < b /\ way.forward) \/ (b < a /\ way.backward),
         NEW s \in DOMAIN way.points, NEW t \in DOMAIN way.points, s <= a, t <= b, s # t,
         way.points[s] = way.points[a], way.points[t] = way.points[b]
  PROVE  LeadsAlong(way, s, t)
<1>1. a \in Int /\ b \in Int /\ s \in Int /\ t \in Int
  BY DEF WayOK
<1>2. CASE a < b /\ way.forward
  <2>1. t < s => ComesBack(way, t, s)
    <3>1. s < b
      BY <1>1, <1>2
    <3>2. QED
      BY <3>1 DEF ComesBack
  <2>2. QED
    BY <1>1, <1>2, <2>1 DEF LeadsAlong
<1>3. CASE b < a /\ way.backward
  <2>1. s < t => ComesBack(way, s, t)
    <3>1. t < a
      BY <1>1, <1>3
    <3>2. QED
      BY <3>1 DEF ComesBack
  <2>2. QED
    BY <1>1, <1>3, <2>1 DEF LeadsAlong
<1>4. QED
  BY <1>2, <1>3

\* A path from p leads along a way at p that is in our graph, to another route node on
\* that way, over at least the distance there.
PathsFrom(roads, p) ==
  {path \in [to : Points, way : Nat, distance : Nat, usable : BOOLEAN, hasAccess : BOOLEAN] :
     /\ path.to \in RouteNodes(roads) \ {p}
     /\ path.way \in WaysAt(roads, p) \intersect WaysAt(roads, path.to)
     /\ path.distance >= Distance[p][path.to]
     /\ path.hasAccess = roads[path.way].hasAccess
     /\ path.usable => Passable(roads[path.way], p, path.to)}

\* A way that is in the graph of our vehicle.
InGraph(way) == CanRoute(way) \/ way.area

\* One path along a way, if it does not lead back to its own node, is fit for the graph.
LEMMA PathIsOfGraph ==
  ASSUME NEW roads, WaysOK(roads), NEW p \in Points, NEW k \in WaysAt(roads, p), InGraph(roads[k]),
         NEW next \in PointsOf(roads[k]), next = p \/ next \in Intersections(roads),
         NEW distance \in Nat, distance >= Distance[p][next], NEW usable \in BOOLEAN,
         usable /\ next # p => Passable(roads[k], p, next)
  PROVE  Path(roads, k, p, next, distance, usable) \in Seq(PathsFrom(roads, p))
<1>1. CASE next = p
  BY <1>1 DEF Path
<1>2. CASE next # p
  <2> DEFINE path == [to |-> next, way |-> k, distance |-> distance,
                      usable |-> usable, hasAccess |-> roads[k].hasAccess]
  <2>1. k \in DOMAIN roads /\ k \in Nat /\ roads[k].hasAccess \in BOOLEAN
    BY DEF WaysAt, WaysOK, WayOK
  <2>2. k \in WaysAt(roads, next)
    BY <2>1 DEF WaysAt
  <2>3. next \in RouteNodes(roads) /\ next \in Points
    BY <1>2, <2>2 DEF RouteNodes, InGraph, Intersections
  <2>4. path \in PathsFrom(roads, p)
    BY <1>2, <2>1, <2>2, <2>3 DEF PathsFrom
  <2>5. Path(roads, k, p, next, distance, usable) = <<path>>
    BY <1>2 DEF Path
  <2> HIDE DEF path
  <2>6. QED
    BY <2>4, <2>5
<1>3. QED
  BY <1>1, <1>2

\* Along a way it is no shorter than as the crow flies.
LEMMA LengthOfCourse ==
  ASSUME NEW way, WayOK(way), NEW a \in DOMAIN way.points, NEW b \in DOMAIN way.points, a < b
  PROVE  /\ Length(way, a, b) \in Nat
         /\ Length(way, a, b) >= Distance[way.points[a]][way.points[b]]
<1> DEFINE c == way.points
           F == CHOOSE f : f = [l \in a..b |-> IF l = a THEN 0 ELSE f[l - 1] + Distance[c[l - 1]][c[l]]]
<1>1. a \in Int /\ b \in Int /\ OverPoints(c, a, b)
  BY DEF WayOK, OverPoints
<1>2. Length(way, a, b) = F[b]
  BY DEF Length
<1> HIDE DEF c
<1>3. /\ \E f : f = [l \in a..b |-> IF l = a THEN 0 ELSE f[l - 1] + Distance[c[l - 1]][c[l]]]
      /\ \A f : f = [l \in a..b |-> IF l = a THEN 0 ELSE f[l - 1] + Distance[c[l - 1]][c[l]]]
              => f[b] \in Nat /\ f[b] >= Distance[c[a]][c[b]]
  BY <1>1, CourseLength
<1>4. F = [l \in a..b |-> IF l = a THEN 0 ELSE F[l - 1] + Distance[c[l - 1]][c[l]]]
  BY <1>3
<1> HIDE DEF F
<1>5. F[b] \in Nat /\ F[b] >= Distance[c[a]][c[b]]
  BY <1>3, <1>4
<1>6. QED
  BY <1>2, <1>5 DEF c

\* It is as far there as back.
LEMMA DistanceIsSymmetric ==
  \A p, q \in Points : Distance[p][q] = Distance[q][p] /\ Distance[p][q] \in Nat
  BY DistanceAssumption

\* The paths along an open way from one of its indices are fit for the graph.
LEMMA WayPathsAtAreOfGraph ==
  ASSUME NEW roads, WaysOK(roads), NEW k \in DOMAIN roads, CanRoute(roads[k]),
         NEW at \in DOMAIN roads[k].points
  PROVE  WayPathsAt(roads, k, at) \in Seq(PathsFrom(roads, roads[k].points[at]))
<1> DEFINE way    == roads[k]
           p      == way.points[at]
           stops  == {j \in DOMAIN way.points : way.points[j] \in Intersections(roads)}
           before == {j \in stops : j < at}
           after  == {j \in stops : j > at}
           To(j)  == IF j < at THEN Path(roads, k, p, way.points[j], Length(way, j, at), way.backward)
                              ELSE Path(roads, k, p, way.points[j], Length(way, at, j), way.forward)
<1>1. /\ WayOK(way) /\ DOMAIN way.points = 1..Len(way.points) /\ Len(way.points) \in Nat
      /\ k \in WaysAt(roads, p) /\ p \in Points /\ InGraph(way) /\ at \in DOMAIN way.points
  BY DEF WaysOK, WayOK, WaysAt, PointsOf, InGraph
<1>2. ASSUME NEW j \in DOMAIN way.points, way.points[j] # p,
             (at < j /\ way.forward) \/ (j < at /\ way.backward)
      PROVE  Passable(way, p, way.points[j])
  <2> DEFINE s == IndexIn(way, p)
             t == IndexIn(way, way.points[j])
  <2>1. /\ s \in DOMAIN way.points /\ s <= at /\ way.points[s] = p
        /\ t \in DOMAIN way.points /\ t <= j /\ way.points[t] = way.points[j]
    BY <1>1, FirstIndex
  <2> HIDE DEF s, t, way
  <2>2. LeadsAlong(way, s, t)
    BY <1>1, <1>2, <2>1, EarlierIndices
  <2>3. QED
    BY <2>2 DEF Passable, s, t
<1>3. ASSUME NEW j \in stops, j # at PROVE To(j) \in Seq(PathsFrom(roads, p))
  <2>1. /\ way.points[j] \in PointsOf(way) /\ way.points[j] \in Intersections(roads)
        /\ way.points[j] \in Points /\ j \in DOMAIN way.points
        /\ way.forward \in BOOLEAN /\ way.backward \in BOOLEAN
    BY <1>1 DEF PointsOf, WayOK
  <2>2. CASE j < at
    <3>1. Length(way, j, at) \in Nat /\ Length(way, j, at) >= Distance[way.points[j]][p]
      BY <1>1, <2>1, <2>2, LengthOfCourse
    <3>2. Length(way, j, at) >= Distance[p][way.points[j]]
      BY <1>1, <2>1, <3>1, DistanceIsSymmetric
    <3>3. way.backward /\ way.points[j] # p => Passable(way, p, way.points[j])
      BY <1>2, <2>2
    <3>4. Path(roads, k, p, way.points[j], Length(way, j, at), way.backward) \in Seq(PathsFrom(roads, p))
      BY <1>1, <2>1, <3>1, <3>2, <3>3, PathIsOfGraph
    <3>5. QED
      BY <2>2, <3>4
  <2>3. CASE ~(j < at)
    <3>1. Length(way, at, j) \in Nat /\ Length(way, at, j) >= Distance[p][way.points[j]]
      BY <1>1, <1>3, <2>1, <2>3, LengthOfCourse
    <3>2. way.forward /\ way.points[j] # p => Passable(way, p, way.points[j])
      <4>1. at < j
        BY <1>1, <1>3, <2>1, <2>3
      <4>2. QED
        BY <1>2, <4>1
    <3>3. Path(roads, k, p, way.points[j], Length(way, at, j), way.forward) \in Seq(PathsFrom(roads, p))
      BY <1>1, <2>1, <3>1, <3>2, PathIsOfGraph
    <3>4. QED
      BY <2>3, <3>3
  <2>4. QED
    BY <2>2, <2>3
<1>4. before # {} => To(Greatest(before)) \in Seq(PathsFrom(roads, p))
  <2>1. before \in SUBSET Nat /\ (\A j \in before : j <= at) /\ at \in Nat
    BY <1>1
  <2>2. before # {} => Greatest(before) \in stops /\ Greatest(before) # at
    <3> HIDE DEF before
    <3>1. before # {} => Greatest(before) \in before
      BY <2>1, GreatestOf
    <3>2. QED
      BY <3>1, <2>1 DEF before
  <2> HIDE DEF To, stops, before, p
  <2>3. QED
    BY <1>3, <2>2
<1>5. after # {} => To(Least(after)) \in Seq(PathsFrom(roads, p))
  <2>1. after \in SUBSET Nat
    BY <1>1
  <2>2. after # {} => Least(after) \in stops /\ Least(after) # at
    BY <2>1, LeastOf
  <2> HIDE DEF To, stops, after, p
  <2>3. QED
    BY <1>3, <2>2
<1>6. WayPathsAt(roads, k, at) =
        (IF (way.backward \/ way.others) /\ before # {} THEN To(Greatest(before)) ELSE <<>>)
        \o (IF (way.forward \/ way.others) /\ after # {} THEN To(Least(after)) ELSE <<>>)
  BY DEF WayPathsAt
<1> DEFINE back  == IF (way.backward \/ way.others) /\ before # {} THEN To(Greatest(before)) ELSE <<>>
           ahead == IF (way.forward \/ way.others) /\ after # {} THEN To(Least(after)) ELSE <<>>
<1> HIDE DEF To, before, after, way, p
<1>7. back \in Seq(PathsFrom(roads, p)) /\ ahead \in Seq(PathsFrom(roads, p))
  BY <1>4, <1>5
<1> HIDE DEF back, ahead
<1>8. back \o ahead \in Seq(PathsFrom(roads, p))
  BY <1>7
<1>9. QED
  BY <1>6, <1>8 DEF p, way, back, ahead

\* A sequence that is put together part by part.
LEMMA Joined ==
  ASSUME NEW m \in Nat, NEW S, NEW part, \A n \in 1..m : part[n] \in Seq(S)
  PROVE  /\ \E f : f = [n \in 0..m |-> IF n = 0 THEN <<>> ELSE f[n - 1] \o part[n]]
         /\ \A f : f = [n \in 0..m |-> IF n = 0 THEN <<>> ELSE f[n - 1] \o part[n]]
              => \A n \in 0..m : f[n] \in Seq(S)
<1> DEFINE W == [n \in 0..m |-> Seq(S)]
           g == [n \in 1..m |-> [v \in Seq(S) |-> v \o part[n]]]
<1>1. \A n \in 1..m : \A v \in Seq(S) : v \o part[n] \in Seq(S)
  OBVIOUS
<1>2. \E f : f = [n \in 0..m |-> IF n = 0 THEN <<>> ELSE f[n - 1] \o part[n]]
  <2>1. StaysIn(W, 0, m, <<>>, g)
    <3>1. \A n \in 0 + 1..m : n \in 1..m /\ n - 1 \in 0..m /\ n \in 0..m
      OBVIOUS
    <3>2. \A n \in 1..m : \A v \in Seq(S) : g[n][v] = v \o part[n]
      OBVIOUS
    <3> HIDE DEF g
    <3>3. \A n \in 0 + 1..m : \A v \in W[n - 1] : g[n][v] \in W[n]
      BY <1>1, <3>1, <3>2
    <3>4. <<>> \in W[0]
      OBVIOUS
    <3>5. QED
      BY <3>3, <3>4 DEF StaysIn
  <2> HIDE DEF g, W
  <2>2. PICK h : /\ h = [n \in 0..m |-> IF n = 0 THEN <<>> ELSE g[n][h[n - 1]]]
                 /\ \A n \in 0..m : h[n] \in W[n]
    BY <2>1, Recursion
  <2>3. \A n \in 0..m : n # 0 => g[n][h[n - 1]] = h[n - 1] \o part[n]
    <3>1. \A n \in 0..m : n # 0 => n \in 1..m /\ n - 1 \in 0..m
      OBVIOUS
    <3>2. \A n \in 0..m : h[n] \in Seq(S)
      BY <2>2 DEF W
    <3>3. QED
      BY <3>1, <3>2 DEF g
  <2>4. [n \in 0..m |-> IF n = 0 THEN <<>> ELSE g[n][h[n - 1]]]
          = [n \in 0..m |-> IF n = 0 THEN <<>> ELSE h[n - 1] \o part[n]]
    BY <2>3
  <2>5. QED
    BY <2>2, <2>4
<1>3. ASSUME NEW f, f = [n \in 0..m |-> IF n = 0 THEN <<>> ELSE f[n - 1] \o part[n]]
      PROVE  \A n \in 0..m : f[n] \in Seq(S)
  <2> DEFINE T == {n \in 0..m : f[n] \in Seq(S)}
  <2>1. 0 \in T
    BY <1>3
  <2>2. ASSUME NEW n \in 0 + 1..m, n - 1 \in T PROVE n \in T
    <3>1. n \in 0..m /\ n \in 1..m /\ n # 0
      OBVIOUS
    <3>2. f[n] = f[n - 1] \o part[n]
      BY <1>3, <3>1
    <3>3. QED
      BY <1>1, <2>2, <3>1, <3>2
  <2> HIDE DEF T
  <2>3. Reaches(T, 0, m)
    BY <2>1, <2>2 DEF Reaches
  <2>4. \A n \in 0..m : n \in T
    BY <2>3, IntervalInduction
  <2>5. QED
    BY <2>4 DEF T
<1>4. QED
  BY <1>2, <1>3

\* So are those from every index at which the way has the node.
LEMMA WayPathsAreOfGraph ==
  ASSUME NEW roads, WaysOK(roads), NEW p \in Points, NEW k \in WaysAt(roads, p), CanRoute(roads[k])
  PROVE  WayPaths(roads, k, p) \in Seq(PathsFrom(roads, p))
<1> DEFINE m == Len(roads[k].points)
           part == [n \in 1..m |-> IF roads[k].points[n] = p THEN WayPathsAt(roads, k, n) ELSE <<>>]
           A(f) == [n \in 0..m |->
                      IF n = 0 THEN <<>>
                      ELSE f[n - 1] \o (IF roads[k].points[n] = p THEN WayPathsAt(roads, k, n) ELSE <<>>)]
           B(f) == [n \in 0..m |-> IF n = 0 THEN <<>> ELSE f[n - 1] \o part[n]]
           F == CHOOSE f : f = A(f)
<1>1. m \in Nat /\ k \in DOMAIN roads /\ DOMAIN roads[k].points = 1..m
  BY DEF WaysAt, WaysOK, WayOK
<1>2. \A n \in 1..m : part[n] \in Seq(PathsFrom(roads, p))
  BY <1>1, WayPathsAtAreOfGraph
<1>3. WayPaths(roads, k, p) = F[m]
  BY DEF WayPaths
<1>4. \A f : A(f) = B(f)
  <2>1. \A n \in 0..m : n # 0 =>
          (IF roads[k].points[n] = p THEN WayPathsAt(roads, k, n) ELSE <<>>) = part[n]
    BY <1>1
  <2> HIDE DEF part, m
  <2>2. QED
    BY <2>1
<1> HIDE DEF part, m
<1>5. /\ \E f : f = B(f)
      /\ \A f : f = B(f) => \A n \in 0..m : f[n] \in Seq(PathsFrom(roads, p))
  BY <1>1, <1>2, Joined
<1> HIDE DEF A, B
<1>6. F = B(F)
  BY <1>4, <1>5
<1> HIDE DEF F
<1>7. F[m] \in Seq(PathsFrom(roads, p))
  BY <1>1, <1>5, <1>6
<1>8. QED
  BY <1>3, <1>7

\* Counting around n points.
LEMMA Wrapped ==
  ASSUME NEW n \in Nat \ {0}
  PROVE  /\ \A j \in Int : ((j - 1) % n) + 1 \in 1..n
         /\ \A j \in 1..n : ((j - 1) % n) + 1 = j
         /\ \A j \in 1..n : ((j + n - 1) % n) + 1 = j /\ ((j - n - 1) % n) + 1 = j
<1>1. \A j \in Int : (j - 1) % n \in 0..n - 1
  OBVIOUS
<1>2. \A j \in 1..n : (j - 1) % n = j - 1
  OBVIOUS
<1>3. \A j \in 1..n : (j + n - 1) % n = j - 1 /\ (j - n - 1) % n = j - 1
  OBVIOUS
<1>4. QED
  BY <1>1, <1>2, <1>3

\* So are the paths around a circular way or an area.
LEMMA CircularWayPathsAreOfGraph ==
  ASSUME NEW roads, WaysOK(roads), NEW p \in Points, NEW k \in WaysAt(roads, p),
         roads[k].area \/ (IsCircular(roads[k]) /\ CanRoute(roads[k])), NEW others
  PROVE  CircularWayPaths(roads, k, p, others) \in Seq(PathsFrom(roads, p))
<1> DEFINE way     == roads[k]
           n       == Len(way.points)
           at       == IndexIn(way, p)
           Wrap(j) == ((j - 1) % n) + 1
           Stops(j) == Wrap(j) = at \/ way.points[Wrap(j)] \in Intersections(roads)
           up      == Least({s \in 1..n : Stops(at + s)})
           down    == Least({s \in 1..n : Stops(at - s)})
           next    == IF way.forward \/ others THEN Wrap(at + up) ELSE at + 1
           Course(f, s, d) == [l \in 0..s |->
              IF l = 0 THEN 0
              ELSE f[l - 1] + Distance[way.points[Wrap(at + d * (l - 1))]][way.points[Wrap(at + d * l)]]]
           Around(s, d) == (CHOOSE f : f = Course(f, s, d))[s]
<1>1. /\ WayOK(way) /\ way.points \in Seq(Points) /\ n \in Nat /\ DOMAIN way.points = 1..n
      /\ p \in PointsOf(way) /\ way.forward \in BOOLEAN /\ way.backward \in BOOLEAN
      /\ InGraph(way) /\ (way.area \/ (IsCircular(way) /\ CanRoute(way)))
  BY DEF WaysAt, WaysOK, WayOK, InGraph
<1> HIDE DEF way
<1>2. at \in 1..n /\ way.points[at] = p /\ n \in Nat \ {0}
  BY <1>1, IndexOfPoint
<1> HIDE DEF at, n
<1>3. /\ \A j \in Int : Wrap(j) \in 1..n /\ way.points[Wrap(j)] \in Points
      /\ Wrap(at) = at /\ Wrap(at + n) = at /\ Wrap(at - n) = at
  BY <1>1, <1>2, Wrapped
<1> HIDE DEF Wrap
<1>4. up \in 1..n /\ Stops(at + up) /\ down \in 1..n /\ Stops(at - down)
  <2> DEFINE U == {s \in 1..n : Stops(at + s)}
             V == {s \in 1..n : Stops(at - s)}
  <2>1. U \in SUBSET Nat /\ n \in U /\ V \in SUBSET Nat /\ n \in V
    BY <1>2, <1>3
  <2> HIDE DEF U, V
  <2>2. Least(U) \in U /\ Least(V) \in V
    BY <2>1, LeastOf
  <2>3. QED
    BY <2>2 DEF U, V
<1>5. ASSUME NEW s \in 1..n, NEW d \in {1, -1}
      PROVE  Around(s, d) \in Nat /\ Around(s, d) >= Distance[p][way.points[Wrap(at + d * s)]]
  <2> DEFINE c == [l \in 0..s |-> way.points[Wrap(at + d * l)]]
             B(f) == [l \in 0..s |-> IF l = 0 THEN 0 ELSE f[l - 1] + Distance[c[l - 1]][c[l]]]
             F == CHOOSE f : f = Course(f, s, d)
  <2>1. /\ \A l \in 0..s : c[l] \in Points
        /\ c[0] = p /\ c[s] = way.points[Wrap(at + d * s)]
    <3>1. \A l \in 0..s : at + d * l \in Int
      BY <1>2
    <3>2. at + d * 0 = at /\ 0 \in 0..s /\ s \in 0..s
      BY <1>2
    <3>3. QED
      BY <1>2, <1>3, <3>1, <3>2
  <2>2. \A f : Course(f, s, d) = B(f)
    <3>1. \A l \in 0..s : l # 0 =>
            /\ c[l - 1] = way.points[Wrap(at + d * (l - 1))]
            /\ c[l] = way.points[Wrap(at + d * l)]
      OBVIOUS
    <3> HIDE DEF c
    <3>2. QED
      BY <3>1
  <2> HIDE DEF c
  <2>3. /\ \E f : f = B(f)
        /\ \A f : f = B(f) => f[s] \in Nat /\ f[s] >= Distance[c[0]][c[s]]
    <3>1. 0 \in Int /\ s \in Int /\ 0 < s /\ OverPoints(c, 0, s)
      BY <1>2, <2>1 DEF OverPoints
    <3>2. QED
      BY <3>1, CourseLength
  <2> HIDE DEF B, Course
  <2>4. F = B(F)
    BY <2>2, <2>3
  <2> HIDE DEF F
  <2>5. F[s] \in Nat /\ F[s] >= Distance[c[0]][c[s]]
    BY <2>3, <2>4
  <2>6. QED
    BY <2>1, <2>5 DEF F
<1>6. ASSUME NEW j \in Int, Stops(j), NEW distance \in Nat, distance >= Distance[p][way.points[Wrap(j)]],
             NEW usable \in BOOLEAN
      PROVE  Path(roads, k, p, way.points[Wrap(j)], distance, usable) \in Seq(PathsFrom(roads, p))
  <2>1. way.points[Wrap(j)] \in PointsOf(way)
    BY <1>1, <1>3 DEF PointsOf
  <2>2. way.points[Wrap(j)] = p \/ way.points[Wrap(j)] \in Intersections(roads)
    BY <1>2, <1>6
  <2>3. Passable(way, p, way.points[Wrap(j)])
    BY <1>1 DEF Passable, LeadsAlong
  <2>4. QED
    BY <1>1, <1>6, <2>1, <2>2, <2>3, PathIsOfGraph DEF way
<1> DEFINE ahead == IF way.forward \/ others
                      THEN Path(roads, k, p, way.points[Wrap(at + up)], Around(up, 1), way.forward) ELSE <<>>
           back  == IF (way.backward \/ others) /\ Wrap(at - down) # next
                      THEN Path(roads, k, p, way.points[Wrap(at - down)], Around(down, -1), way.backward)
                      ELSE <<>>
<1>7. CircularWayPaths(roads, k, p, others) = ahead \o back
  BY DEF CircularWayPaths, way, at, n, Wrap
<1> HIDE DEF Around, Stops, up, down, next
<1>8. ahead \in Seq(PathsFrom(roads, p)) /\ back \in Seq(PathsFrom(roads, p))
  <2>1. at + up = at + 1 * up /\ at - down = at + (-1) * down /\ at + up \in Int /\ at - down \in Int
    BY <1>2, <1>4
  <2>2. /\ Around(up, 1) \in Nat /\ Around(up, 1) >= Distance[p][way.points[Wrap(at + up)]]
        /\ Around(down, -1) \in Nat /\ Around(down, -1) >= Distance[p][way.points[Wrap(at - down)]]
    BY <1>4, <1>5, <2>1
  <2>3. Path(roads, k, p, way.points[Wrap(at + up)], Around(up, 1), way.forward) \in Seq(PathsFrom(roads, p))
    BY <1>1, <1>4, <1>6, <2>1, <2>2
  <2>4. Path(roads, k, p, way.points[Wrap(at - down)], Around(down, -1), way.backward) \in Seq(PathsFrom(roads, p))
    BY <1>1, <1>4, <1>6, <2>1, <2>2
  <2>5. QED
    BY <2>3, <2>4
<1> HIDE DEF ahead, back
<1>9. QED
  BY <1>7, <1>8

\* Every path of a route node is one of the graph.
LEMMA PathsAreOfGraph ==
  ASSUME NEW roads, WaysOK(roads), NEW p \in Points
  PROVE  Paths(roads, p) \in Seq(PathsFrom(roads, p))
<1> DEFINE m == Len(roads)
           Along(k) == IF k \notin WaysAt(roads, p) THEN <<>>
                       ELSE IF roads[k].area THEN AreaPaths(roads, k, p)
                       ELSE IF ~CanRoute(roads[k]) THEN <<>>
                       ELSE IF IsCircular(roads[k]) THEN CircularWayPaths(roads, k, p, roads[k].others)
                       ELSE WayPaths(roads, k, p)
           part == [k \in 1..m |-> Along(k)]
           A(f) == [k \in 0..m |-> IF k = 0 THEN <<>> ELSE f[k - 1] \o Along(k)]
           B(f) == [k \in 0..m |-> IF k = 0 THEN <<>> ELSE f[k - 1] \o part[k]]
           F == CHOOSE f : f = A(f)
<1>1. m \in Nat
  BY DEF WaysOK
<1>2. \A k \in 1..m : part[k] \in Seq(PathsFrom(roads, p))
  <2> SUFFICES ASSUME NEW k \in 1..m PROVE Along(k) \in Seq(PathsFrom(roads, p))
    OBVIOUS
  <2>1. CASE k \notin WaysAt(roads, p)
    BY <2>1
  <2>2. CASE k \in WaysAt(roads, p) /\ roads[k].area
    <3>1. CircularWayPaths(roads, k, p, TRUE) \in Seq(PathsFrom(roads, p))
      BY <2>2, CircularWayPathsAreOfGraph
    <3>2. QED
      BY <2>2, <3>1 DEF AreaPaths
  <2>3. CASE k \in WaysAt(roads, p) /\ ~roads[k].area /\ CanRoute(roads[k])
    <3>1. IsCircular(roads[k]) => CircularWayPaths(roads, k, p, roads[k].others) \in Seq(PathsFrom(roads, p))
      BY <2>3, CircularWayPathsAreOfGraph
    <3>2. WayPaths(roads, k, p) \in Seq(PathsFrom(roads, p))
      BY <2>3, WayPathsAreOfGraph
    <3>3. QED
      BY <2>3, <3>1, <3>2
  <2>4. CASE k \in WaysAt(roads, p) /\ ~roads[k].area /\ ~CanRoute(roads[k])
    BY <2>4
  <2>5. QED
    BY <2>1, <2>2, <2>3, <2>4
<1>3. Paths(roads, p) = F[m]
  BY DEF Paths
<1> HIDE DEF Along
<1>4. \A f : A(f) = B(f)
  OBVIOUS
<1> HIDE DEF part, m
<1>5. /\ \E f : f = B(f)
      /\ \A f : f = B(f) => \A k \in 0..m : f[k] \in Seq(PathsFrom(roads, p))
  BY <1>1, <1>2, Joined
<1> HIDE DEF A, B
<1>6. F = B(F)
  BY <1>4, <1>5
<1> HIDE DEF F
<1>7. F[m] \in Seq(PathsFrom(roads, p))
  BY <1>1, <1>5, <1>6
<1>8. QED
  BY <1>3, <1>7

------------------------------------------------------------------------------
(* Maps and their graphs                                                   *)

\* The ways of every map are ways.
LEMMA WaysOfNetwork ==
  ASSUME NEW n \in Networks
  PROVE  /\ WaysOK(n.ways)
         /\ \A k \in DOMAIN n.ways : n.ways[k].area \in BOOLEAN /\ n.ways[k].factor \in Nat
<1>1. /\ n.ways \in Seq({n.ways[k] : k \in DOMAIN n.ways})
      /\ \A k \in DOMAIN n.ways :
           /\ n.ways[k].points \in Seq(Points)
           /\ n.ways[k].forward \in BOOLEAN /\ n.ways[k].backward \in BOOLEAN
           /\ n.ways[k].hasAccess \in BOOLEAN /\ n.ways[k].area \in BOOLEAN
           /\ n.ways[k].factor \in Nat
  BY NetworksAssumption
<1>2. Len(n.ways) \in Nat /\ DOMAIN n.ways = 1..Len(n.ways)
  BY <1>1
<1>3. QED
  BY <1>1, <1>2 DEF WaysOK, WayOK

\* A place is the first occurrence of a point in a way.
IsPlace(place) ==
  /\ place.way \in DOMAIN ways /\ place.index \in DOMAIN ways[place.way].points
  /\ place.index = IndexIn(ways[place.way], ways[place.way].points[place.index])

\* The files and the places do not change.
MapInv ==
  /\ network \in Networks
  /\ graph = RouteGraph(ways, network.restrictions)
  /\ IsPlace(from) /\ IsPlace(to)

\* The graph of a map has a node for every route node, with its paths and excludes.
LEMMA GraphOfMap ==
  ASSUME MapInv
  PROVE  /\ WaysOK(ways) /\ \A k \in DOMAIN ways : ways[k].factor \in Nat
         /\ DOMAIN graph = RouteNodes(ways) /\ DOMAIN graph \subseteq Points
         /\ \A p \in DOMAIN graph :
              /\ graph[p].paths = Paths(ways, p)
              /\ graph[p].paths \in Seq(PathsFrom(ways, p))
              /\ graph[p].excludes = Excludes(ways, network.restrictions, p, Paths(ways, p))
<1>1. WaysOK(ways) /\ \A k \in DOMAIN ways : ways[k].factor \in Nat
  BY WaysOfNetwork DEF MapInv, ways
<1>2. RouteNodes(ways) \subseteq Points
  BY DEF RouteNodes, Intersections
<1>3. \A p \in Points : Paths(ways, p) \in Seq(PathsFrom(ways, p))
  BY <1>1, PathsAreOfGraph
<1>4. /\ DOMAIN graph = RouteNodes(ways)
      /\ \A p \in RouteNodes(ways) :
           /\ graph[p].paths = Paths(ways, p)
           /\ graph[p].excludes = Excludes(ways, network.restrictions, p, Paths(ways, p))
  BY DEF MapInv, RouteGraph
<1>5. QED
  BY <1>1, <1>2, <1>3, <1>4

\* What the path with index k of route node p is like.
LEMMA PathOfGraph ==
  ASSUME MapInv, NEW p \in DOMAIN graph, NEW k \in DOMAIN graph[p].paths
  PROVE  /\ p \in Points /\ graph[p].paths[k] \in PathsFrom(ways, p)
         /\ graph[p].paths[k].to \in DOMAIN graph \ {p}
         /\ graph[p].paths[k].way \in DOMAIN ways
         /\ p \in PointsOf(ways[graph[p].paths[k].way])
         /\ graph[p].paths[k].to \in PointsOf(ways[graph[p].paths[k].way])
         /\ graph[p].paths[k].hasAccess = ways[graph[p].paths[k].way].hasAccess
         /\ graph[p].paths[k].hasAccess \in BOOLEAN
         /\ graph[p].paths[k].distance \in Nat
         /\ graph[p].paths[k].distance >= Distance[p][graph[p].paths[k].to]
         /\ PathCost(graph[p].paths[k]) \in Nat
         /\ graph[p].paths[k].usable => Passable(ways[graph[p].paths[k].way], p, graph[p].paths[k].to)
<1> DEFINE path == graph[p].paths[k]
<1>1. p \in Points /\ path \in PathsFrom(ways, p)
  <2>1. graph[p].paths \in Seq(PathsFrom(ways, p))
    BY GraphOfMap
  <2>2. QED
    BY <2>1, GraphOfMap
<1> HIDE DEF path
<1>2. /\ path.to \in RouteNodes(ways) \ {p}
      /\ path.way \in WaysAt(ways, p) \intersect WaysAt(ways, path.to)
      /\ path.hasAccess = ways[path.way].hasAccess /\ path.hasAccess \in BOOLEAN
      /\ path.distance \in Nat /\ path.distance >= Distance[p][path.to]
      /\ path.usable => Passable(ways[path.way], p, path.to)
  BY <1>1 DEF PathsFrom
<1>3. path.way \in DOMAIN ways /\ p \in PointsOf(ways[path.way]) /\ path.to \in PointsOf(ways[path.way])
  BY <1>2 DEF WaysAt
<1>4. path.to \in DOMAIN graph \ {p} /\ ways[path.way].factor \in Nat
  BY <1>2, <1>3, GraphOfMap
<1>5. PathCost(path) \in Nat
  <2>1. \A a, b \in Nat : a * b \in Nat
    OBVIOUS
  <2>2. QED
    BY <1>2, <1>4, <2>1 DEF PathCost
<1>6. QED
  BY <1>1, <1>2, <1>3, <1>4, <1>5 DEF path

\* A turn that is not excluded is allowed.
LEMMA TurnsAreExcluded ==
  ASSUME MapInv, TurnsCanBeExcluded(network),
         NEW p \in DOMAIN graph, NEW k \in DOMAIN graph[p].paths,
         NEW source \in WaysAt(ways, p), source # graph[p].paths[k].way,
         [source |-> source, targetIndex |-> k] \notin graph[p].excludes
  PROVE  CanTurn(network.restrictions, p, source, graph[p].paths[k].way)
<1> DEFINE paths == Paths(ways, p)
           t     == paths[k].way
           at    == {l \in WaysAt(ways, p) : ~ways[l].area}
           Along(l) == {j \in DOMAIN paths : paths[j].way = l}
           pairs == {u \in at \X at : /\ u[1] # u[2]
                                      /\ ~CanTurn(network.restrictions, p, u[1], u[2])
                                      /\ Along(u[2]) # {}}
<1>1. /\ p \in RouteNodes(ways) /\ graph[p].paths = paths
      /\ graph[p].excludes = Excludes(ways, network.restrictions, p, paths)
  BY GraphOfMap
<1>2. t \in WaysAt(ways, p)
  BY <1>1, PathOfGraph DEF WaysAt
<1>3. graph[p].excludes = {[source |-> u[1], targetIndex |-> Least(Along(u[2]))] : u \in pairs}
  BY <1>1 DEF Excludes
<1> SUFFICES ASSUME ~CanTurn(network.restrictions, p, source, t) PROVE FALSE
  BY <1>1
<1>4. /\ ~ways[source].area /\ ~ways[t].area
      /\ \A j, l \in DOMAIN paths : paths[j].way = t /\ paths[l].way = t => j = l
  <2>1. source # t /\ p \in RouteNodes(network.ways)
        /\ source \in WaysAt(network.ways, p) /\ t \in WaysAt(network.ways, p)
    BY <1>1, <1>2 DEF ways
  <2> HIDE DEF t
  <2>2. /\ ~network.ways[source].area /\ ~network.ways[t].area
        /\ \A j, l \in DOMAIN Paths(network.ways, p) :
             Paths(network.ways, p)[j].way = t /\ Paths(network.ways, p)[l].way = t => j = l
    BY <2>1 DEF TurnsCanBeExcluded
  <2>3. QED
    BY <2>2 DEF ways
<1>5. Along(t) = {k}
  <2>1. k \in DOMAIN paths
    BY <1>1
  <2>2. QED
    BY <1>4, <2>1
<1>6. Least({k}) = k
  <2>1. k \in Nat
    BY <1>1, GraphOfMap
  <2>2. QED
    BY <2>1 DEF Least
<1>7. <<source, t>> \in pairs
  BY <1>1, <1>2, <1>4, <1>5
<1> DEFINE u == <<source, t>>
<1> HIDE DEF pairs
<1>8. [source |-> u[1], targetIndex |-> Least(Along(u[2]))] \in graph[p].excludes
  BY <1>3, <1>7
<1>9. [source |-> u[1], targetIndex |-> Least(Along(u[2]))] = [source |-> source, targetIndex |-> k]
  BY <1>5, <1>6
<1>10. QED
  BY <1>8, <1>9

------------------------------------------------------------------------------
(* The nodes of the search                                                 *)

RNode ==
  {n \in [node : DOMAIN graph, prev : Points \union {NoNode}, object : DOMAIN ways,
          currentCost : Nat, estimateCost : Nat, access : BOOLEAN] :
     n.node \in PointsOf(ways[n.object])}

\* From which node the search may go on to which.
Moves == {m \in RNode \X RNode : MayGoOn(m[1], m[2])}

Keyed(map) == \A p \in DOMAIN map : map[p] \in RNode /\ map[p].node = p

\* The nodes that start the search or come after one of P.
After(P) == StartNodes \union {n \in RNode : \E a \in P : a.node = n.prev /\ <<a, n>> \in Moves}

Closed == {closeMap[p] : p \in DOMAIN closeMap}
Passed == IF pc = "paths" THEN Closed \union {current} ELSE Closed

\* The set and the maps have the same nodes, none is both open and closed, and the
\* current one is in neither until it is closed.
ListsInv ==
  /\ Keyed(openMap) /\ Keyed(closeMap)
  /\ openList = {openMap[p] : p \in DOMAIN openMap}
  /\ DOMAIN openMap \intersect DOMAIN closeMap = {}
  /\ pc = "paths" => /\ current \in RNode
                     /\ current.node \notin DOMAIN openMap \union DOMAIN closeMap
                     /\ i \in Nat \ {0}
  /\ pc = "resolve" \/ result = "true" =>
       current.node \in DOMAIN closeMap /\ closeMap[current.node] = current
  /\ pc = "start" => openMap = NoMap /\ closeMap = NoMap
  /\ pc \in {"start", "take", "paths", "resolve", "done"}
  /\ pc # "done" => result = "none"
  /\ pc # "start" => targets = TargetNodes

\* Every node came from one the search is through with, or may be gone through now.
LegalInv ==
  /\ pc # "done" => \A p \in DOMAIN openMap : openMap[p] \in After(Passed)
  /\ \A p \in DOMAIN closeMap : closeMap[p] \in After(Closed)
  /\ pc = "paths" => current \in After(Closed)

\* What leads to the nodes of a map.
Leading(f, map) ==
  f = [p \in DOMAIN map |-> IF map[p].prev = NoNode THEN <<map[p]>>
                            ELSE Append(f[map[p].prev], map[p])]

LegalChains ==
  {s \in Seq(RNode) : /\ s # <<>> /\ s[1] \in StartNodes
                      /\ \A j \in 1..Len(s) - 1 : <<s[j], s[j + 1]>> \in Moves}

ChainInv ==
  /\ \E f : Leading(f, closeMap)
  /\ \A f : Leading(f, closeMap) =>
       \A p \in DOMAIN closeMap : f[p] \in LegalChains /\ f[p][Len(f[p])] = closeMap[p]

\* What depends on the map alone does not change.
LEMMA MapUnchanged ==
  ASSUME UNCHANGED mapVars
  PROVE  /\ ways' = ways /\ RNode' = RNode /\ StartNodes' = StartNodes /\ Moves' = Moves
         /\ TargetNodes' = TargetNodes /\ LegalChains' = LegalChains
         /\ MapInv' <=> MapInv
<1>1. network' = network /\ graph' = graph /\ from' = from /\ to' = to
  BY DEF mapVars
<1>2. ways' = ways
  BY <1>1 DEF ways
<1>3. RNode' = RNode
  BY <1>1, <1>2 DEF RNode
<1>4. TargetNodes' = TargetNodes
  BY <1>1, <1>2 DEF TargetNodes, NodeBefore, NodeAfter, Forward, Backward, PointAt
<1>5. StartNodes' = StartNodes
  BY <1>1, <1>2 DEF StartNodes, StartNode, EstimateCost, NodeBefore, NodeAfter, Forward, Backward, PointAt
<1>6. Moves' = Moves
  BY <1>1, <1>2, <1>3 DEF Moves, MayGoOn, PathCost
<1>7. LegalChains' = LegalChains
  BY <1>3, <1>5, <1>6 DEF LegalChains
<1>8. MapInv' <=> MapInv
  BY <1>1, <1>2 DEF MapInv, IsPlace
<1>9. QED
  BY <1>2, <1>3, <1>4, <1>5, <1>6, <1>7, <1>8

\* A place is a point of its way.
LEMMA PointOfPlace ==
  ASSUME MapInv, NEW place, IsPlace(place)
  PROVE  /\ place.way \in DOMAIN ways /\ ways[place.way].points \in Seq(Points)
         /\ PointAt(place) \in Points /\ PointAt(place) \in PointsOf(ways[place.way])
<1>1. place.way \in DOMAIN ways /\ place.index \in DOMAIN ways[place.way].points
  BY DEF IsPlace
<1>2. ways[place.way].points \in Seq(Points)
  BY <1>1, GraphOfMap DEF WaysOK, WayOK
<1>3. QED
  BY <1>1, <1>2 DEF PointAt, PointsOf

\* Start nodes are nodes of the graph that have no predecessor.
LEMMA StartNodesAreNodes ==
  ASSUME MapInv, NEW n \in StartNodes
  PROVE  /\ n \in RNode /\ n.prev = NoNode /\ n = StartNode(n.node) /\ n.object = from.way
         /\ n.estimateCost = EstimateCost(PointAt(from))
         /\ n.currentCost = ways[from.way].factor * Distance[PointAt(from)][n.node]
<1>1. PICK p : p \in DOMAIN graph /\ p \in PointsOf(ways[from.way]) /\ n = StartNode(p)
  <2>1. CASE PointAt(from) \in DOMAIN graph
    BY <2>1, PointOfPlace DEF StartNodes, MapInv
  <2>2. CASE PointAt(from) \notin DOMAIN graph
    <3>1. PICK p \in NodeAfter(from, Forward(from)) \union NodeBefore(from, Backward(from)) :
                 n = StartNode(p)
      BY <2>2 DEF StartNodes
    <3>2. p \in DOMAIN graph /\ p \in PointsOf(ways[from.way])
      BY <3>1 DEF NodeAfter, NodeBefore, PointsOf
    <3>3. QED
      BY <3>1, <3>2
  <2>3. QED
    BY <2>1, <2>2
<1>2. /\ PointAt(from) \in Points /\ PointAt(to) \in Points /\ p \in Points
      /\ from.way \in DOMAIN ways /\ ways[from.way].factor \in Nat
  BY <1>1, PointOfPlace, GraphOfMap DEF MapInv
<1>3. \A a, b \in Nat : a * b \in Nat
  OBVIOUS
<1>4. /\ ways[from.way].factor * Distance[PointAt(from)][p] \in Nat
      /\ EstimateCost(PointAt(from)) \in Nat
  <2>1. Distance[PointAt(from)][p] \in Nat /\ Distance[PointAt(from)][PointAt(to)] \in Nat
    BY <1>2, DistanceAssumption
  <2>2. QED
    BY <1>2, <1>3, <2>1, EstimateAssumption DEF EstimateCost
<1>5. n.node = p /\ n.object = from.way
  BY <1>1 DEF StartNode
<1>6. QED
  BY <1>1, <1>2, <1>4, <1>5 DEF StartNode, RNode, NoNode

------------------------------------------------------------------------------
(* The steps of the search                                                 *)

SearchInv == MapInv /\ ListsInv
RouteInv  == LegalInv /\ ChainInv

\* At first nothing is open or closed.
LEMMA SearchInit == Init => SearchInv /\ RouteInv
<1> SUFFICES ASSUME Init PROVE SearchInv /\ RouteInv
  OBVIOUS
<1>1. MapInv
  <2>1. WaysOK(ways)
    BY WaysOfNetwork DEF Init, ways
  <2>2. ASSUME NEW p \in OnAWay(ways) PROVE IsPlace(Place(ways, p))
    <3> DEFINE S == WaysAt(ways, p)
               k == Least(S)
    <3>1. S \in SUBSET Nat /\ S # {}
      BY <2>1 DEF WaysOK, WaysAt, OnAWay
    <3>2. k \in S
      BY <3>1, LeastOf
    <3>3. k \in DOMAIN ways /\ WayOK(ways[k]) /\ p \in PointsOf(ways[k])
      BY <2>1, <3>2 DEF WaysAt, WaysOK
    <3>4. IndexIn(ways[k], p) \in DOMAIN ways[k].points /\ ways[k].points[IndexIn(ways[k], p)] = p
      BY <3>3, IndexOfPoint DEF WayOK
    <3>5. Place(ways, p) = [way |-> k, index |-> IndexIn(ways[k], p)]
      BY DEF Place, Least
    <3> HIDE DEF k
    <3>6. QED
      BY <3>3, <3>4, <3>5 DEF IsPlace
  <2>3. IsPlace(from) /\ IsPlace(to)
    BY <2>2 DEF Init
  <2>4. QED
    BY <2>3 DEF Init, MapInv, ways
<1>2. openMap = NoMap /\ closeMap = NoMap /\ DOMAIN NoMap = {} /\ pc = "start" /\ result = "none"
      /\ openList = {}
  BY DEF Init, NoMap
<1>3. ListsInv
  BY <1>2 DEF ListsInv, Keyed
<1>4. LegalInv
  BY <1>2 DEF LegalInv
<1>5. ChainInv
  <2> DEFINE f == [p \in DOMAIN closeMap |-> 0]
  <2>1. DOMAIN closeMap = {}
    BY <1>2
  <2>2. Leading(f, closeMap)
    BY <2>1 DEF Leading
  <2>3. QED
    BY <2>1, <2>2 DEF ChainInv
<1>6. QED
  BY <1>1, <1>3, <1>4, <1>5 DEF SearchInv, RouteInv

\* Unless a node is closed, what leads to the closed ones stays the same.
LEMMA ChainsStay ==
  ASSUME ChainInv, UNCHANGED <<mapVars, closeMap>>
  PROVE  ChainInv'
<1>1. LegalChains' = LegalChains /\ closeMap' = closeMap
  BY MapUnchanged
<1>2. \E f : Leading(f, closeMap')
  BY <1>1 DEF ChainInv
<1>3. ASSUME NEW f, Leading(f, closeMap'), NEW p \in DOMAIN closeMap'
      PROVE  f[p] \in LegalChains' /\ f[p][Len(f[p])] = closeMap'[p]
  <2>1. Leading(f, closeMap)
    BY <1>1, <1>3
  <2>2. QED
    BY <1>1, <2>1 DEF ChainInv
<1>4. QED
  BY <1>2, <1>3 DEF ChainInv

\* What leaves the lists alone leaves their nodes legal.
LEMMA LegalStays ==
  ASSUME LegalInv, UNCHANGED mapVars, UNCHANGED <<pc, openMap, closeMap, current>>
  PROVE  LegalInv'
<1>1. RNode' = RNode /\ StartNodes' = StartNodes /\ Moves' = Moves
  BY MapUnchanged
<1>2. Closed' = Closed /\ Passed' = Passed
  BY DEF Closed, Passed
<1>3. \A n : (n \in After(Closed) => n \in After(Closed)') /\ (n \in After(Passed) => n \in After(Passed)')
  BY <1>1, <1>2 DEF After
<1> HIDE DEF After, Closed, Passed
<1>4. /\ pc' # "done" => \A p \in DOMAIN openMap' : openMap'[p] \in After(Passed)'
      /\ \A p \in DOMAIN closeMap' : closeMap'[p] \in After(Closed)'
      /\ pc' = "paths" => current' \in After(Closed)'
  BY <1>3 DEF LegalInv
<1>5. QED
  BY <1>4 DEF LegalInv

\* GetStartNodes opens the start nodes.
LEMMA StartStep == SearchInv /\ Start => SearchInv' /\ (RouteInv => RouteInv')
<1> SUFFICES ASSUME SearchInv, Start PROVE SearchInv' /\ (RouteInv => RouteInv')
  OBVIOUS
<1>1. /\ MapInv /\ ListsInv
      /\ UNCHANGED mapVars /\ UNCHANGED <<closeMap, current>> /\ pc = "start"
  BY DEF SearchInv, Start
<1>2. MapInv' /\ RNode' = RNode /\ StartNodes' = StartNodes /\ TargetNodes' = TargetNodes
  BY <1>1, MapUnchanged
<1>3. RouteInv => ChainInv'
  BY <1>1, ChainsStay DEF RouteInv
<1>4. /\ closeMap = NoMap /\ closeMap' = NoMap /\ DOMAIN NoMap = {} /\ openMap = NoMap /\ openList = {}
      /\ result = "none" /\ targets' = TargetNodes
  <2>1. closeMap = NoMap /\ openMap = NoMap /\ openList = {openMap[p] : p \in DOMAIN openMap} /\ result = "none"
    BY <1>1 DEF ListsInv
  <2>2. QED
    BY <1>1, <2>1 DEF Start, NoMap
<1>5. CASE TargetNodes = {} \/ StartNodes = {}
  <2>1. pc' = "done" /\ result' = "false" /\ openList' = openList /\ openMap' = openMap
    BY <1>5 DEF Start
  <2>2. ListsInv'
    BY <1>2, <1>4, <2>1 DEF ListsInv, Keyed
  <2>3. LegalInv'
    BY <1>4, <2>1 DEF LegalInv
  <2>4. QED
    BY <1>2, <1>3, <2>2, <2>3 DEF SearchInv, RouteInv
<1>6. CASE ~(TargetNodes = {} \/ StartNodes = {})
  <2>1. /\ pc' = "take" /\ result' = "none" /\ openList' = StartNodes
        /\ openMap' = [p \in {n.node : n \in StartNodes} |-> StartNode(p)]
    BY <1>4, <1>6 DEF Start
  <2>2. \A n \in StartNodes : n \in RNode /\ n = StartNode(n.node)
    BY <1>1, StartNodesAreNodes
  <2>3. \A p : StartNode(p).node = p
    BY DEF StartNode
  <2>4. \A p \in DOMAIN openMap' : /\ openMap'[p] \in StartNodes
                                   /\ openMap'[p] \in RNode /\ openMap'[p].node = p
    BY <2>1, <2>2
  <2>5. openList' = {openMap'[p] : p \in DOMAIN openMap'}
    <3>1. \A n \in openList' : n.node \in DOMAIN openMap' /\ openMap'[n.node] = n
      BY <2>1, <2>2
    <3>2. QED
      BY <2>1, <2>4, <3>1
  <2>6. ListsInv'
    BY <1>2, <1>4, <2>1, <2>4, <2>5 DEF ListsInv, Keyed
  <2>7. LegalInv'
    BY <1>2, <1>4, <2>1, <2>4 DEF LegalInv, After
  <2>8. QED
    BY <1>2, <1>3, <2>6, <2>7 DEF SearchInv, RouteInv
<1>7. QED
  BY <1>5, <1>6

\* A node leaves both open lists to be looked at.
LEMMA TakeCheapestStep == SearchInv /\ TakeCheapest => SearchInv' /\ (RouteInv => RouteInv')
<1> SUFFICES ASSUME SearchInv, TakeCheapest PROVE SearchInv' /\ (RouteInv => RouteInv')
  OBVIOUS
<1>1. /\ MapInv /\ ListsInv
      /\ UNCHANGED mapVars /\ UNCHANGED <<closeMap, targets, result>> /\ pc = "take" /\ pc' = "paths" /\ i' = 1
  BY DEF SearchInv, TakeCheapest
<1>2. /\ MapInv' /\ RNode' = RNode /\ StartNodes' = StartNodes /\ TargetNodes' = TargetNodes
      /\ Moves' = Moves
  BY <1>1, MapUnchanged
<1>3. RouteInv => ChainInv'
  BY <1>1, ChainsStay DEF RouteInv
<1>4. PICK n \in openList : /\ current' = n /\ openList' = openList \ {n}
                            /\ openMap' = [p \in DOMAIN openMap \ {n.node} |-> openMap[p]]
  BY DEF TakeCheapest
<1>5. /\ Keyed(openMap) /\ Keyed(closeMap) /\ openList = {openMap[p] : p \in DOMAIN openMap}
      /\ DOMAIN openMap \intersect DOMAIN closeMap = {} /\ result = "none" /\ targets = TargetNodes
  BY <1>1 DEF ListsInv
<1>6. n \in RNode /\ n.node \in DOMAIN openMap /\ openMap[n.node] = n
  BY <1>4, <1>5 DEF Keyed
<1>7. /\ DOMAIN openMap' = DOMAIN openMap \ {n.node}
      /\ \A p \in DOMAIN openMap' : openMap'[p] = openMap[p]
  BY <1>4
<1>8. openList' = {openMap'[p] : p \in DOMAIN openMap'}
  <2>1. \A p \in DOMAIN openMap : openMap[p].node = p
    BY <1>5 DEF Keyed
  <2>2. \A p \in DOMAIN openMap \ {n.node} : openMap[p] # n
    BY <2>1
  <2>3. \A m \in openList' : \E p \in DOMAIN openMap' : m = openMap'[p]
    BY <1>4, <1>5, <1>6, <1>7
  <2>4. \A p \in DOMAIN openMap' : openMap'[p] \in openList'
    BY <1>4, <1>5, <1>7, <2>2
  <2>5. QED
    BY <2>3, <2>4
<1>9. ListsInv'
  <2>1. Keyed(openMap') /\ Keyed(closeMap')
    BY <1>1, <1>2, <1>5, <1>7 DEF Keyed
  <2>2. DOMAIN openMap' \intersect DOMAIN closeMap' = {}
    BY <1>1, <1>5, <1>7
  <2>3. current' \in RNode' /\ current'.node \notin DOMAIN openMap' \union DOMAIN closeMap'
    BY <1>1, <1>2, <1>4, <1>5, <1>6, <1>7
  <2>4. QED
    BY <1>1, <1>2, <1>5, <1>8, <2>1, <2>2, <2>3 DEF ListsInv, Keyed
<1>10. ASSUME RouteInv PROVE LegalInv'
  <2>1. Closed' = Closed /\ Passed' = Closed \union {n} /\ Passed = Closed
    BY <1>1, <1>4 DEF Closed, Passed
  <2>2. \A p \in DOMAIN openMap : openMap[p] \in After(Closed)
    BY <1>1, <1>10, <2>1 DEF RouteInv, LegalInv
  <2>3. \A p \in DOMAIN closeMap : closeMap[p] \in After(Closed)
    BY <1>10 DEF RouteInv, LegalInv
  <2>4. n \in After(Closed)
    BY <1>6, <2>2
  <2>5. \A q : q \in After(Closed) => q \in After(Closed)' /\ q \in After(Passed)'
    BY <1>2, <2>1 DEF After
  <2>6. QED
    BY <1>1, <1>4, <1>7, <2>2, <2>3, <2>4, <2>5 DEF LegalInv
<1>11. QED
  BY <1>2, <1>3, <1>9, <1>10 DEF SearchInv, RouteInv

\* To skip a path changes nothing but the index.
LEMMA SkipPathStep == SearchInv /\ SkipPath => SearchInv' /\ (RouteInv => RouteInv')
<1> SUFFICES ASSUME SearchInv, SkipPath PROVE SearchInv' /\ (RouteInv => RouteInv')
  OBVIOUS
<1>1. /\ MapInv /\ ListsInv /\ UNCHANGED mapVars
      /\ UNCHANGED <<pc, targets, openList, openMap, closeMap, current, result>>
      /\ pc = "paths" /\ i' = i + 1
  BY DEF SearchInv, SkipPath, LookingAtPath
<1>2. /\ MapInv' /\ RNode' = RNode /\ StartNodes' = StartNodes /\ TargetNodes' = TargetNodes
      /\ Moves' = Moves
  BY <1>1, MapUnchanged
<1>3. RouteInv => ChainInv'
  BY <1>1, ChainsStay DEF RouteInv
<1>4. ListsInv'
  <2>1. i' \in Nat \ {0}
    BY <1>1 DEF ListsInv
  <2>2. QED
    BY <1>1, <1>2, <2>1 DEF ListsInv, Keyed
<1>5. RouteInv => LegalInv'
  BY <1>1, LegalStays DEF RouteInv
<1>6. QED
  BY <1>2, <1>3, <1>4, <1>5 DEF SearchInv, RouteInv

\* The node that a path leads to, coming from the current one.
FoundNode ==
  [node |-> ThisPath.to, prev |-> current.node, object |-> ThisPath.way,
   currentCost |-> NextCost, estimateCost |-> EstimateCost(ThisPath.to), access |-> ThisPath.hasAccess]

\* The path that is looked at is one of the graph.
LEMMA PathOfCurrent ==
  ASSUME SearchInv, LookingAtPath
  PROVE  /\ current \in RNode /\ current.node \in DOMAIN graph
         /\ i \in DOMAIN graph[current.node].paths /\ ThisPath = graph[current.node].paths[i]
<1>1. current \in RNode /\ i \in Nat \ {0} /\ i <= Len(graph[current.node].paths)
  BY DEF SearchInv, ListsInv, LookingAtPath, NodePaths
<1>2. current.node \in DOMAIN graph
  BY <1>1 DEF RNode
<1>3. graph[current.node].paths \in Seq(PathsFrom(ways, current.node))
  BY <1>2, GraphOfMap DEF SearchInv
<1>4. QED
  BY <1>1, <1>2, <1>3 DEF ThisPath, NodePaths

\* The node made of a path is at the end of it, not at the node itself.
LEMMA FoundNodeIsNode ==
  ASSUME SearchInv, LookingAtPath
  PROVE  /\ FoundNode \in RNode /\ FoundNode.node # current.node
         /\ FoundNode.node = ThisPath.to /\ FoundNode.currentCost = NextCost
<1>1. /\ current \in RNode /\ current.node \in DOMAIN graph
      /\ i \in DOMAIN graph[current.node].paths /\ ThisPath = graph[current.node].paths[i]
  BY PathOfCurrent
<1>2. /\ current.node \in Points /\ ThisPath.to \in DOMAIN graph \ {current.node}
      /\ ThisPath.way \in DOMAIN ways /\ ThisPath.to \in PointsOf(ways[ThisPath.way])
      /\ ThisPath.hasAccess \in BOOLEAN /\ PathCost(ThisPath) \in Nat
  BY <1>1, PathOfGraph DEF SearchInv
<1>3. ThisPath.to \in Points /\ PointAt(to) \in Points
  BY <1>2, GraphOfMap, PointOfPlace DEF SearchInv, MapInv
<1>4. NextCost \in Nat
  <2>1. current.currentCost \in Nat
    BY <1>1 DEF RNode
  <2>2. QED
    BY <1>2, <2>1 DEF NextCost
<1>5. EstimateCost(ThisPath.to) \in Nat
  <2>1. Distance[ThisPath.to][PointAt(to)] \in Nat
    BY <1>3, DistanceAssumption
  <2>2. \A a, b \in Nat : a * b \in Nat
    OBVIOUS
  <2>3. QED
    BY <2>1, <2>2, EstimateAssumption DEF EstimateCost
<1>6. QED
  BY <1>2, <1>4, <1>5 DEF FoundNode, RNode

\* Going on to it is legal.
LEMMA FoundNodeIsLegal ==
  ASSUME SearchInv, LookingAtPath, ~Skipped, TurnsCanBeExcluded(network)
  PROVE  <<current, FoundNode>> \in Moves
<1>1. /\ current \in RNode /\ current.node \in DOMAIN graph
      /\ i \in DOMAIN graph[current.node].paths /\ ThisPath = graph[current.node].paths[i]
  BY PathOfCurrent
<1>2. FoundNode \in RNode
  BY FoundNodeIsNode
<1>3. /\ ThisPath.to # current.prev /\ (current.access \/ ~ThisPath.hasAccess) /\ ThisPath.usable
      /\ [source |-> current.object, targetIndex |-> i] \notin graph[current.node].excludes
  BY DEF Skipped, TurnExcluded
<1>4. ThisPath.hasAccess = ways[ThisPath.way].hasAccess
  BY <1>1, PathOfGraph DEF SearchInv
<1>5. current.object = ThisPath.way
        \/ CanTurn(network.restrictions, current.node, current.object, ThisPath.way)
  <2>1. current.object \in WaysAt(ways, current.node)
    BY <1>1 DEF RNode, WaysAt
  <2>2. QED
    BY <1>1, <1>3, <2>1, TurnsAreExcluded DEF SearchInv
<1>6. /\ FoundNode.node = ThisPath.to /\ FoundNode.object = ThisPath.way
      /\ FoundNode.currentCost = current.currentCost + PathCost(ThisPath)
  BY DEF FoundNode, NextCost
<1>7. \E k \in DOMAIN graph[current.node].paths :
        LET path == graph[current.node].paths[k]
        IN  /\ path.to = FoundNode.node /\ path.way = FoundNode.object /\ path.usable
            /\ FoundNode.currentCost = current.currentCost + PathCost(path)
  BY <1>1, <1>3, <1>6
<1>8. MayGoOn(current, FoundNode)
  BY <1>3, <1>4, <1>5, <1>6, <1>7 DEF MayGoOn
<1> HIDE DEF FoundNode
<1>9. QED
  BY <1>1, <1>2, <1>8 DEF Moves

\* A node that is inserted or made cheaper is legal after the one looked at.
LEMMA FollowPathStep ==
  ASSUME SearchInv, FollowPath
  PROVE  SearchInv' /\ (RouteInv /\ TurnsCanBeExcluded(network) => RouteInv')
<1> DEFINE p == ThisPath.to
<1>1. /\ MapInv /\ ListsInv /\ UNCHANGED mapVars /\ UNCHANGED <<pc, targets, closeMap, current, result>>
      /\ pc = "paths" /\ i' = i + 1 /\ LookingAtPath /\ ~Skipped
      /\ openList' = (openList \ (IF p \in DOMAIN openMap THEN {openMap[p]} ELSE {})) \union {FoundNode}
      /\ openMap' = Put(openMap, p, FoundNode)
  BY DEF SearchInv, FollowPath, LookingAtPath, FoundNode
<1>2. /\ MapInv' /\ RNode' = RNode /\ StartNodes' = StartNodes /\ TargetNodes' = TargetNodes
      /\ Moves' = Moves
  BY <1>1, MapUnchanged
<1>3. FoundNode \in RNode /\ p # current.node /\ FoundNode.node = p /\ p \notin DOMAIN closeMap
  BY <1>1, FoundNodeIsNode DEF Skipped
<1> HIDE DEF p, FoundNode
<1>4. /\ Keyed(openMap) /\ Keyed(closeMap) /\ openList = {openMap[q] : q \in DOMAIN openMap}
      /\ DOMAIN openMap \intersect DOMAIN closeMap = {} /\ result = "none" /\ targets = TargetNodes
      /\ current \in RNode /\ current.node \notin DOMAIN openMap \union DOMAIN closeMap
      /\ i \in Nat \ {0}
  BY <1>1 DEF ListsInv
<1>5. /\ DOMAIN openMap' = DOMAIN openMap \union {p} /\ openMap'[p] = FoundNode
      /\ \A q \in DOMAIN openMap \ {p} : openMap'[q] = openMap[q]
  BY <1>1 DEF Put
<1>6. openList' = {openMap'[q] : q \in DOMAIN openMap'}
  <2>1. \A q \in DOMAIN openMap : openMap[q].node = q
    BY <1>4 DEF Keyed
  <2>2. \A m \in openList' : \E q \in DOMAIN openMap' : m = openMap'[q]
    BY <1>1, <1>4, <1>5
  <2>3. \A q \in DOMAIN openMap \ {p} : openMap[q] \in openList'
    BY <1>1, <1>4, <2>1
  <2>4. FoundNode \in openList'
    BY <1>1
  <2>5. \A q \in DOMAIN openMap' : openMap'[q] \in openList'
    BY <1>5, <2>3, <2>4
  <2>6. QED
    BY <2>2, <2>5
<1>7. ListsInv'
  <2>1. Keyed(openMap') /\ Keyed(closeMap')
    BY <1>1, <1>2, <1>3, <1>4, <1>5 DEF Keyed
  <2>2. DOMAIN openMap' \intersect DOMAIN closeMap' = {}
    BY <1>1, <1>3, <1>4, <1>5
  <2>3. /\ current' \in RNode' /\ current'.node \notin DOMAIN openMap' \union DOMAIN closeMap'
        /\ i' \in Nat \ {0}
    BY <1>1, <1>2, <1>3, <1>4, <1>5
  <2>4. QED
    BY <1>1, <1>2, <1>4, <1>6, <2>1, <2>2, <2>3 DEF ListsInv, Keyed
<1>8. ASSUME RouteInv, TurnsCanBeExcluded(network) PROVE RouteInv'
  <2>1. ChainInv'
    BY <1>1, <1>8, ChainsStay DEF RouteInv
  <2>2. Closed' = Closed /\ Passed' = Passed
    BY <1>1 DEF Closed, Passed
  <2>3. \A n : (n \in After(Closed) => n \in After(Closed)') /\ (n \in After(Passed) => n \in After(Passed)')
    BY <1>2, <2>2 DEF After
  <2>4. FoundNode \in After(Passed)
    <3>1. <<current, FoundNode>> \in Moves
      BY <1>1, <1>8, FoundNodeIsLegal
    <3>2. FoundNode.prev = current.node
      BY DEF FoundNode
    <3>3. current \in Passed
      BY <1>1 DEF Passed
    <3>4. QED
      BY <1>3, <3>1, <3>2, <3>3 DEF After
  <2> HIDE DEF After, Closed, Passed
  <2>5. /\ \A q \in DOMAIN openMap' : openMap'[q] \in After(Passed)'
        /\ \A q \in DOMAIN closeMap' : closeMap'[q] \in After(Closed)'
        /\ pc' = "paths" => current' \in After(Closed)'
    BY <1>1, <1>5, <1>8, <2>3, <2>4 DEF RouteInv, LegalInv
  <2>6. QED
    BY <2>1, <2>5 DEF RouteInv, LegalInv
<1>9. QED
  BY <1>2, <1>7, <1>8 DEF SearchInv

\* Without the file the search just ends.
LEMMA CannotLoadStep == SearchInv /\ CannotLoad => SearchInv' /\ (RouteInv => RouteInv')
<1> SUFFICES ASSUME SearchInv, CannotLoad PROVE SearchInv' /\ (RouteInv => RouteInv')
  OBVIOUS
<1>1. /\ MapInv /\ ListsInv /\ UNCHANGED mapVars /\ UNCHANGED searchVars /\ pc = "paths"
      /\ pc' = "done" /\ result' = "false"
      /\ UNCHANGED <<targets, openList, openMap, closeMap, current, i>>
  BY DEF SearchInv, CannotLoad, LookingAtPath, searchVars
<1>2. /\ MapInv' /\ RNode' = RNode /\ StartNodes' = StartNodes /\ TargetNodes' = TargetNodes
      /\ Moves' = Moves
  BY <1>1, MapUnchanged
<1>3. ListsInv'
  BY <1>1, <1>2 DEF ListsInv, Keyed
<1>4. ASSUME RouteInv PROVE RouteInv'
  <2>1. ChainInv'
    BY <1>1, <1>4, ChainsStay DEF RouteInv
  <2>2. Closed' = Closed
    BY <1>1 DEF Closed
  <2>3. \A n : n \in After(Closed) => n \in After(Closed)'
    BY <1>2, <2>2 DEF After
  <2> HIDE DEF After, Closed
  <2>4. \A p \in DOMAIN closeMap' : closeMap'[p] \in After(Closed)'
    BY <1>1, <1>4, <2>3 DEF RouteInv, LegalInv
  <2>5. QED
    BY <1>1, <2>1, <2>4 DEF RouteInv, LegalInv
<1>5. QED
  BY <1>2, <1>3, <1>4 DEF SearchInv

\* A legal chain goes on along a legal move.
LEMMA AppendedChain ==
  ASSUME NEW s \in LegalChains, NEW n \in RNode, <<s[Len(s)], n>> \in Moves
  PROVE  Append(s, n) \in LegalChains /\ Append(s, n)[Len(Append(s, n))] = n
<1> DEFINE t == Append(s, n)
<1>1. /\ s \in Seq(RNode) /\ Len(s) \in Nat \ {0} /\ s[1] \in StartNodes
      /\ \A j \in 1..Len(s) - 1 : <<s[j], s[j + 1]>> \in Moves
  BY DEF LegalChains
<1>2. /\ t \in Seq(RNode) /\ Len(t) = Len(s) + 1 /\ t[Len(s) + 1] = n
      /\ \A j \in 1..Len(s) : t[j] = s[j]
  BY <1>1
<1> HIDE DEF t
<1>3. t[1] \in StartNodes /\ t # <<>>
  BY <1>1, <1>2
<1>4. \A j \in 1..Len(t) - 1 : <<t[j], t[j + 1]>> \in Moves
  <2> SUFFICES ASSUME NEW j \in 1..Len(s) PROVE <<t[j], t[j + 1]>> \in Moves
    BY <1>1, <1>2
  <2>1. CASE j = Len(s)
    BY <1>1, <1>2, <2>1
  <2>2. CASE j # Len(s)
    <3>1. j \in 1..Len(s) - 1 /\ j + 1 \in 1..Len(s)
      BY <1>1, <2>2
    <3>2. QED
      BY <1>1, <1>2, <3>1
  <2>3. QED
    BY <2>1, <2>2
<1>5. t \in LegalChains
  BY <1>2, <1>3, <1>4 DEF LegalChains
<1>6. QED
  BY <1>2, <1>5 DEF t

\* Where a node came from, and that is before it in the chain.
LEMMA PrevOf ==
  ASSUME MapInv, Keyed(closeMap), NEW n \in After(Closed)
  PROVE  IF n.prev = NoNode THEN n \in StartNodes
         ELSE n \in RNode /\ n.prev \in DOMAIN closeMap /\ <<closeMap[n.prev], n>> \in Moves
<1>1. CASE n \in StartNodes
  BY <1>1, StartNodesAreNodes
<1>2. CASE n \notin StartNodes
  <2>1. n \in RNode /\ \E a \in Closed : a.node = n.prev /\ <<a, n>> \in Moves
    BY <1>2 DEF After
  <2>2. PICK p \in DOMAIN closeMap : closeMap[p].node = n.prev /\ <<closeMap[p], n>> \in Moves
    BY <2>1 DEF Closed
  <2>3. p = n.prev /\ closeMap[p] \in RNode
    BY <2>2 DEF Keyed
  <2>4. p # NoNode
    <3>1. p \in DOMAIN graph
      BY <2>2, <2>3 DEF RNode
    <3>2. QED
      BY <3>1, GraphOfMap, PointsAssumption DEF NoNode
  <2>5. QED
    BY <2>1, <2>2, <2>3, <2>4
<1>3. QED
  BY <1>1, <1>2

\* Closing a node makes one more chain.
LEMMA ChainsGrow ==
  ASSUME MapInv, Keyed(closeMap), ChainInv, current.node \notin DOMAIN closeMap,
         current \in After(Closed), \A p \in DOMAIN closeMap : closeMap[p] \in After(Closed)
  PROVE  LET map == Put(closeMap, current.node, current)
         IN  /\ \E f : Leading(f, map)
             /\ \A f : Leading(f, map) =>
                  \A p \in DOMAIN map : f[p] \in LegalChains /\ f[p][Len(f[p])] = map[p]
<1> DEFINE d    == DOMAIN closeMap
           c    == current.node
           map  == Put(closeMap, c, current)
<1>1. DOMAIN map = d \union {c} /\ map[c] = current /\ \A q \in d : map[q] = closeMap[q]
  BY DEF Put
<1>2. \A q \in d : closeMap[q].prev = NoNode \/ closeMap[q].prev \in d
  BY PrevOf
<1>3. IF current.prev = NoNode THEN current \in StartNodes
      ELSE current \in RNode /\ current.prev \in d /\ <<closeMap[current.prev], current>> \in Moves
  BY PrevOf
<1> HIDE DEF map, c
<1>4. c \notin d
  BY DEF c
<1>5. \E f : Leading(f, map)
  <2>1. PICK f : Leading(f, closeMap)
    BY DEF ChainInv
  <2> DEFINE To(n) == IF n.prev = NoNode THEN <<n>> ELSE Append(f[n.prev], n)
             g == [q \in DOMAIN map |-> To(map[q])]
  <2>2. \A q \in d : f[q] = To(closeMap[q])
    BY <2>1 DEF Leading
  <2>3. \A q \in d : g[q] = f[q]
    BY <1>1, <2>2
  <2>4. \A q \in DOMAIN map : map[q].prev # NoNode => g[map[q].prev] = f[map[q].prev]
    <3>1. \A q \in DOMAIN map : map[q].prev # NoNode => map[q].prev \in d
      BY <1>1, <1>2, <1>3
    <3> HIDE DEF g
    <3>2. QED
      BY <2>3, <3>1
  <2>5. g = [q \in DOMAIN map |-> IF map[q].prev = NoNode THEN <<map[q]>>
                                  ELSE Append(g[map[q].prev], map[q])]
    <3> DEFINE h == [q \in DOMAIN map |-> IF map[q].prev = NoNode THEN <<map[q]>>
                                          ELSE Append(g[map[q].prev], map[q])]
    <3>1. \A q \in DOMAIN map : g[q] = h[q]
      <4> SUFFICES ASSUME NEW q \in DOMAIN map PROVE To(map[q]) = h[q]
        OBVIOUS
      <4> HIDE DEF g
      <4>1. QED
        BY <2>4
    <3>2. QED
      BY <3>1
  <2>6. QED
    BY <2>5 DEF Leading
<1>6. ASSUME NEW f, Leading(f, map), NEW p \in DOMAIN map
      PROVE  f[p] \in LegalChains /\ f[p][Len(f[p])] = map[p]
  <2> DEFINE g == [q \in d |-> f[q]]
  <2>1. \A q \in DOMAIN map : f[q] = IF map[q].prev = NoNode THEN <<map[q]>>
                                     ELSE Append(f[map[q].prev], map[q])
    BY <1>6 DEF Leading
  <2>2. \A q \in d : g[q] = IF closeMap[q].prev = NoNode THEN <<closeMap[q]>>
                            ELSE Append(g[closeMap[q].prev], closeMap[q])
    BY <1>1, <1>2, <2>1
  <2>3. Leading(g, closeMap)
    <3> DEFINE h == [q \in d |-> IF closeMap[q].prev = NoNode THEN <<closeMap[q]>>
                                 ELSE Append(g[closeMap[q].prev], closeMap[q])]
    <3>1. \A q \in d : g[q] = h[q]
      BY <2>2
    <3>2. g = h
      BY <3>1
    <3> HIDE DEF g
    <3>3. QED
      BY <3>2 DEF Leading
  <2>4. \A q \in d : f[q] \in LegalChains /\ f[q][Len(f[q])] = closeMap[q]
    <3>1. \A q \in d : g[q] \in LegalChains /\ g[q][Len(g[q])] = closeMap[q]
      <4> HIDE DEF g
      <4>1. QED
        BY <2>3 DEF ChainInv
    <3>2. QED
      BY <3>1
  <2>5. CASE p \in d
    BY <1>1, <2>4, <2>5
  <2>6. CASE p = c /\ current.prev = NoNode
    <3>1. f[p] = <<current>> /\ current \in StartNodes
      BY <1>1, <1>3, <2>1, <2>6
    <3>2. current \in RNode
      BY <3>1, StartNodesAreNodes
    <3>3. <<current>> \in LegalChains
      BY <3>1, <3>2 DEF LegalChains
    <3>4. QED
      BY <1>1, <2>6, <3>1, <3>3
  <2>7. CASE p = c /\ current.prev # NoNode
    <3> DEFINE s == f[current.prev]
    <3>1. f[p] = Append(s, current)
      BY <1>1, <2>1, <2>7
    <3>2. s \in LegalChains /\ <<s[Len(s)], current>> \in Moves /\ current \in RNode
      BY <1>3, <2>4, <2>7
    <3> HIDE DEF s
    <3>3. Append(s, current) \in LegalChains /\ Append(s, current)[Len(Append(s, current))] = current
      BY <3>2, AppendedChain
    <3>4. QED
      BY <1>1, <2>7, <3>1, <3>3
  <2>8. QED
    BY <1>1, <2>5, <2>6, <2>7
<1>7. QED
  BY <1>5, <1>6 DEF map, c

\* A node is closed together with its legal predecessor.
LEMMA CloseNodeStep == SearchInv /\ CloseNode => SearchInv' /\ (RouteInv => RouteInv')
<1> SUFFICES ASSUME SearchInv, CloseNode PROVE SearchInv' /\ (RouteInv => RouteInv')
  OBVIOUS
<1>1. /\ MapInv /\ ListsInv /\ UNCHANGED mapVars
      /\ UNCHANGED <<targets, openList, openMap, current, result>>
      /\ pc = "paths" /\ pc' \in {"take", "resolve"}
      /\ closeMap' = Put(closeMap, current.node, current)
  BY DEF SearchInv, CloseNode
<1>2. /\ MapInv' /\ RNode' = RNode /\ StartNodes' = StartNodes /\ TargetNodes' = TargetNodes
      /\ Moves' = Moves /\ LegalChains' = LegalChains
  BY <1>1, MapUnchanged
<1>3. /\ Keyed(openMap) /\ Keyed(closeMap) /\ openList = {openMap[q] : q \in DOMAIN openMap}
      /\ DOMAIN openMap \intersect DOMAIN closeMap = {} /\ result = "none" /\ targets = TargetNodes
      /\ current \in RNode /\ current.node \notin DOMAIN openMap \union DOMAIN closeMap
  BY <1>1 DEF ListsInv
<1>4. /\ DOMAIN closeMap' = DOMAIN closeMap \union {current.node} /\ closeMap'[current.node] = current
      /\ \A q \in DOMAIN closeMap : closeMap'[q] = closeMap[q]
  BY <1>1, <1>3 DEF Put
<1>5. ListsInv'
  <2>1. Keyed(openMap') /\ Keyed(closeMap')
    BY <1>1, <1>2, <1>3, <1>4 DEF Keyed
  <2>2. DOMAIN openMap' \intersect DOMAIN closeMap' = {}
    BY <1>1, <1>3, <1>4
  <2>3. QED
    BY <1>1, <1>2, <1>3, <1>4, <2>1, <2>2 DEF ListsInv, Keyed
<1>6. ASSUME RouteInv PROVE RouteInv'
  <2>1. Closed' = Passed /\ Passed' = Passed
    <3>1. Closed' = Closed \union {current}
      BY <1>4 DEF Closed
    <3>2. Passed = Closed \union {current} /\ Passed' = Closed'
      BY <1>1 DEF Passed
    <3>3. QED
      BY <3>1, <3>2
  <2>2. \A n : n \in After(Closed) \/ n \in After(Passed) => n \in After(Closed)' /\ n \in After(Passed)'
    <3>1. Closed \subseteq Passed
      BY DEF Passed
    <3> HIDE DEF Closed, Passed
    <3>2. QED
      BY <1>2, <2>1, <3>1 DEF After
  <2>3. LegalInv'
    <3> HIDE DEF After, Closed, Passed
    <3>1. /\ \A p \in DOMAIN openMap : openMap[p] \in After(Passed)
          /\ \A p \in DOMAIN closeMap : closeMap[p] \in After(Closed)
          /\ current \in After(Closed)
      BY <1>1, <1>6 DEF RouteInv, LegalInv
    <3>2. /\ \A p \in DOMAIN openMap' : openMap'[p] \in After(Passed)'
          /\ \A p \in DOMAIN closeMap' : closeMap'[p] \in After(Closed)'
          /\ current' \in After(Closed)'
      BY <1>1, <1>4, <2>2, <3>1
    <3>3. QED
      BY <3>2 DEF LegalInv
  <2>4. ChainInv'
    <3>1. ChainInv /\ current \in After(Closed) /\ \A p \in DOMAIN closeMap : closeMap[p] \in After(Closed)
      BY <1>1, <1>6 DEF RouteInv, LegalInv
    <3>2. current.node \notin DOMAIN closeMap
      BY <1>3
    <3>3. /\ \E f : Leading(f, closeMap')
          /\ \A f : Leading(f, closeMap') =>
               \A p \in DOMAIN closeMap' : f[p] \in LegalChains /\ f[p][Len(f[p])] = closeMap'[p]
      BY <1>1, <1>3, <3>1, <3>2, ChainsGrow
    <3>4. QED
      BY <1>2, <3>3 DEF ChainInv
  <2>5. QED
    BY <2>3, <2>4 DEF RouteInv
<1>7. QED
  BY <1>2, <1>5, <1>6 DEF SearchInv

\* To make the route leaves the lists alone.
LEMMA ResolveStep == SearchInv /\ Resolve => SearchInv' /\ (RouteInv => RouteInv')
<1> SUFFICES ASSUME SearchInv, Resolve PROVE SearchInv' /\ (RouteInv => RouteInv')
  OBVIOUS
<1>1. /\ MapInv /\ ListsInv /\ UNCHANGED mapVars /\ pc = "resolve" /\ pc' = "done"
      /\ UNCHANGED <<targets, openList, openMap, closeMap, current, i>>
  BY DEF SearchInv, Resolve, searchVars
<1>2. /\ MapInv' /\ RNode' = RNode /\ StartNodes' = StartNodes /\ TargetNodes' = TargetNodes
      /\ Moves' = Moves
  BY <1>1, MapUnchanged
<1>3. ListsInv'
  BY <1>1, <1>2 DEF ListsInv, Keyed
<1>4. ASSUME RouteInv PROVE RouteInv'
  <2>1. ChainInv'
    BY <1>1, <1>4, ChainsStay DEF RouteInv
  <2>2. Closed' = Closed
    BY <1>1 DEF Closed
  <2>3. \A n : n \in After(Closed) => n \in After(Closed)'
    BY <1>2, <2>2 DEF After
  <2> HIDE DEF After, Closed
  <2>4. \A p \in DOMAIN closeMap' : closeMap'[p] \in After(Closed)'
    BY <1>1, <1>4, <2>3 DEF RouteInv, LegalInv
  <2>5. QED
    BY <1>1, <2>1, <2>4 DEF RouteInv, LegalInv
<1>5. QED
  BY <1>2, <1>3, <1>4 DEF SearchInv

\* Every step of the search keeps its lists in order and its nodes legal.
LEMMA SearchStep ==
  SearchInv /\ [Next]_vars => SearchInv' /\ (RouteInv /\ TurnsCanBeExcluded(network) => RouteInv')
<1> SUFFICES ASSUME SearchInv, [Next]_vars
             PROVE  SearchInv' /\ (RouteInv /\ TurnsCanBeExcluded(network) => RouteInv')
  OBVIOUS
<1>1. CASE Start
  BY <1>1, StartStep
<1>2. CASE TakeCheapest
  BY <1>2, TakeCheapestStep
<1>3. CASE SkipPath
  BY <1>3, SkipPathStep
<1>4. CASE FollowPath
  BY <1>4, FollowPathStep
<1>5. CASE CannotLoad
  BY <1>5, CannotLoadStep
<1>6. CASE CloseNode
  BY <1>6, CloseNodeStep
<1>7. CASE Resolve
  BY <1>7, ResolveStep
<1>8. CASE UNCHANGED vars
  <2>1. /\ MapInv /\ ListsInv /\ UNCHANGED mapVars
        /\ UNCHANGED <<pc, targets, openList, openMap, closeMap, current, i, result>>
    BY <1>8 DEF SearchInv, vars, searchVars
  <2>2. /\ MapInv' /\ RNode' = RNode /\ TargetNodes' = TargetNodes
    BY <2>1, MapUnchanged
  <2>3. ListsInv'
    BY <2>1, <2>2 DEF ListsInv, Keyed
  <2>4. RouteInv => RouteInv'
    BY <2>1, LegalStays, ChainsStay DEF RouteInv
  <2>5. QED
    BY <2>2, <2>3, <2>4 DEF SearchInv
<1>9. QED
  BY <1>1, <1>2, <1>3, <1>4, <1>5, <1>6, <1>7, <1>8 DEF Next

------------------------------------------------------------------------------
(* The entries of a route                                                  *)

StepEntry == [way : Nat, at : Nat, next : Nat, objects : SUBSET Nat]

StartOf(w, e) == w[e.way].points[e.at]
EndOf(w, e)   == w[e.way].points[e.next]

\* From one index of a way to the one beside it, or over the end of a closed way or of a
\* one-way street that touches itself, in the direction of the way but for the exception.
Beside(way, at, next) ==
  /\ InDirection(way, at, next) \/ WrongWay(way, at, next)
  /\ \/ next - at \in {-1, 1}
     \/ at = Len(way.points) /\ next = 1 /\ (IsCircular(way) \/ TouchesItself(way))

\* The ways of a map that meet at a point.
MeetingAt(w, p) == IF p \in Intersections(w) THEN WaysAt(w, p) ELSE {}

\* A step along a way, with the ways that meet where it begins or none.
IsStep(w, e) ==
  /\ e.way \in DOMAIN w
  /\ e.at \in 1..Len(w[e.way].points) /\ e.next \in 1..Len(w[e.way].points)
  /\ Beside(w[e.way], e.at, e.next)
  /\ e.objects \in {{}, MeetingAt(w, StartOf(w, e))}

\* The sequences of steps from point a to point b.
Leads(w, a, b) ==
  {s \in Seq(StepEntry) :
     /\ IF s = <<>> THEN a = b ELSE StartOf(w, s[1]) = a /\ EndOf(w, s[Len(s)]) = b
     /\ \A j \in 1..Len(s) - 1 : EndOf(w, s[j]) = StartOf(w, s[j + 1])
     /\ \A j \in 1..Len(s) : IsStep(w, s[j])}

\* Steps from a to b and from b to c lead from a to c.
LEMMA LeadsOn ==
  ASSUME NEW w, NEW a, NEW b, NEW c, NEW s \in Leads(w, a, b), NEW t \in Leads(w, b, c)
  PROVE  s \o t \in Leads(w, a, c)
<1> DEFINE u == s \o t
<1>1. /\ s \in Seq(StepEntry) /\ Len(s) \in Nat
      /\ IF s = <<>> THEN a = b ELSE StartOf(w, s[1]) = a /\ EndOf(w, s[Len(s)]) = b
      /\ \A j \in 1..Len(s) - 1 : EndOf(w, s[j]) = StartOf(w, s[j + 1])
      /\ \A j \in 1..Len(s) : IsStep(w, s[j])
  BY DEF Leads
<1>2. /\ t \in Seq(StepEntry) /\ Len(t) \in Nat
      /\ IF t = <<>> THEN b = c ELSE StartOf(w, t[1]) = b /\ EndOf(w, t[Len(t)]) = c
      /\ \A j \in 1..Len(t) - 1 : EndOf(w, t[j]) = StartOf(w, t[j + 1])
      /\ \A j \in 1..Len(t) : IsStep(w, t[j])
  BY DEF Leads
<1>3. /\ u \in Seq(StepEntry) /\ Len(u) = Len(s) + Len(t)
      /\ \A j \in 1..Len(s) : u[j] = s[j]
      /\ \A j \in Len(s) + 1..Len(s) + Len(t) : u[j] = t[j - Len(s)]
  BY <1>1, <1>2
<1>4. CASE s = <<>>
  BY <1>1, <1>4
<1>5. CASE t = <<>>
  BY <1>2, <1>5, <1>1
<1>6. CASE s # <<>> /\ t # <<>>
  <2>1. Len(s) > 0 /\ Len(t) > 0
    BY <1>1, <1>2, <1>6
  <2> HIDE DEF u
  <2>2. u # <<>> /\ u[1] = s[1] /\ u[Len(u)] = t[Len(t)]
    <3>1. 1 \in 1..Len(s) /\ Len(u) \in Len(s) + 1..Len(s) + Len(t) /\ Len(u) - Len(s) = Len(t)
      BY <1>1, <1>2, <1>3, <2>1
    <3>2. QED
      BY <1>3, <2>1, <3>1
  <2>3. ASSUME NEW j \in 1..Len(u) PROVE IsStep(w, u[j])
    <3>1. CASE j \in 1..Len(s)
      BY <1>1, <1>3, <3>1
    <3>2. CASE j \notin 1..Len(s)
      <4>1. j \in Len(s) + 1..Len(s) + Len(t) /\ j - Len(s) \in 1..Len(t)
        BY <1>1, <1>2, <1>3, <3>2
      <4>2. QED
        BY <1>2, <1>3, <4>1
    <3>3. QED
      BY <3>1, <3>2
  <2>4. ASSUME NEW j \in 1..Len(u) - 1 PROVE EndOf(w, u[j]) = StartOf(w, u[j + 1])
    <3>1. CASE j < Len(s)
      <4>1. j \in 1..Len(s) - 1 /\ j \in 1..Len(s) /\ j + 1 \in 1..Len(s)
        BY <1>1, <1>2, <1>3, <3>1
      <4>2. QED
        BY <1>1, <1>3, <4>1
    <3>2. CASE j = Len(s)
      <4>1. j \in 1..Len(s) /\ j + 1 \in Len(s) + 1..Len(s) + Len(t) /\ (j + 1) - Len(s) = 1
        BY <1>1, <1>2, <2>1, <3>2
      <4>2. u[j] = s[Len(s)] /\ u[j + 1] = t[1]
        BY <1>3, <3>2, <4>1
      <4>3. QED
        BY <1>1, <1>2, <1>6, <4>2
    <3>3. CASE j > Len(s)
      <4> DEFINE l == j - Len(s)
      <4>1. /\ l \in 1..Len(t) - 1 /\ j \in Len(s) + 1..Len(s) + Len(t)
            /\ j + 1 \in Len(s) + 1..Len(s) + Len(t) /\ (j + 1) - Len(s) = l + 1
        BY <1>1, <1>2, <1>3, <3>3
      <4>2. u[j] = t[l] /\ u[j + 1] = t[l + 1]
        BY <1>3, <4>1
      <4> HIDE DEF l
      <4>3. QED
        BY <1>2, <4>1, <4>2
    <3>4. QED
      BY <1>1, <1>3, <3>1, <3>2, <3>3
  <2>5. u \in Leads(w, a, c)
    BY <1>1, <1>2, <1>3, <1>6, <2>2, <2>3, <2>4 DEF Leads
  <2>6. QED
    BY <2>5 DEF u
<1>7. QED
  BY <1>4, <1>5, <1>6

\* A course of indexes of way k, one beside the other.
Course(at, count, k) ==
  /\ \A j \in 0..count : at[j] \in 1..Len(ways[k].points)
  /\ \A j \in 1..count : Beside(ways[k], at[j - 1], at[j])

\* Steps along a course of indices lead from its first point to its last.
LEMMA CourseLeads ==
  ASSUME WaysOK(ways), NEW k \in DOMAIN ways, NEW count \in Nat \ {0}, NEW at,
         Course(at, count, k)
  PROVE  [j \in 1..count |-> Step(k, at[j - 1], at[j], j = 1)]
           \in Leads(ways, ways[k].points[at[0]], ways[k].points[at[count]])
<1> DEFINE s == [j \in 1..count |-> Step(k, at[j - 1], at[j], j = 1)]
           n == Len(ways[k].points)
<1>1. n \in Nat /\ \A j \in 0..count : at[j] \in 1..n
  BY DEF Course, WaysOK, WayOK
<1> HIDE DEF n
<1>2. ASSUME NEW j \in 1..count
      PROVE  /\ s[j] \in StepEntry /\ s[j].way = k /\ s[j].at = at[j - 1] /\ s[j].next = at[j]
             /\ IsStep(ways, s[j])
  <2>1. s[j] = Step(k, at[j - 1], at[j], j = 1)
    OBVIOUS
  <2> HIDE DEF s
  <2>2. s[j].way = k /\ s[j].at = at[j - 1] /\ s[j].next = at[j]
    BY <2>1 DEF Step
  <2>3. IsStep(ways, s[j])
    <3>1. j - 1 \in 0..count /\ j \in 0..count
      OBVIOUS
    <3>2. s[j].objects \in {{}, MeetingAt(ways, StartOf(ways, s[j]))}
      BY <2>1 DEF Step, Junction, MeetingAt, StartOf
    <3>3. QED
      BY <2>2, <3>1, <3>2 DEF IsStep, Course
  <2>4. s[j] \in StepEntry
    <3>1. \A p : WaysAt(ways, p) \in SUBSET Nat
      BY DEF WaysAt, WaysOK
    <3>2. k \in Nat /\ at[j - 1] \in Nat /\ at[j] \in Nat
      BY <1>1 DEF WaysOK
    <3>3. QED
      BY <2>1, <3>1, <3>2 DEF Step, Junction, StepEntry
  <2>5. QED
    BY <2>2, <2>3, <2>4
<1>3. s \in Seq(StepEntry) /\ Len(s) = count /\ s # <<>>
  <2>1. \A j \in 1..count : s[j] \in StepEntry
    BY <1>2
  <2>2. DOMAIN s = 1..count /\ s = [j \in 1..count |-> s[j]]
    OBVIOUS
  <2> HIDE DEF s
  <2>3. s \in [1..count -> StepEntry]
    BY <2>1, <2>2
  <2>4. s \in Seq(StepEntry)
    BY <2>3
  <2>5. Len(s) = count
    BY <2>2, <2>4
  <2>6. QED
    BY <2>4, <2>5
<1> HIDE DEF s
<1>4. /\ StartOf(ways, s[1]) = ways[k].points[at[0]]
      /\ EndOf(ways, s[Len(s)]) = ways[k].points[at[count]]
  <2>1. 1 \in 1..count /\ count \in 1..count /\ 1 - 1 = 0
    OBVIOUS
  <2>2. QED
    BY <1>2, <1>3, <2>1 DEF StartOf, EndOf
<1>5. \A j \in 1..count - 1 : EndOf(ways, s[j]) = StartOf(ways, s[j + 1])
  <2>1. \A j \in 1..count - 1 : j \in 1..count /\ j + 1 \in 1..count /\ (j + 1) - 1 = j
    OBVIOUS
  <2>2. QED
    BY <1>2, <2>1 DEF StartOf, EndOf
<1>6. s \in Leads(ways, ways[k].points[at[0]], ways[k].points[at[count]])
  BY <1>2, <1>3, <1>4, <1>5 DEF Leads
<1>7. QED
  BY <1>6 DEF s

\* Counting around: the next index is one more, or the first after the last.
LEMMA Modulo ==
  ASSUME NEW n \in Nat \ {0}
  PROVE  /\ \A x \in Nat : (x % n) \in 0..n - 1
         /\ \A x \in 0..n - 1 : x % n = x /\ (x + n) % n = x /\ (x + n + n) % n = x
         /\ \A x \in 0..n + n + n - 2 : (x + 1) % n = (x % n) + 1 \/ (x % n = n - 1 /\ (x + 1) % n = 0)
<1>1. \A x \in Nat : (x % n) \in 0..n - 1
  OBVIOUS
<1>2. \A x \in 0..n - 1 : x % n = x
  OBVIOUS
<1>3. \A x \in 0..n - 1 : (x + n) % n = x
  OBVIOUS
<1>4. \A x \in 0..n - 1 : (x + n + n) % n = x
  OBVIOUS
<1>5. ASSUME NEW x \in 0..n + n + n - 2
      PROVE  (x + 1) % n = (x % n) + 1 \/ (x % n = n - 1 /\ (x + 1) % n = 0)
  <2> DEFINE M(y) == y % n
  <2>1. /\ \A y \in 0..n - 1 : M(y) = y /\ M(y + n) = y /\ M(y + n + n) = y
        /\ 0 \in 0..n - 1 /\ M(n) = 0 /\ M(n + n) = 0
    BY <1>2, <1>3, <1>4
  <2>2. PICK y \in 0..n - 1 : x = y \/ x = y + n \/ x = y + n + n
    <3>1. x \in 0..n - 1 \/ x - n \in 0..n - 1 \/ x - n - n \in 0..n - 1
      OBVIOUS
    <3>2. x = (x - n) + n /\ x = (x - n - n) + n + n
      OBVIOUS
    <3>3. QED
      BY <3>1, <3>2
  <2> HIDE DEF M
  <2>3. M(x) = y
    BY <2>1, <2>2
  <2>4. CASE y < n - 1
    <3>1. y + 1 \in 0..n - 1 /\ (x + 1 = y + 1 \/ x + 1 = (y + 1) + n \/ x + 1 = (y + 1) + n + n)
      BY <2>2, <2>4
    <3>2. M(x + 1) = y + 1
      BY <2>1, <3>1
    <3>3. QED
      BY <2>3, <3>2 DEF M
  <2>5. CASE y = n - 1
    <3>1. x + 1 = n \/ x + 1 = n + n
      BY <2>2, <2>5
    <3>2. QED
      BY <2>1, <2>3, <2>5, <3>1 DEF M
  <2>6. QED
    BY <2>4, <2>5
<1>6. QED
  BY <1>1, <1>2, <1>3, <1>4, <1>5

\* What is true of all the entries of a loop.
LEMMA LoopHolds ==
  ASSUME NEW way, WayOK(way), NEW s \in DOMAIN way.points, NEW t \in DOMAIN way.points, s # t,
         LeadsAlong(way, s, t), ~way.area
  PROVE  /\ s < t => way.forward \/ (way.backward /\ OnLoop(way, s, t))
         /\ t < s /\ ~way.backward =>
              /\ way.forward /\ OnLoop(way, s, t)
              /\ way.points[t] \in DOMAIN graph => IsCircular(way) \/ TouchesItself(way)
<1> DEFINE n == Len(way.points)
<1>1. /\ DOMAIN way.points = 1..n /\ n \in Nat /\ s \in 1..n /\ t \in 1..n
      /\ way.forward \in BOOLEAN /\ way.backward \in BOOLEAN
  BY DEF WayOK
<1>2. IsCircular(way) => OnLoop(way, s, t)
  <2>1. 1 \in 1..n /\ n \in 1..n /\ 1 < n /\ {s, t} \subseteq 1..n
    BY <1>1
  <2>2. QED
    BY <1>1, <2>1 DEF OnLoop, IsCircular
<1> HIDE DEF n
<1>3. ASSUME s < t, ComesBack(way, s, t) PROVE OnLoop(way, s, t)
  <2>1. PICK j \in DOMAIN way.points : t < j /\ way.points[j] = way.points[s]
    BY <1>3 DEF ComesBack
  <2>2. s < j /\ {s, t} \subseteq s..j
    BY <1>1, <1>3, <2>1
  <2>3. QED
    BY <2>1, <2>2 DEF OnLoop
<1>4. ASSUME t < s, ComesBack(way, t, s), ~way.backward
      PROVE  OnLoop(way, s, t) /\ (way.points[t] \in DOMAIN graph => TouchesItself(way))
  <2>1. PICK j \in DOMAIN way.points : s < j /\ way.points[j] = way.points[t]
    BY <1>4 DEF ComesBack
  <2>2. t < j /\ {s, t} \subseteq t..j
    BY <1>1, <1>4, <2>1
  <2>3. QED
    BY <1>4, <2>1, <2>2 DEF OnLoop, TouchesItself
<1>5. CASE s < t
  <2>1. ~(t < s)
    BY <1>1, <1>5
  <2>2. way.forward \/ (way.backward /\ OnLoop(way, s, t))
    BY <1>2, <1>3, <1>5, <2>1 DEF LeadsAlong, CanRoute
  <2>3. QED
    BY <2>1, <2>2
<1>6. CASE t < s
  <2>1. ~(s < t)
    BY <1>1, <1>6
  <2>2. QED
    BY <1>2, <1>4, <1>6, <2>1 DEF LeadsAlong, CanRoute
<1>7. QED
  BY <1>1, <1>5, <1>6

\* The entries along a way lead from the first of the indexes to the second.
LEMMA AddNodesLeads ==
  ASSUME WaysOK(ways), NEW k \in DOMAIN ways, NEW s \in DOMAIN ways[k].points,
         NEW t \in DOMAIN ways[k].points, s # t, LeadsAlong(ways[k], s, t),
         {ways[k].points[s], ways[k].points[t]} \subseteq SearchStops,
         t < s /\ ~ways[k].backward => ways[k].points[t] \in DOMAIN graph
  PROVE  AddNodes(k, s, t) \in Leads(ways, ways[k].points[s], ways[k].points[t])
<1> DEFINE n      == Len(ways[k].points)
           oneway == ~ways[k].backward /\ ~ways[k].area
           ahead  == s < t
           around == ~ahead /\ s # t + 1 /\ oneway
           again  == IF s = n /\ t = 1 THEN n ELSE 0
           count  == IF ahead THEN t - s ELSE IF around THEN n - s + t + again ELSE s - t
           At(j)  == IF ahead THEN s + j ELSE IF around THEN ((s + j - 1) % n) + 1 ELSE s - j
           at     == [j \in 0..count |-> At(j)]
<1>1. n \in Nat /\ s \in 1..n /\ t \in 1..n /\ WayOK(ways[k]) /\ DOMAIN ways[k].points = 1..n
  BY DEF WaysOK, WayOK
<1>2. /\ oneway <=> ~ways[k].backward /\ ~ways[k].area
      /\ ahead => ways[k].area \/ ways[k].forward \/ (ways[k].backward /\ OnLoop(ways[k], s, t))
      /\ ~ahead /\ oneway => ways[k].forward /\ OnLoop(ways[k], s, t)
      /\ ~ahead /\ oneway => IsCircular(ways[k]) \/ TouchesItself(ways[k])
  <2>1. ~ahead => t < s
    BY <1>1
  <2>2. QED
    BY <1>1, <2>1, LoopHolds
<1> HIDE DEF n, oneway
<1>3. /\ count \in Nat \ {0} /\ At(0) = s /\ At(count) = t
      /\ \A j \in 0..count : At(j) \in 1..n
      /\ \A j \in 1..count :
           \/ ahead /\ At(j) = At(j - 1) + 1 /\ {At(j - 1), At(j)} \subseteq s..t
           \/ around /\ (At(j) = At(j - 1) + 1 \/ (At(j - 1) = n /\ At(j) = 1))
           \/ ~ahead /\ ~around /\ At(j) = At(j - 1) - 1 /\ (s = t + 1 => At(j - 1) = s /\ At(j) = t)
  <2>1. CASE ahead
    BY <1>1, <2>1
  <2>2. CASE around
    <3>1. count = n - s + t + again /\ \A j \in Int : At(j) = ((s + j - 1) % n) + 1
      BY <2>2
    <3> DEFINE M(x) == x % n
    <3>2. /\ \A x \in Nat : M(x) \in 0..n - 1
          /\ \A x \in 0..n - 1 : M(x) = x /\ M(x + n) = x /\ M(x + n + n) = x
          /\ \A x \in 0..n + n + n - 2 : M(x + 1) = M(x) + 1 \/ (M(x) = n - 1 /\ M(x + 1) = 0)
      <4>1. n \in Nat \ {0}
        BY <1>1
      <4>2. QED
        BY <4>1, Modulo
    <3>3. \A j \in Int : At(j) = M(s + j - 1) + 1
      BY <3>1
    <3>4. count \in Nat \ {0} /\ count \in Int /\ again \in {0, n}
      BY <1>1, <2>2, <3>1
    <3> HIDE DEF M, At, count, again
    <3>5. At(0) = s
      <4>1. s + 0 - 1 = s - 1 /\ s - 1 \in 0..n - 1
        BY <1>1
      <4>2. QED
        BY <1>1, <3>2, <3>3, <4>1
    <3>6. At(count) = t
      <4>1. /\ s + count - 1 = (t - 1) + n \/ s + count - 1 = (t - 1) + n + n
            /\ t - 1 \in 0..n - 1
        BY <1>1, <3>1, <3>4
      <4>2. M(s + count - 1) = t - 1
        BY <3>2, <4>1
      <4>3. QED
        BY <1>1, <3>3, <3>4, <4>2
    <3>7. ASSUME NEW j \in 0..count PROVE At(j) \in 1..n
      <4>1. s + j - 1 \in Nat /\ j \in Int
        BY <1>1, <3>4
      <4>2. M(s + j - 1) \in 0..n - 1 /\ At(j) = M(s + j - 1) + 1
        BY <3>2, <3>3, <4>1
      <4>3. QED
        BY <1>1, <4>2
    <3>8. ASSUME NEW j \in 1..count
          PROVE  At(j) = At(j - 1) + 1 \/ (At(j - 1) = n /\ At(j) = 1)
      <4> DEFINE x == s + (j - 1) - 1
      <4>1. x \in Nat /\ s + j - 1 = x + 1 /\ j \in Int /\ j - 1 \in Int
        BY <1>1, <3>4
      <4>2. At(j) = M(x + 1) + 1 /\ At(j - 1) = M(x) + 1 /\ M(x) \in 0..n - 1
        BY <3>2, <3>3, <4>1
      <4>3. M(x + 1) = M(x) + 1 \/ (M(x) = n - 1 /\ M(x + 1) = 0)
        <5>1. x \in 0..n + n + n - 2
          BY <1>1, <3>1, <3>4
        <5> HIDE DEF x
        <5>2. QED
          BY <3>2, <5>1
      <4> HIDE DEF x
      <4>4. QED
        BY <1>1, <4>2, <4>3
    <3>9. QED
      BY <2>2, <3>4, <3>5, <3>6, <3>7, <3>8
  <2>3. CASE ~ahead /\ ~around
    BY <1>1, <2>3
  <2> HIDE DEF At, count, ahead, around
  <2>4. QED
    BY <2>1, <2>2, <2>3
<1>4. AddNodes(k, s, t) = [j \in 1..count |-> Step(k, At(j - 1), At(j), j = 1)]
  BY DEF AddNodes, n, oneway
<1> HIDE DEF At, count
<1>5. Course(at, count, k) /\ at[0] = s /\ at[count] = t
  <2>1. /\ 0 \in 0..count /\ count \in 0..count
        /\ \A j \in 1..count : j \in 0..count /\ j - 1 \in 0..count
    BY <1>3
  <2>2. ASSUME NEW j \in 1..count PROVE Beside(ways[k], At(j - 1), At(j))
    <3> DEFINE a == At(j - 1)
               b == At(j)
    <3> SUFFICES Beside(ways[k], a, b)
      OBVIOUS
    <3>1. a \in 1..n /\ b \in 1..n
      BY <1>3, <2>1
    <3>2. \/ ahead /\ b = a + 1 /\ {a, b} \subseteq s..t
          \/ around /\ (b = a + 1 \/ (a = n /\ b = 1))
          \/ ~ahead /\ ~around /\ b = a - 1 /\ (s = t + 1 => a = s /\ b = t)
      BY <1>3
    <3> HIDE DEF a, b
    <3>3. CASE ahead /\ b = a + 1 /\ {a, b} \subseteq s..t
      <4>1. b - a = 1
        BY <1>1, <3>1, <3>3
      <4>2. OnLoop(ways[k], s, t) => OnLoop(ways[k], a, b)
        <5> SUFFICES ASSUME OnLoop(ways[k], s, t) PROVE OnLoop(ways[k], a, b)
          OBVIOUS
        <5>1. PICK c, d \in DOMAIN ways[k].points :
                c < d /\ ways[k].points[c] = ways[k].points[d] /\ {s, t} \subseteq c..d
          BY DEF OnLoop
        <5>2. {a, b} \subseteq c..d
          BY <1>1, <3>1, <3>3, <5>1
        <5>3. QED
          BY <5>1, <5>2 DEF OnLoop
      <4>3. QED
        BY <1>2, <3>3, <4>1, <4>2 DEF Beside, InDirection, WrongWay
    <3>4. CASE around /\ (b = a + 1 \/ (a = n /\ b = 1))
      <4>1. b = a + 1 => b - a = 1
        BY <3>1
      <4>2. QED
        BY <1>2, <3>4, <4>1 DEF Beside, InDirection, n
    <3>5. CASE ~ahead /\ ~around /\ b = a - 1 /\ (s = t + 1 => a = s /\ b = t)
      <4>1. b - a = -1
        BY <3>1, <3>5
      <4>2. CASE ~oneway
        BY <1>2, <3>5, <4>1, <4>2 DEF Beside, InDirection
      <4>3. CASE oneway
        <5>1. a = s /\ b = t
          BY <3>5, <4>3
        <5>2. WrongWay(ways[k], a, b)
          BY <1>2, <3>5, <4>3, <5>1 DEF WrongWay
        <5>3. QED
          BY <4>1, <5>2 DEF Beside
      <4>4. QED
        BY <4>2, <4>3
    <3>6. QED
      BY <3>2, <3>3, <3>4, <3>5
  <2>3. QED
    BY <1>3, <2>1, <2>2 DEF Course, n
<1>6. [j \in 1..count |-> Step(k, at[j - 1], at[j], j = 1)]
        = [j \in 1..count |-> Step(k, At(j - 1), At(j), j = 1)]
  <2>1. \A j \in 1..count : at[j] = At(j) /\ at[j - 1] = At(j - 1)
    BY <1>3
  <2> HIDE DEF at
  <2>2. QED
    BY <2>1
<1> HIDE DEF at
<1>7. [j \in 1..count |-> Step(k, at[j - 1], at[j], j = 1)]
        \in Leads(ways, ways[k].points[at[0]], ways[k].points[at[count]])
  BY <1>3, <1>5, CourseLeads
<1>8. QED
  BY <1>4, <1>5, <1>6, <1>7

\* The index of a node in a way through it.
LEMMA IndexOfNode ==
  ASSUME MapInv, NEW k \in DOMAIN ways, NEW p \in PointsOf(ways[k])
  PROVE  /\ IndexIn(ways[k], p) \in DOMAIN ways[k].points
         /\ ways[k].points[IndexIn(ways[k], p)] = p
  BY GraphOfMap, IndexOfPoint DEF WaysOK, WayOK

\* No steps lead from a point to itself.
LEMMA NothingLeads ==
  ASSUME NEW w, NEW a
  PROVE  <<>> \in Leads(w, a, a)
  BY DEF Leads

\* From one node to the next along the way between them.
LEMMA MoveLeads ==
  ASSUME MapInv, NEW m \in Moves
  PROVE  LET way == ways[m[2].object]
         IN  AddNodes(m[2].object, IndexIn(way, m[1].node), IndexIn(way, m[2].node))
               \in Leads(ways, m[1].node, m[2].node)
<1> DEFINE a == m[1]
           b == m[2]
<1>1. a \in RNode /\ b \in RNode /\ MayGoOn(a, b)
  BY DEF Moves
<1> HIDE DEF a, b
<1>2. PICK k \in DOMAIN graph[a.node].paths :
        /\ graph[a.node].paths[k].to = b.node /\ graph[a.node].paths[k].way = b.object
        /\ graph[a.node].paths[k].usable
  BY <1>1 DEF MayGoOn
<1>3. a.node \in DOMAIN graph
  BY <1>1 DEF RNode
<1>4. /\ b.object \in DOMAIN ways /\ a.node # b.node
      /\ a.node \in PointsOf(ways[b.object]) /\ b.node \in PointsOf(ways[b.object])
      /\ Passable(ways[b.object], a.node, b.node) /\ b.node \in DOMAIN graph
  BY <1>2, <1>3, PathOfGraph
<1> DEFINE s == IndexIn(ways[b.object], a.node)
           t == IndexIn(ways[b.object], b.node)
<1>5. /\ s \in DOMAIN ways[b.object].points /\ ways[b.object].points[s] = a.node
      /\ t \in DOMAIN ways[b.object].points /\ ways[b.object].points[t] = b.node
  BY <1>4, IndexOfNode
<1>6. /\ WaysOK(ways) /\ s # t /\ LeadsAlong(ways[b.object], s, t)
      /\ {a.node, b.node} \subseteq SearchStops
  BY <1>3, <1>4, <1>5, GraphOfMap DEF Passable, SearchStops
<1> HIDE DEF s, t
<1>7. AddNodes(b.object, s, t) \in Leads(ways, a.node, b.node)
  <2>1. AddNodes(b.object, s, t) \in Leads(ways, ways[b.object].points[s], ways[b.object].points[t])
    BY <1>4, <1>5, <1>6, AddNodesLeads
  <2>2. QED
    BY <1>5, <2>1
<1>8. QED
  BY <1>7 DEF a, b, s, t

\* From the place asked for to a start node.
LEMMA StartLeads ==
  ASSUME MapInv, NEW n \in StartNodes
  PROVE  (IF PointAt(from) = n.node THEN <<>>
          ELSE AddNodes(from.way, from.index, IndexIn(ways[from.way], n.node)))
           \in Leads(ways, PointAt(from), n.node)
<1>1. /\ from.way \in DOMAIN ways /\ from.index \in DOMAIN ways[from.way].points /\ WaysOK(ways)
      /\ n.node \in PointsOf(ways[from.way])
  BY StartNodesAreNodes, GraphOfMap DEF RNode, MapInv, IsPlace
<1> DEFINE t == IndexIn(ways[from.way], n.node)
<1>2. t \in DOMAIN ways[from.way].points /\ ways[from.way].points[t] = n.node
  BY <1>1, IndexOfNode
<1>3. PointAt(from) = ways[from.way].points[from.index]
  BY DEF PointAt
<1> HIDE DEF t
<1>4. CASE PointAt(from) = n.node
  BY <1>4, NothingLeads
<1>5. CASE PointAt(from) # n.node
  <2>1. from.index # t
    BY <1>2, <1>3, <1>5
  <2>2. LeadsAlong(ways[from.way], from.index, t)
    <3>1. PICK j \in DOMAIN ways[from.way].points :
            /\ ways[from.way].points[j] = n.node
            /\ \/ j >= from.index /\ ways[from.way].forward
               \/ j < from.index /\ ways[from.way].backward
      <4>1. \A p : StartNode(p).node = p
        BY DEF StartNode
      <4>2. n.node \in NodeAfter(from, Forward(from)) \union NodeBefore(from, Backward(from))
        BY <1>5, <4>1 DEF StartNodes
      <4>3. QED
        BY <4>2 DEF NodeAfter, NodeBefore, Forward, Backward
    <3>2. WayOK(ways[from.way]) /\ from.index \in Int /\ j \in Int /\ from.index # j
      BY <1>1, <1>3, <1>5, <3>1 DEF WaysOK, WayOK
    <3>3. t <= j
      BY <3>1, <3>2, FirstIndex DEF t
    <3>4. (from.index < j /\ ways[from.way].forward) \/ (j < from.index /\ ways[from.way].backward)
      BY <3>1, <3>2
    <3>5. QED
      BY <1>1, <1>2, <2>1, <3>1, <3>2, <3>3, <3>4, EarlierIndices
  <2>3. {ways[from.way].points[from.index], ways[from.way].points[t]} \subseteq SearchStops
        /\ ways[from.way].points[t] \in DOMAIN graph
    BY <1>2, <1>3, StartNodesAreNodes DEF SearchStops, RNode
  <2>4. AddNodes(from.way, from.index, t)
          \in Leads(ways, ways[from.way].points[from.index], ways[from.way].points[t])
    BY <1>1, <1>2, <2>1, <2>2, <2>3, AddNodesLeads
  <2>5. QED
    BY <1>2, <1>3, <1>5, <2>4 DEF t
<1>6. QED
  BY <1>4, <1>5

\* From a target node to the place asked for.
LEMMA TargetLeads ==
  ASSUME MapInv, NEW p \in TargetNodes
  PROVE  (IF IndexIn(ways[to.way], p) = to.index THEN <<>>
          ELSE AddNodes(to.way, IndexIn(ways[to.way], p), to.index))
           \in Leads(ways, p, PointAt(to))
<1>1. /\ to.way \in DOMAIN ways /\ to.index \in DOMAIN ways[to.way].points /\ WaysOK(ways)
      /\ to.index = IndexIn(ways[to.way], ways[to.way].points[to.index])
  BY GraphOfMap DEF MapInv, IsPlace
<1>2. p \in PointsOf(ways[to.way])
  <2>1. CASE PointAt(to) \in DOMAIN graph
    BY <2>1, PointOfPlace DEF TargetNodes, MapInv
  <2>2. CASE PointAt(to) \notin DOMAIN graph
    BY <2>2 DEF TargetNodes, NodeBefore, NodeAfter, PointsOf
  <2>3. QED
    BY <2>1, <2>2
<1> DEFINE s == IndexIn(ways[to.way], p)
<1>3. s \in DOMAIN ways[to.way].points /\ ways[to.way].points[s] = p
  BY <1>1, <1>2, IndexOfNode
<1>4. PointAt(to) = ways[to.way].points[to.index]
  BY DEF PointAt
<1> HIDE DEF s
<1>5. CASE s = to.index
  BY <1>3, <1>4, <1>5, NothingLeads DEF s
<1>6. CASE s # to.index
  <2>1. PointAt(to) \notin DOMAIN graph
    BY <1>1, <1>4, <1>6 DEF s, TargetNodes
  <2>2. PICK j \in DOMAIN ways[to.way].points :
          /\ ways[to.way].points[j] = p /\ p \in DOMAIN graph
          /\ \/ j < to.index /\ ways[to.way].forward
             \/ j >= to.index /\ ways[to.way].backward
    <3>1. p \in NodeBefore(to, Forward(to)) \union NodeAfter(to, Backward(to))
      BY <2>1 DEF TargetNodes
    <3>2. QED
      BY <3>1 DEF NodeAfter, NodeBefore, Forward, Backward
  <2>3. WayOK(ways[to.way]) /\ to.index \in Int /\ j \in Int /\ s \in Int /\ to.index # j
    BY <1>1, <1>3, <1>4, <2>1, <2>2 DEF WaysOK, WayOK
  <2>4. s <= j
    BY <2>2, <2>3, FirstIndex DEF s
  <2>5. (j < to.index /\ ways[to.way].forward) \/ (to.index < j /\ ways[to.way].backward)
    BY <2>2, <2>3
  <2>6. LeadsAlong(ways[to.way], s, to.index)
    BY <1>1, <1>3, <1>6, <2>2, <2>3, <2>4, <2>5, EarlierIndices
  <2>7. /\ {ways[to.way].points[s], ways[to.way].points[to.index]} \subseteq SearchStops
        /\ ~(to.index < s /\ ~ways[to.way].backward)
    BY <1>3, <1>4, <2>2, <2>3, <2>4, <2>5 DEF SearchStops
  <2>8. AddNodes(to.way, s, to.index) \in Leads(ways, ways[to.way].points[s], ways[to.way].points[to.index])
    BY <1>1, <1>3, <1>6, <2>6, <2>7, AddNodesLeads
  <2>9. QED
    BY <1>3, <1>4, <1>6, <2>8 DEF s
<1>7. QED
  BY <1>5, <1>6

\* The parts of a route, one after the other.
PartsLead(w, part, at, a, m) == \A j \in a..m : part[j] \in Leads(w, at[j - 1], at[j])

Joins(f, z, part, m) == f = [j \in 1..m |-> IF j = 1 THEN z ELSE f[j - 1] \o part[j]]

\* Parts that lead from node to node lead on from where the first begins.
LEMMA PartsLeadOn ==
  ASSUME NEW w, NEW at, NEW m \in Nat \ {0}, NEW part, PartsLead(w, part, at, 2, m),
         NEW a, NEW z \in Leads(w, a, at[1])
  PROVE  /\ \E f : Joins(f, z, part, m)
         /\ \A f : Joins(f, z, part, m) => f[m] \in Leads(w, a, at[m])
<1> DEFINE W == [j \in 1..m |-> Leads(w, a, at[j])]
           g == [j \in 2..m |-> [v \in W[j - 1] |-> v \o part[j]]]
<1>1. ASSUME NEW j \in 2..m, NEW v \in W[j - 1] PROVE v \o part[j] \in W[j]
  <2>1. v \in Leads(w, a, at[j - 1]) /\ part[j] \in Leads(w, at[j - 1], at[j])
    BY DEF PartsLead
  <2>2. v \o part[j] \in Leads(w, a, at[j])
    BY <2>1, LeadsOn
  <2>3. QED
    BY <2>2
<1>2. z \in W[1]
  OBVIOUS
<1> HIDE DEF W
<1>3. \E f : f = [j \in 1..m |-> IF j = 1 THEN z ELSE f[j - 1] \o part[j]]
  <2>1. StaysIn(W, 1, m, z, g)
    <3>1. \A j \in 1 + 1..m : j \in 2..m
      OBVIOUS
    <3>2. \A j \in 2..m : \A v \in W[j - 1] : g[j][v] \in W[j]
      BY <1>1
    <3> HIDE DEF g
    <3>3. QED
      BY <1>2, <3>1, <3>2 DEF StaysIn
  <2> HIDE DEF g
  <2>2. PICK h : /\ h = [j \in 1..m |-> IF j = 1 THEN z ELSE g[j][h[j - 1]]]
                 /\ \A j \in 1..m : h[j] \in W[j]
    <3>1. 1 \in Int /\ m \in Int /\ 1 <= m
      OBVIOUS
    <3>2. QED
      BY <2>1, <3>1, Recursion
  <2>3. \A j \in 1..m : j # 1 => g[j][h[j - 1]] = h[j - 1] \o part[j]
    <3>1. \A j \in 1..m : j # 1 => j \in 2..m /\ j - 1 \in 1..m
      OBVIOUS
    <3>2. QED
      BY <2>2, <3>1 DEF g
  <2>4. [j \in 1..m |-> IF j = 1 THEN z ELSE g[j][h[j - 1]]]
          = [j \in 1..m |-> IF j = 1 THEN z ELSE h[j - 1] \o part[j]]
    BY <2>3
  <2>5. QED
    BY <2>2, <2>4
<1>4. ASSUME NEW f, f = [j \in 1..m |-> IF j = 1 THEN z ELSE f[j - 1] \o part[j]]
      PROVE  f[m] \in W[m]
  <2> DEFINE S == {j \in 1..m : f[j] \in W[j]}
  <2>1. 1 \in S
    BY <1>2, <1>4
  <2>2. ASSUME NEW j \in 1 + 1..m, j - 1 \in S PROVE j \in S
    <3>1. j \in 2..m /\ j \in 1..m /\ j # 1
      OBVIOUS
    <3>2. f[j] = f[j - 1] \o part[j]
      BY <1>4, <3>1
    <3>3. QED
      BY <1>1, <2>2, <3>1, <3>2
  <2> HIDE DEF S
  <2>3. Reaches(S, 1, m) /\ m \in 1..m /\ 1 \in Int /\ m \in Int
    BY <2>1, <2>2 DEF Reaches
  <2>4. m \in S
    BY <2>3, IntervalInduction
  <2>5. QED
    BY <2>4 DEF S
<1>5. W[m] = Leads(w, a, at[m])
  BY DEF W
<1>6. QED
  BY <1>3, <1>4, <1>5 DEF Joins

\* The entries made of a chain lead from the place asked for to the target.
LEMMA EntriesLead ==
  ASSUME MapInv, NEW nodes \in LegalChains, nodes[Len(nodes)].node \in TargetNodes
  PROVE  \E s \in Leads(ways, PointAt(from), PointAt(to)) : Entries(nodes) = Append(s, Closing)
<1> DEFINE m    == Len(nodes)
           at   == [j \in 1..m |-> nodes[j].node]
           z    == IF PointAt(from) = nodes[1].node THEN <<>>
                   ELSE AddNodes(from.way, from.index, IndexIn(ways[from.way], nodes[1].node))
           Part(j) == LET way == ways[nodes[j].object]
                      IN  AddNodes(nodes[j].object, IndexIn(way, nodes[j - 1].node),
                                   IndexIn(way, nodes[j].node))
           part == [j \in 2..m |-> Part(j)]
           A(f) == [j \in 1..m |-> IF j = 1 THEN z ELSE f[j - 1] \o Part(j)]
           B(f) == [j \in 1..m |-> IF j = 1 THEN z ELSE f[j - 1] \o part[j]]
           F    == CHOOSE f : f = A(f)
           last == nodes[m].node
           end  == IndexIn(ways[to.way], last)
           y    == IF end = to.index THEN <<>> ELSE AddNodes(to.way, end, to.index)
<1>1. /\ m \in Nat \ {0} /\ nodes[1] \in StartNodes
      /\ \A j \in 1..m - 1 : <<nodes[j], nodes[j + 1]>> \in Moves
  BY DEF LegalChains
<1> HIDE DEF m
<1>2. Entries(nodes) = Append(F[m] \o y, Closing)
  BY DEF Entries, m
<1>3. z \in Leads(ways, PointAt(from), at[1])
  <2>1. at[1] = nodes[1].node
    BY <1>1
  <2>2. QED
    BY <1>1, <2>1, StartLeads
<1>4. PartsLead(ways, part, at, 2, m)
  <2> SUFFICES ASSUME NEW j \in 2..m PROVE part[j] \in Leads(ways, at[j - 1], at[j])
    BY DEF PartsLead
  <2> DEFINE move == <<nodes[j - 1], nodes[j]>>
  <2>1. j - 1 \in 1..m - 1 /\ (j - 1) + 1 = j /\ j - 1 \in 1..m /\ j \in 1..m
    BY <1>1
  <2>2. move \in Moves /\ move[1] = nodes[j - 1] /\ move[2] = nodes[j]
    BY <1>1, <2>1
  <2> HIDE DEF move
  <2>3. LET way == ways[move[2].object]
        IN  AddNodes(move[2].object, IndexIn(way, move[1].node), IndexIn(way, move[2].node))
              \in Leads(ways, move[1].node, move[2].node)
    BY <2>2, MoveLeads
  <2>4. Part(j) \in Leads(ways, nodes[j - 1].node, nodes[j].node)
    BY <2>2, <2>3
  <2> HIDE DEF Part
  <2>5. QED
    BY <2>1, <2>4
<1>5. \A f : A(f) = B(f)
  <2>1. \A j \in 1..m : j # 1 => part[j] = Part(j)
    <3>1. \A j \in 1..m : j # 1 => j \in 2..m
      BY <1>1
    <3> HIDE DEF Part
    <3>2. QED
      BY <3>1
  <2> HIDE DEF Part, part, z
  <2>2. QED
    BY <2>1
<1> HIDE DEF z, Part, part, at, y
<1>6. /\ \E f : Joins(f, z, part, m)
      /\ \A f : Joins(f, z, part, m) => f[m] \in Leads(ways, PointAt(from), at[m])
  <2>1. m \in Nat \ {0}
    BY <1>1
  <2> HIDE DEF F, A, last, end
  <2>2. QED
    BY <2>1, <1>3, <1>4, PartsLeadOn
<1>7. Joins(F, z, part, m)
  <2>1. \A f : Joins(f, z, part, m) <=> f = B(f)
    BY DEF Joins
  <2> HIDE DEF A, B
  <2>2. QED
    BY <1>5, <1>6, <2>1
<1> HIDE DEF F
<1>8. F[m] \in Leads(ways, PointAt(from), last)
  <2>1. F[m] \in Leads(ways, PointAt(from), at[m])
    BY <1>6, <1>7
  <2>2. at[m] = last
    BY <1>1 DEF at
  <2>3. QED
    BY <2>1, <2>2
<1>9. y \in Leads(ways, last, PointAt(to))
  <2>1. last \in TargetNodes
    BY DEF m
  <2>2. QED
    BY <2>1, TargetLeads DEF y
<1> HIDE DEF last
<1>10. F[m] \o y \in Leads(ways, PointAt(from), PointAt(to))
  BY <1>8, <1>9, LeadsOn
<1>11. QED
  BY <1>2, <1>10

------------------------------------------------------------------------------
(* Routes are legal                                                        *)

\* Entries that lead from a to b and end there.
LinksUp(w, r, a, b) ==
  LET n == Len(r) - 1
  IN  /\ IF n = 0 THEN a = b ELSE StartOf(w, r[1]) = a /\ EndOf(w, r[n]) = b
      /\ \A j \in 1..n - 1 : EndOf(w, r[j]) = StartOf(w, r[j + 1])
      /\ \A j \in 1..n : IsStep(w, r[j])

\* Such entries connect the places asked for.
LEMMA LinksUpConnects == LinksUp(ways, route, PointAt(from), PointAt(to)) => Connects
  BY DEF Connects, LinksUp, StartOf, EndOf, IsStep, Beside

\* Steps from a to b, closed by an entry without a way, link up.
LEMMA LeadsLinksUp ==
  ASSUME NEW w, NEW a, NEW b, NEW s \in Leads(w, a, b), NEW closing
  PROVE  LinksUp(w, Append(s, closing), a, b)
<1> DEFINE r == Append(s, closing)
<1>1. /\ s \in Seq(StepEntry) /\ Len(s) \in Nat
      /\ IF s = <<>> THEN a = b ELSE StartOf(w, s[1]) = a /\ EndOf(w, s[Len(s)]) = b
      /\ \A j \in 1..Len(s) - 1 : EndOf(w, s[j]) = StartOf(w, s[j + 1])
      /\ \A j \in 1..Len(s) : IsStep(w, s[j])
  BY DEF Leads
<1>2. Len(r) - 1 = Len(s) /\ \A j \in 1..Len(s) : r[j] = s[j]
  <2>1. s \in Seq(StepEntry \union {closing})
    BY <1>1
  <2>2. Len(r) = Len(s) + 1 /\ \A j \in 1..Len(s) : r[j] = s[j]
    BY <2>1
  <2>3. QED
    BY <1>1, <2>2
<1> HIDE DEF r
<1>3. IF Len(s) = 0 THEN a = b ELSE StartOf(w, r[1]) = a /\ EndOf(w, r[Len(s)]) = b
  <2>1. Len(s) = 0 <=> s = <<>>
    BY <1>1
  <2>2. Len(s) # 0 => 1 \in 1..Len(s) /\ Len(s) \in 1..Len(s)
    BY <1>1
  <2>3. QED
    BY <1>1, <1>2, <2>1, <2>2
<1>4. \A j \in 1..Len(s) - 1 : EndOf(w, r[j]) = StartOf(w, r[j + 1])
  <2>1. \A j \in 1..Len(s) - 1 : j \in 1..Len(s) /\ j + 1 \in 1..Len(s)
    BY <1>1
  <2>2. QED
    BY <1>1, <1>2, <2>1
<1>5. \A j \in 1..Len(s) : IsStep(w, r[j])
  BY <1>1, <1>2
<1>6. LinksUp(w, r, a, b)
  BY <1>2, <1>3, <1>4, <1>5 DEF LinksUp
<1>7. QED
  BY <1>6 DEF r

\* The chains that ResolveRNodeChainToList makes.
LEMMA ChainIsLegal ==
  ASSUME ChainInv, current.node \in DOMAIN closeMap, closeMap[current.node] = current
  PROVE  Chain \in LegalChains /\ Chain[Len(Chain)] = current
<1>1. Leading(ChainTo, closeMap)
  <2> DEFINE F == CHOOSE f : Leading(f, closeMap)
  <2>1. Leading(F, closeMap)
    BY DEF ChainInv
  <2>2. ChainTo = F
    BY DEF ChainTo, Leading
  <2> HIDE DEF F
  <2>3. QED
    BY <2>1, <2>2
<1>2. ChainTo[current.node] \in LegalChains
      /\ ChainTo[current.node][Len(ChainTo[current.node])] = current
  BY <1>1 DEF ChainInv
<1>3. QED
  BY <1>2 DEF Chain

\* The route is made of the search as it ended.
MadeInv == IF Found THEN \E s \in Leads(ways, PointAt(from), PointAt(to)) : route = Append(s, Closing)
           ELSE route = <<>>

\* As long as the map stays the same the same entries lead from place to place.
LEMMA LeadsStays ==
  ASSUME UNCHANGED mapVars
  PROVE  \A a, b : Leads(ways, a, b)' = Leads(ways, a, b)
<1>1. graph' = graph /\ SearchStops' = SearchStops /\ ways' = ways
  BY DEF mapVars, SearchStops, PointAt, ways
<1>2. \A way, c, d : Beside(way, c, d)' <=> Beside(way, c, d)
  BY <1>1 DEF Beside, WrongWay, TouchesItself
<1>3. \A e : IsStep(ways, e)' <=> IsStep(ways, e)
  BY <1>1, <1>2 DEF IsStep
<1>4. QED
  BY <1>1, <1>3 DEF Leads

\* The route that Resolve makes of the chain leads from place to place.
LEMMA MadeStep ==
  ASSUME SearchInv, RouteInv, MadeInv, [Next]_vars
  PROVE  MadeInv'
<1>1. CASE Start \/ TakeCheapest \/ SkipPath \/ FollowPath \/ CannotLoad \/ CloseNode
  <2>1. pc # "done" /\ (pc' = "done" => result' # "true") /\ route' = route
    BY <1>1 DEF Start, TakeCheapest, SkipPath, FollowPath, CannotLoad, CloseNode, LookingAtPath
  <2>2. QED
    BY <2>1 DEF MadeInv, Found
<1>2. CASE Resolve
  <2>1. /\ UNCHANGED mapVars /\ current' = current /\ targets' = targets /\ pc = "resolve"
        /\ from' = from /\ to' = to
        /\ route' = IF current.node \in targets THEN Entries(Chain) ELSE <<>>
        /\ Found' <=> current.node \in targets
    BY <1>2 DEF Resolve, searchVars, mapVars, Found
  <2>2. CASE current.node \in targets
    <3>1. ways' = ways /\ PointAt(from)' = PointAt(from) /\ PointAt(to)' = PointAt(to)
          /\ Closing' = Closing
      BY <2>1, MapUnchanged DEF PointAt, Closing
    <3>2. MapInv /\ ChainInv /\ targets = TargetNodes
          /\ current.node \in DOMAIN closeMap /\ closeMap[current.node] = current
      BY <2>1 DEF SearchInv, ListsInv, RouteInv
    <3>3. Chain \in LegalChains /\ Chain[Len(Chain)] = current
      BY <3>2, ChainIsLegal
    <3>4. \E s \in Leads(ways, PointAt(from), PointAt(to)) : Entries(Chain) = Append(s, Closing)
      BY <2>2, <3>2, <3>3, EntriesLead
    <3>5. Leads(ways, PointAt(from), PointAt(to))' = Leads(ways, PointAt(from), PointAt(to))
      BY <2>1, <3>1, LeadsStays
    <3>6. QED
      BY <2>1, <2>2, <3>1, <3>4, <3>5 DEF MadeInv
  <2>3. CASE current.node \notin targets
    BY <2>1, <2>3 DEF MadeInv
  <2>4. QED
    BY <2>2, <2>3
<1>3. CASE UNCHANGED vars
  <2>1. /\ UNCHANGED mapVars /\ route' = route /\ pc' = pc /\ result' = result
        /\ current' = current /\ targets' = targets /\ to' = to
    BY <1>3 DEF vars, mapVars, searchVars
  <2>2. ways' = ways /\ PointAt(from)' = PointAt(from) /\ PointAt(to)' = PointAt(to)
    BY <2>1 DEF mapVars, ways, PointAt
  <2>3. Leads(ways, PointAt(from), PointAt(to))' = Leads(ways, PointAt(from), PointAt(to))
    BY <2>1, <2>2, LeadsStays
  <2>4. Found' = Found /\ Closing' = Closing
    BY <2>1 DEF Found, Closing
  <2>5. QED
    BY <2>1, <2>3, <2>4 DEF MadeInv
<1>4. QED
  BY <1>1, <1>2, <1>3 DEF Next

\* These invariants say that a route that is found is legal.
LEMMA InvariantsImplyLegal == SearchInv /\ RouteInv /\ MadeInv => RouteIsLegal
<1> SUFFICES ASSUME SearchInv, RouteInv, MadeInv, Found PROVE RouteIsLegal
  BY DEF RouteIsLegal
<1>1. /\ ChainInv /\ current.node \in DOMAIN closeMap /\ closeMap[current.node] = current
      /\ current.node \in targets
  BY DEF SearchInv, ListsInv, RouteInv, Found
<1>2. Chain \in LegalChains /\ Chain[Len(Chain)] = current
  BY <1>1, ChainIsLegal
<1>3. Chain[1] \in StartNodes /\ \A j \in 1..Len(Chain) - 1 : <<Chain[j], Chain[j + 1]>> \in Moves
  BY <1>2 DEF LegalChains
<1>4. \A j \in 1..Len(Chain) - 1 : MayGoOn(Chain[j], Chain[j + 1])
  BY <1>3 DEF Moves
<1>5. Connects
  BY LinksUpConnects, LeadsLinksUp DEF MadeInv
<1>6. QED
  BY <1>1, <1>2, <1>3, <1>4, <1>5 DEF RouteIsLegal

\* On a map whose forbidden turns can be excluded, every route that is found starts and
\* ends next to the places asked for, takes only turns, directions and accesses that are
\* allowed, and its entries lead from the one place to the other, in the directions of
\* the ways too but where the way comes to a point twice (WrongWay).
THEOREM RoutesAreLegal ==
  ASSUME \A n \in Networks : TurnsCanBeExcluded(n)
  PROVE  Spec => []RouteIsLegal
<1> DEFINE Inv == SearchInv /\ RouteInv /\ MadeInv
<1>1. Init => Inv
  BY SearchInit DEF Init, MadeInv, Found
<1>2. Inv /\ [Next]_vars => Inv'
  <2>1. SearchInv => TurnsCanBeExcluded(network)
    BY DEF SearchInv, MapInv
  <2>2. QED
    BY <2>1, SearchStep, MadeStep
<1>3. Inv => RouteIsLegal
  BY InvariantsImplyLegal
<1>4. QED
  BY <1>1, <1>2, <1>3, PTL DEF Spec

------------------------------------------------------------------------------
(* What it costs to get somewhere                                          *)

\* Products of natural numbers grow with their factors.
LEMMA Products ==
  ASSUME NEW k \in Nat, NEW l \in Nat, NEW a \in Nat, NEW b \in Nat, k <= l, a <= b
  PROVE  k * a \in Nat /\ l * b \in Nat /\ k * a <= l * b
<1> DEFINE m == l - k
           c == b - a
<1>1. m \in Nat /\ c \in Nat /\ l = k + m /\ b = a + c
  OBVIOUS
<1> HIDE DEF m, c
<1>2. \A x, y \in Nat : x * y \in Nat
  OBVIOUS
<1>3. l * b = k * a + k * c + m * b
  <2>1. (k + m) * b = k * b + m * b
    BY <1>1
  <2>2. k * (a + c) = k * a + k * c
    BY <1>1
  <2>3. QED
    BY <1>1, <2>1, <2>2
<1>4. k * a \in Nat /\ k * c \in Nat /\ m * b \in Nat
  BY <1>1, <1>2
<1>5. QED
  BY <1>3, <1>4

\* The triangle inequality, times a factor.
LEMMA ProductOfSum ==
  ASSUME NEW k \in Nat, NEW a \in Nat, NEW b \in Nat, NEW c \in Nat, a <= b + c
  PROVE  k * a \in Nat /\ k * b \in Nat /\ k * c \in Nat /\ k * a <= k * b + k * c
<1>1. k * a <= k * (b + c)
  BY Products
<1>2. k * (b + c) = k * b + k * c
  OBVIOUS
<1>3. \A x, y \in Nat : x * y \in Nat
  OBVIOUS
<1>4. QED
  BY <1>1, <1>2, <1>3

\* The estimate respects the triangle inequality.
LEMMA EstimateIsConsistent ==
  ASSUME MapInv, NEW p \in Points, NEW q \in Points
  PROVE  /\ EstimateCost(p) \in Nat /\ EstimateCost(q) \in Nat
         /\ EstimateFactor * Distance[p][q] \in Nat
         /\ EstimateFactor * Distance[p][q] = EstimateFactor * Distance[q][p]
         /\ EstimateCost(p) <= EstimateFactor * Distance[p][q] + EstimateCost(q)
<1> DEFINE t == PointAt(to)
<1>1. t \in Points
  BY PointOfPlace DEF MapInv
<1> HIDE DEF t
<1>2. /\ Distance[p][q] \in Nat /\ Distance[q][p] = Distance[p][q]
      /\ Distance[p][t] \in Nat /\ Distance[q][t] \in Nat
      /\ Distance[p][t] <= Distance[p][q] + Distance[q][t]
  BY <1>1, DistanceAssumption
<1>3. /\ EstimateFactor * Distance[p][t] \in Nat /\ EstimateFactor * Distance[p][q] \in Nat
      /\ EstimateFactor * Distance[q][t] \in Nat
      /\ EstimateFactor * Distance[p][t] <= EstimateFactor * Distance[p][q] + EstimateFactor * Distance[q][t]
  BY <1>2, ProductOfSum, EstimateAssumption
<1>4. QED
  BY <1>2, <1>3 DEF EstimateCost, t

\* No path costs less than what is estimated for its distance.
LEMMA PathsCostEnough ==
  ASSUME MapInv, Unrestricted, NEW p \in DOMAIN graph, NEW k \in DOMAIN graph[p].paths
  PROVE  PathCost(graph[p].paths[k]) >= EstimateFactor * Distance[p][graph[p].paths[k].to]
<1> DEFINE path == graph[p].paths[k]
<1>1. /\ p \in Points /\ path.to \in DOMAIN graph /\ path.way \in DOMAIN ways
      /\ path.distance \in Nat /\ path.distance >= Distance[p][path.to]
  BY PathOfGraph
<1> HIDE DEF path
<1>2. /\ ways[path.way].factor \in Nat /\ EstimateFactor <= ways[path.way].factor
      /\ path.to \in Points /\ Distance[p][path.to] \in Nat
  BY <1>1, GraphOfMap, EstimateAssumption, DistanceAssumption DEF Unrestricted
<1>3. EstimateFactor * Distance[p][path.to] <= ways[path.way].factor * path.distance
  BY <1>1, <1>2, Products, EstimateAssumption
<1>4. PathCost(path) \in Nat /\ EstimateFactor * Distance[p][path.to] \in Nat
  <2>1. \A a, b \in Nat : a * b \in Nat
    OBVIOUS
  <2>2. QED
    BY <1>1, <1>2, <2>1, EstimateAssumption DEF PathCost
<1>5. QED
  BY <1>3, <1>4 DEF PathCost, path

\* What a start node costs is no less than what is estimated to get to it, and so its
\* estimate is wrong by no more.
LEMMA StartCosts ==
  ASSUME MapInv, Unrestricted, NEW s \in StartNodes
  PROVE  /\ s.node \in DOMAIN graph /\ s.node \in Points /\ PointAt(from) \in Points
         /\ s.currentCost \in Nat
         /\ s.currentCost >= EstimateFactor * Distance[PointAt(from)][s.node]
         /\ s.estimateCost = EstimateCost(PointAt(from))
         /\ EstimateCost(s.node) <= s.estimateCost + s.currentCost
<1> DEFINE a == PointAt(from)
<1>1. /\ s \in RNode /\ s.estimateCost = EstimateCost(a)
      /\ s.currentCost = ways[from.way].factor * Distance[a][s.node]
  BY StartNodesAreNodes
<1>2. /\ a \in Points /\ from.way \in DOMAIN ways /\ s.node \in DOMAIN graph /\ s.node \in Points
      /\ s.currentCost \in Nat
  BY <1>1, PointOfPlace, GraphOfMap DEF RNode, MapInv
<1> HIDE DEF a
<1>3. /\ ways[from.way].factor \in Nat /\ EstimateFactor <= ways[from.way].factor
      /\ Distance[a][s.node] \in Nat
  BY <1>2, GraphOfMap, EstimateAssumption, DistanceAssumption DEF Unrestricted
<1>4. EstimateFactor * Distance[a][s.node] <= ways[from.way].factor * Distance[a][s.node]
  BY <1>3, Products, EstimateAssumption
<1>5. /\ EstimateCost(s.node) \in Nat /\ EstimateCost(a) \in Nat
      /\ EstimateFactor * Distance[s.node][a] \in Nat
      /\ EstimateFactor * Distance[s.node][a] = EstimateFactor * Distance[a][s.node]
      /\ EstimateCost(s.node) <= EstimateFactor * Distance[s.node][a] + EstimateCost(a)
  BY <1>2, EstimateIsConsistent
<1>6. s.currentCost >= EstimateFactor * Distance[a][s.node]
  BY <1>1, <1>2, <1>4, <1>5
<1>7. EstimateCost(s.node) <= s.estimateCost + s.currentCost
  BY <1>1, <1>2, <1>5, <1>6
<1>8. QED
  BY <1>1, <1>2, <1>6, <1>7 DEF a

------------------------------------------------------------------------------
(* What it costs to get to a node on some way there: the least set that    *)
(* has what it costs to start and is closed under going along paths.       *)

Label       == [node : DOMAIN graph, cost : Nat]
StartLabels == {[node |-> s.node, cost |-> s.currentCost] : s \in StartNodes}

\* The path with index l[3] leads from l[1] to l[2].
Links ==
  {l \in Label \X Label \X Nat :
     /\ l[3] \in DOMAIN graph[l[1].node].paths
     /\ graph[l[1].node].paths[l[3]].usable
     /\ l[2].node = graph[l[1].node].paths[l[3]].to
     /\ l[2].cost = l[1].cost + PathCost(graph[l[1].node].paths[l[3]])}

Spreads(T) ==
  /\ StartLabels \subseteq T
  /\ \A l \in Links : l[1] \in T => l[2] \in T

Labels == {x \in Label : \A T \in SUBSET Label : Spreads(T) => x \in T}

\* Induction: what has the start and is closed under paths has every label.
LEMMA LabelInduction ==
  ASSUME NEW T \in SUBSET Label, Spreads(T)
  PROVE  Labels \subseteq T
  BY DEF Labels

\* The labels themselves have the start and are closed under paths.
LEMMA LabelsSpread ==
  ASSUME MapInv
  PROVE  Labels \in SUBSET Label /\ Spreads(Labels)
<1>1. StartLabels \subseteq Label
  <2>1. \A s \in StartNodes : s.node \in DOMAIN graph /\ s.currentCost \in Nat
    BY StartNodesAreNodes DEF RNode
  <2>2. QED
    BY <2>1 DEF StartLabels, Label
<1>2. StartLabels \subseteq Labels
  BY <1>1 DEF Labels, Spreads
<1>3. \A l \in Links : l[2] \in Label
  BY DEF Links
<1>4. \A l \in Links : l[1] \in Labels => l[2] \in Labels
  BY <1>3 DEF Labels, Spreads
<1>5. QED
  BY <1>2, <1>4 DEF Labels, Spreads

\* What a link is like.
LEMMA LinkOfGraph ==
  ASSUME MapInv, Unrestricted, NEW l \in Links
  PROVE  /\ l[1] \in Label /\ l[2] \in Label /\ l[3] \in Nat \ {0}
         /\ l[1].node \in Points /\ l[2].node \in Points
         /\ l[1].cost \in Nat /\ l[2].cost \in Nat
         /\ EstimateFactor * Distance[l[1].node][l[2].node] \in Nat
         /\ l[2].cost >= l[1].cost + EstimateFactor * Distance[l[1].node][l[2].node]
<1> DEFINE x == l[1]
           y == l[2]
           k == l[3]
<1>1. /\ x \in Label /\ y \in Label /\ k \in DOMAIN graph[x.node].paths
      /\ y.node = graph[x.node].paths[k].to
      /\ y.cost = x.cost + PathCost(graph[x.node].paths[k])
  BY DEF Links
<1> HIDE DEF x, y, k
<1>2. /\ x.node \in DOMAIN graph /\ y.node \in DOMAIN graph /\ x.cost \in Nat /\ y.cost \in Nat
      /\ x.node \in Points /\ y.node \in Points
  BY <1>1, GraphOfMap DEF Label
<1>3. /\ PathCost(graph[x.node].paths[k]) \in Nat /\ k \in Nat \ {0}
      /\ PathCost(graph[x.node].paths[k]) >= EstimateFactor * Distance[x.node][y.node]
  BY <1>1, <1>2, GraphOfMap, PathOfGraph, PathsCostEnough
<1>4. EstimateFactor * Distance[x.node][y.node] \in Nat
  BY <1>2, EstimateIsConsistent
<1>5. y.cost >= x.cost + EstimateFactor * Distance[x.node][y.node]
  BY <1>1, <1>2, <1>3, <1>4
<1>6. QED
  BY <1>1, <1>2, <1>3, <1>4, <1>5 DEF x, y, k

\* A link may begin with other costs.
LEMMA LinkFrom ==
  ASSUME MapInv, NEW l \in Links, NEW c \in Nat
  PROVE  LET d == l[2].cost - l[1].cost
         IN  /\ d \in Nat
             /\ <<[node |-> l[1].node, cost |-> c], [node |-> l[2].node, cost |-> c + d], l[3]>> \in Links
<1> DEFINE p == l[1].node
           q == l[2].node
           k == l[3]
           cost == PathCost(graph[p].paths[k])
<1>1. /\ p \in DOMAIN graph /\ q \in DOMAIN graph /\ k \in Nat /\ k \in DOMAIN graph[p].paths
      /\ graph[p].paths[k].usable /\ q = graph[p].paths[k].to
      /\ l[1].cost \in Nat /\ l[2].cost = l[1].cost + cost
  BY DEF Links, Label
<1> HIDE DEF p, q, k
<1>2. cost \in Nat
  BY <1>1, PathOfGraph
<1>3. l[2].cost - l[1].cost = cost
  BY <1>1, <1>2
<1> DEFINE x == [node |-> p, cost |-> c]
           y == [node |-> q, cost |-> c + cost]
<1>4. x \in Label /\ y \in Label /\ x.node = p /\ y.node = q /\ y.cost = x.cost + cost
  BY <1>1, <1>2 DEF Label
<1> HIDE DEF x, y
<1>5. <<x, y, k>> \in Links
  BY <1>1, <1>4 DEF Links
<1>6. QED
  BY <1>2, <1>3, <1>5 DEF p, q, k, x, y

\* To get to a node costs no less than what is estimated from the start.
LEMMA LabelsCostEnough ==
  ASSUME MapInv, Unrestricted, NEW x \in Labels
  PROVE  /\ x.node \in DOMAIN graph /\ x.node \in Points /\ x.cost \in Nat
         /\ EstimateCost(PointAt(from)) <= x.cost + EstimateCost(x.node)
<1> DEFINE a == PointAt(from)
           T == {y \in Label : EstimateFactor * Distance[a][y.node] <= y.cost}
<1>1. a \in Points
  BY PointOfPlace DEF MapInv
<1> HIDE DEF a
<1>2. StartLabels \subseteq T
  <2>1. StartLabels \subseteq Label
    BY LabelsSpread DEF Spreads
  <2>2. \A s \in StartNodes : EstimateFactor * Distance[a][s.node] <= s.currentCost
    <3> SUFFICES ASSUME NEW s \in StartNodes PROVE EstimateFactor * Distance[a][s.node] <= s.currentCost
      OBVIOUS
    <3>1. /\ s.node \in Points /\ s.currentCost \in Nat
          /\ s.currentCost >= EstimateFactor * Distance[a][s.node]
      BY StartCosts DEF a
    <3>2. EstimateFactor * Distance[a][s.node] \in Nat
      BY <1>1, <3>1, EstimateIsConsistent
    <3>3. QED
      BY <3>1, <3>2
  <2>3. QED
    BY <2>1, <2>2 DEF StartLabels
<1>3. ASSUME NEW l \in Links, l[1] \in T PROVE l[2] \in T
  <2> DEFINE p == l[1].node
             q == l[2].node
  <2>1. /\ l[2] \in Label /\ p \in Points /\ q \in Points /\ l[1].cost \in Nat /\ l[2].cost \in Nat
        /\ EstimateFactor * Distance[p][q] \in Nat
        /\ l[2].cost >= l[1].cost + EstimateFactor * Distance[p][q]
        /\ EstimateFactor * Distance[a][p] <= l[1].cost
    BY <1>3, LinkOfGraph
  <2> HIDE DEF p, q
  <2>2. /\ Distance[a][q] \in Nat /\ Distance[a][p] \in Nat /\ Distance[p][q] \in Nat
        /\ Distance[a][q] <= Distance[a][p] + Distance[p][q]
    BY <1>1, <2>1, DistanceAssumption
  <2>3. /\ EstimateFactor * Distance[a][q] \in Nat /\ EstimateFactor * Distance[a][p] \in Nat
        /\ EstimateFactor * Distance[a][q] <= EstimateFactor * Distance[a][p] + EstimateFactor * Distance[p][q]
    BY <2>2, ProductOfSum, EstimateAssumption
  <2>4. EstimateFactor * Distance[a][q] <= l[2].cost
    BY <2>1, <2>3
  <2>5. QED
    BY <2>1, <2>4 DEF q
<1>4. Labels \subseteq T
  <2>1. T \in SUBSET Label /\ Spreads(T)
    BY <1>2, <1>3 DEF Spreads
  <2> HIDE DEF T
  <2>2. QED
    BY <2>1, LabelInduction
<1>5. x \in Label /\ EstimateFactor * Distance[a][x.node] <= x.cost
  BY <1>4
<1>6. x.node \in DOMAIN graph /\ x.node \in Points /\ x.cost \in Nat
  BY <1>5, GraphOfMap DEF Label
<1>7. /\ EstimateCost(a) \in Nat /\ EstimateCost(x.node) \in Nat
      /\ EstimateFactor * Distance[a][x.node] \in Nat
      /\ EstimateCost(a) <= EstimateFactor * Distance[a][x.node] + EstimateCost(x.node)
  BY <1>1, <1>6, EstimateIsConsistent
<1>8. QED
  BY <1>5, <1>6, <1>7 DEF a

\* The reference has only such costs.
LEMMA LowestAreLabels ==
  ASSUME MapInv
  PROVE  Lowest \subseteq Labels
<1> DEFINE N == Cardinality(Points)
           Cheapest(S) == {x \in S : \A y \in S : y.node = x.node => x.cost <= y.cost}
           Usable(p)   == {graph[p].paths[k] : k \in {l \in DOMAIN graph[p].paths : graph[p].paths[l].usable}}
           Round(S) == Cheapest(S \union UNION {{[node |-> path.to, cost |-> x.cost + PathCost(path)] :
                                                   path \in Usable(x.node)} : x \in S})
           A(f) == [n \in 0..N |-> IF n = 0 THEN StartLabels ELSE Round(f[n - 1])]
           F == CHOOSE f : f = A(f)
           W == [n \in 0..N |-> SUBSET Labels]
           g == [n \in 1..N |-> [v \in SUBSET Labels |-> Round(v)]]
<1>1. N \in Nat
  BY FS_CardinalityType, PointsAssumption
<1>2. Lowest = F[N]
  BY DEF Lowest, StartLabels
<1>3. \A S \in SUBSET Labels : Round(S) \in SUBSET Labels
  <2> SUFFICES ASSUME NEW S \in SUBSET Labels, NEW x \in S, NEW path \in Usable(x.node)
               PROVE  [node |-> path.to, cost |-> x.cost + PathCost(path)] \in Labels
    OBVIOUS
  <2> DEFINE y == [node |-> path.to, cost |-> x.cost + PathCost(path)]
  <2>1. Labels \in SUBSET Label /\ x \in Labels /\ x \in Label
    BY LabelsSpread
  <2>2. PICK k \in DOMAIN graph[x.node].paths : path = graph[x.node].paths[k] /\ path.usable
    OBVIOUS
  <2>3. x.node \in DOMAIN graph /\ x.cost \in Nat
    BY <2>1 DEF Label
  <2>4. path.to \in DOMAIN graph /\ PathCost(path) \in Nat /\ k \in Nat
    BY <2>2, <2>3, PathOfGraph, GraphOfMap
  <2>5. y \in Label /\ y.node = path.to /\ y.cost = x.cost + PathCost(path)
    BY <2>3, <2>4 DEF Label
  <2> HIDE DEF y
  <2>6. <<x, y, k>> \in Links
    BY <2>1, <2>2, <2>4, <2>5 DEF Links
  <2> DEFINE l == <<x, y, k>>
  <2>7. l \in Links /\ l[1] = x /\ l[2] = y
    BY <2>6
  <2> HIDE DEF l
  <2>8. y \in Labels
    BY <2>1, <2>7, LabelsSpread DEF Spreads
  <2>9. QED
    BY <2>8 DEF y
<1>4. StartLabels \in SUBSET Labels
  BY LabelsSpread DEF Spreads
<1> HIDE DEF Round, N
<1>5. \E f : f = A(f)
  <2>1. StaysIn(W, 0, N, StartLabels, g)
    <3>1. \A n \in 0 + 1..N : n \in 1..N /\ n - 1 \in 0..N /\ n \in 0..N
      BY <1>1
    <3>2. 0 \in 0..N
      BY <1>1
    <3>3. QED
      BY <1>3, <1>4, <3>1, <3>2 DEF StaysIn
  <2>2. PICK h : /\ h = [n \in 0..N |-> IF n = 0 THEN StartLabels ELSE g[n][h[n - 1]]]
                 /\ \A n \in 0..N : h[n] \in W[n]
    <3> HIDE DEF W, g
    <3>1. 0 \in Int /\ N \in Int /\ 0 <= N
      BY <1>1
    <3>2. QED
      BY <2>1, <3>1, Recursion
  <2>3. \A n \in 0..N : n # 0 => g[n][h[n - 1]] = Round(h[n - 1])
    <3>1. \A n \in 0..N : n # 0 => n \in 1..N /\ n - 1 \in 0..N
      BY <1>1
    <3>2. \A n \in 0..N : h[n] \in SUBSET Labels
      BY <2>2
    <3>3. QED
      BY <3>1, <3>2
  <2> HIDE DEF g, W
  <2>4. [n \in 0..N |-> IF n = 0 THEN StartLabels ELSE g[n][h[n - 1]]] = A(h)
    BY <2>3
  <2>5. h = A(h)
    BY <2>2, <2>4
  <2> HIDE DEF A
  <2>6. QED
    BY <2>5
<1>6. F = A(F)
  <2> HIDE DEF A
  <2>1. QED
    BY <1>5
<1> HIDE DEF F
<1> DEFINE S == {n \in 0..N : F[n] \in SUBSET Labels}
<1>7. 0 \in S
  BY <1>1, <1>4, <1>6
<1>8. ASSUME NEW n \in 0 + 1..N, n - 1 \in S PROVE n \in S
  <2>1. n \in 0..N /\ n # 0
    BY <1>1
  <2>2. F[n] = Round(F[n - 1])
    BY <1>6, <2>1
  <2>3. QED
    BY <1>3, <1>8, <2>1, <2>2
<1> HIDE DEF S
<1>9. Reaches(S, 0, N) /\ N \in 0..N /\ 0 \in Int /\ N \in Int
  BY <1>1, <1>7, <1>8 DEF Reaches
<1>10. N \in S
  BY <1>9, IntervalInduction
<1>11. QED
  BY <1>2, <1>10 DEF S

------------------------------------------------------------------------------
(* The search misses nothing                                               *)

Est    == [p \in Points |-> EstimateCost(p)]
Widest == {s \in StartNodes : \A o \in StartNodes : o.currentCost <= s.currentCost}

Searching == pc # "start" /\ result # "false"
Done      == IF pc = "paths" THEN DOMAIN closeMap \union {current.node} ELSE DOMAIN closeMap

\* A node the search is done with, or may still look at for no more than a cost.
Reached(p, cost, open, done) ==
  p \in done \/ (p \in DOMAIN open /\ open[p].currentCost <= cost)

\* What starts, and what can be got to along a path that was looked at, is reached.
KeptInv ==
  Searching =>
    /\ \A x \in StartLabels : Reached(x.node, x.cost, openMap, Done)
    /\ \A l \in Links :
         l[1].node \in DOMAIN closeMap /\ closeMap[l[1].node].currentCost = l[1].cost =>
           Reached(l[2].node, l[2].cost, openMap, Done)
    /\ \A l \in Links :
         pc = "paths" /\ l[1].node = current.node /\ l[1].cost = current.currentCost /\ l[3] < i =>
           Reached(l[2].node, l[2].cost, openMap, Done)

\* Only the estimates of start nodes are not those of the nodes themselves.
EntryInv ==
  /\ \A p \in DOMAIN openMap : /\ openMap[p].access
                               /\ openMap[p] \in StartNodes \/ openMap[p].estimateCost = Est[p]
  /\ pc = "paths" => current.access

\* The search is done with a node when there is no way to it that is cheaper by more
\* than what it costs to start.
CheapInv ==
  \A x \in Labels, s \in Widest :
    /\ x.node \in DOMAIN closeMap => closeMap[x.node].currentCost <= x.cost + s.currentCost
    /\ pc = "paths" /\ x.node = current.node => current.currentCost <= x.cost + s.currentCost

\* It goes on until it is done with a target or has nothing left.
EndInv ==
  /\ pc \in {"take", "paths"} => DOMAIN closeMap \intersect targets = {}
  /\ pc = "resolve" \/ result = "true" =>
       /\ \A p \in DOMAIN closeMap : p \in targets => p = current.node
       /\ current.node \in targets \/ DOMAIN openMap = {}

\* To the target as the crow flies, the node it looks at costs no more than any target
\* but for twice what it costs to start.
TargetInv ==
  pc \in {"paths", "resolve"} \/ result = "true" =>
    \A x \in Labels, s \in Widest :
      x.node \in targets =>
        current.currentCost + Est[current.node] <= x.cost + Est[x.node] + 2 * s.currentCost

CostInv == KeptInv /\ EntryInv /\ CheapInv /\ EndInv /\ TargetInv

\* Costs depend on the map and the places only.
LEMMA CostsUnchanged ==
  ASSUME UNCHANGED mapVars
  PROVE  /\ Est' = Est /\ Widest' = Widest /\ StartLabels' = StartLabels /\ Links' = Links
         /\ Labels' = Labels /\ (Unrestricted' <=> Unrestricted)
<1>1. /\ network' = network /\ graph' = graph /\ from' = from /\ to' = to /\ ways' = ways
      /\ StartNodes' = StartNodes
  BY MapUnchanged DEF mapVars
<1>2. Est' = Est
  BY <1>1 DEF Est, EstimateCost, PointAt
<1>3. Widest' = Widest
  BY <1>1 DEF Widest
<1>4. StartLabels' = StartLabels
  BY <1>1 DEF StartLabels
<1>5. Links' = Links
  BY <1>1 DEF Links, Label, PathCost
<1>6. Labels' = Labels
  BY <1>1, <1>4, <1>5 DEF Labels, Spreads, Label
<1>7. Unrestricted' <=> Unrestricted
  BY <1>1 DEF Unrestricted
<1>8. QED
  BY <1>2, <1>3, <1>4, <1>5, <1>6, <1>7

\* On a map without restrictions no turn is excluded.
LEMMA NoTurnsExcluded ==
  ASSUME MapInv, Unrestricted
  PROVE  /\ TurnsCanBeExcluded(network)
         /\ \A p \in DOMAIN graph : graph[p].excludes = {}
<1>1. \A p, f, t : CanTurn(network.restrictions, p, f, t)
  BY DEF CanTurn, Unrestricted
<1>2. TurnsCanBeExcluded(network)
  BY <1>1 DEF TurnsCanBeExcluded
<1>3. \A p \in DOMAIN graph : graph[p].excludes = {}
  BY <1>1, GraphOfMap DEF Excludes
<1>4. QED
  BY <1>2, <1>3

\* What the widest of the start nodes is like.
LEMMA WidestCosts ==
  ASSUME MapInv, Unrestricted, NEW s \in Widest
  PROVE  s.currentCost \in Nat /\ \A o \in StartNodes : o.currentCost \in Nat /\ o.currentCost <= s.currentCost
  BY StartCosts DEF Widest

\* An open node that is not too expensive itself is not by its overall cost.
LEMMA OpenCovers ==
  ASSUME MapInv, Unrestricted, ListsInv, EntryInv, NEW s \in Widest, NEW x \in Labels,
         x.node \in DOMAIN openMap, openMap[x.node].currentCost <= x.cost + s.currentCost
  PROVE  OverallCost(openMap[x.node]) <= x.cost + Est[x.node] + s.currentCost
<1> DEFINE n == openMap[x.node]
<1>1. /\ n \in RNode /\ n.currentCost \in Nat
  BY DEF ListsInv, Keyed, RNode
<1>2. /\ x.node \in Points /\ x.cost \in Nat
      /\ EstimateCost(PointAt(from)) <= x.cost + EstimateCost(x.node)
  BY LabelsCostEnough
<1>3. s.currentCost \in Nat /\ \A o \in StartNodes : o.currentCost <= s.currentCost
  BY WidestCosts
<1>4. Est[x.node] = EstimateCost(x.node) /\ EstimateCost(x.node) \in Nat
  BY <1>2, EstimateIsConsistent DEF Est
<1>5. CASE n \in StartNodes
  <2>1. /\ n.estimateCost = EstimateCost(PointAt(from)) /\ n.currentCost <= s.currentCost
        /\ EstimateCost(PointAt(from)) \in Nat
    BY <1>3, <1>5, StartCosts, EstimateIsConsistent
  <2> HIDE DEF n
  <2>2. QED
    BY <1>1, <1>2, <1>3, <1>4, <2>1 DEF OverallCost, n
<1>6. CASE n.estimateCost = Est[x.node]
  <2> HIDE DEF n
  <2>1. n.currentCost <= x.cost + s.currentCost
    BY DEF n
  <2>2. QED
    BY <1>1, <1>2, <1>3, <1>4, <1>6, <2>1 DEF OverallCost, n
<1>7. QED
  BY <1>5, <1>6 DEF EntryInv

\* Between two nodes, every node that can be got to is closed, or an open one is not
\* more expensive.
Covered(x, s) ==
  \/ x.node \in DOMAIN closeMap
  \/ \E p \in DOMAIN openMap : OverallCost(openMap[p]) <= x.cost + Est[x.node] + s.currentCost

\* Between two nodes every label is covered: by induction over the labels.
LEMMA AllAreCovered ==
  ASSUME SearchInv, Unrestricted, KeptInv, EntryInv, CheapInv, Searching, pc # "paths",
         NEW s \in Widest
  PROVE  \A x \in Labels : Covered(x, s)
<1> DEFINE T == {x \in Labels : Covered(x, s)}
<1>0. MapInv /\ ListsInv /\ Labels \in SUBSET Label /\ Spreads(Labels) /\ Done = DOMAIN closeMap
  BY LabelsSpread DEF SearchInv, Done
<1>1. StartLabels \subseteq T
  <2> SUFFICES ASSUME NEW x \in StartLabels PROVE Covered(x, s)
    BY <1>0 DEF Spreads
  <2>1. x \in Labels /\ x.cost \in Nat /\ s.currentCost \in Nat
    BY <1>0, LabelsCostEnough, WidestCosts DEF Spreads
  <2>2. Reached(x.node, x.cost, openMap, DOMAIN closeMap)
    BY <1>0 DEF KeptInv
  <2>3. CASE x.node \in DOMAIN closeMap
    BY <2>3 DEF Covered
  <2>4. CASE x.node \in DOMAIN openMap /\ openMap[x.node].currentCost <= x.cost
    <3>1. openMap[x.node].currentCost \in Nat
      BY <1>0, <2>4 DEF ListsInv, Keyed, RNode
    <3>2. openMap[x.node].currentCost <= x.cost + s.currentCost
      BY <2>1, <2>4, <3>1
    <3>3. QED
      BY <1>0, <2>1, <2>4, <3>2, OpenCovers DEF Covered
  <2>5. QED
    BY <2>2, <2>3, <2>4 DEF Reached
<1>2. ASSUME NEW l \in Links, l[1] \in T PROVE l[2] \in T
  <2> DEFINE x == l[1]
             y == l[2]
  <2>1. x \in Labels /\ y \in Labels /\ Covered(x, s)
    BY <1>0, <1>2 DEF Spreads
  <2>2. /\ x.node \in Points /\ y.node \in Points /\ x.cost \in Nat /\ y.cost \in Nat
        /\ EstimateFactor * Distance[x.node][y.node] \in Nat
        /\ y.cost >= x.cost + EstimateFactor * Distance[x.node][y.node]
    BY <1>0, LinkOfGraph
  <2>3. s.currentCost \in Nat
    BY <1>0, WidestCosts
  <2> SUFFICES Covered(y, s)
    BY <2>1
  <2>4. CASE x.node \in DOMAIN closeMap
    <3> DEFINE e == closeMap[x.node]
               d == y.cost - x.cost
               u == [node |-> x.node, cost |-> e.currentCost]
               v == [node |-> y.node, cost |-> e.currentCost + d]
               m == <<u, v, l[3]>>
    <3>1. e.currentCost \in Nat /\ e.currentCost <= x.cost + s.currentCost
      BY <1>0, <2>1, <2>4 DEF ListsInv, Keyed, RNode, CheapInv
    <3>2. m \in Links /\ d \in Nat
      BY <1>0, <3>1, LinkFrom
    <3>3. m[1].node = x.node /\ m[1].cost = e.currentCost /\ m[2].node = y.node /\ m[2].cost = e.currentCost + d
      OBVIOUS
    <3> HIDE DEF e, d, u, v, m, x, y
    <3>4. Reached(y.node, e.currentCost + d, openMap, DOMAIN closeMap)
      <4>1. Reached(m[2].node, m[2].cost, openMap, DOMAIN closeMap)
        BY <1>0, <2>4, <3>2, <3>3 DEF KeptInv, e
      <4>2. QED
        BY <3>3, <4>1
    <3>5. e.currentCost + d <= y.cost + s.currentCost
      BY <2>2, <2>3, <3>1, <3>2 DEF d
    <3>6. CASE y.node \in DOMAIN closeMap
      BY <3>6 DEF Covered
    <3>7. CASE y.node \in DOMAIN openMap /\ openMap[y.node].currentCost <= e.currentCost + d
      <4>1. openMap[y.node].currentCost \in Nat
        BY <1>0, <3>7 DEF ListsInv, Keyed, RNode
      <4>2. openMap[y.node].currentCost <= y.cost + s.currentCost
        BY <2>2, <2>3, <3>1, <3>2, <3>5, <3>7, <4>1
      <4>3. QED
        BY <1>0, <2>1, <3>7, <4>2, OpenCovers DEF Covered
    <3>8. QED
      BY <3>4, <3>6, <3>7 DEF Reached
  <2>5. CASE x.node \notin DOMAIN closeMap
    <3> HIDE DEF x, y
    <3>1. PICK p \in DOMAIN openMap : OverallCost(openMap[p]) <= x.cost + Est[x.node] + s.currentCost
      BY <2>1, <2>5 DEF Covered
    <3>2. OverallCost(openMap[p]) \in Nat
      <4>1. openMap[p] \in RNode
        BY <1>0 DEF ListsInv, Keyed
      <4>2. QED
        BY <4>1 DEF RNode, OverallCost
    <3>3. /\ Est[x.node] = EstimateCost(x.node) /\ Est[y.node] = EstimateCost(y.node)
          /\ EstimateCost(x.node) \in Nat /\ EstimateCost(y.node) \in Nat
          /\ EstimateCost(x.node) <= EstimateFactor * Distance[x.node][y.node] + EstimateCost(y.node)
      BY <1>0, <2>2, EstimateIsConsistent DEF Est
    <3>4. OverallCost(openMap[p]) <= y.cost + Est[y.node] + s.currentCost
      BY <2>2, <2>3, <3>1, <3>2, <3>3
    <3>5. QED
      BY <3>4 DEF Covered
  <2>6. QED
    BY <2>4, <2>5
<1>3. T \in SUBSET Label /\ Spreads(T)
  BY <1>0, <1>1, <1>2 DEF Spreads
<1> HIDE DEF T
<1>4. Labels \subseteq T
  BY <1>3, LabelInduction
<1>5. QED
  BY <1>4 DEF T

------------------------------------------------------------------------------
(* The steps again                                                         *)

\* Entries that are taken out are done with, and others do not get more expensive.
NoneIsLost(open, done, open2, done2) ==
  /\ done \subseteq done2
  /\ \A p \in DOMAIN open :
       /\ open[p].currentCost \in Nat
       /\ \/ p \in done2
          \/ p \in DOMAIN open2 /\ open2[p].currentCost \in Nat /\ open2[p].currentCost <= open[p].currentCost

\* What is reached stays reached when no list loses or raises an entry.
LEMMA ReachedStays ==
  ASSUME NEW open, NEW done, NEW open2, NEW done2, NoneIsLost(open, done, open2, done2),
         NEW p, NEW cost \in Nat, Reached(p, cost, open, done)
  PROVE  Reached(p, cost, open2, done2)
<1>1. CASE p \in done
  BY <1>1 DEF Reached, NoneIsLost
<1>2. CASE p \in DOMAIN open /\ open[p].currentCost <= cost
  BY <1>2 DEF Reached, NoneIsLost
<1>3. QED
  BY <1>1, <1>2 DEF Reached

\* What was reached stays so, when nothing more is closed or looked at.
LEMMA KeptStays ==
  ASSUME MapInv, Unrestricted, KeptInv, Searching, UNCHANGED mapVars, closeMap' = closeMap,
         NoneIsLost(openMap, Done, openMap', Done')
  PROVE  /\ \A x \in StartLabels' : Reached(x.node, x.cost, openMap', Done')
         /\ \A l \in Links' :
              l[1].node \in DOMAIN closeMap' /\ closeMap'[l[1].node].currentCost = l[1].cost =>
                Reached(l[2].node, l[2].cost, openMap', Done')
         /\ \A l \in Links :
              pc = "paths" /\ l[1].node = current.node /\ l[1].cost = current.currentCost /\ l[3] < i =>
                Reached(l[2].node, l[2].cost, openMap', Done')
<1>1. StartLabels' = StartLabels /\ Links' = Links
  BY CostsUnchanged
<1>2. \A x \in StartLabels : x.cost \in Nat
  BY LabelsSpread, LabelsCostEnough DEF Spreads
<1>3. \A l \in Links : l[2].cost \in Nat
  BY LinkOfGraph
<1>4. ASSUME NEW x \in StartLabels PROVE Reached(x.node, x.cost, openMap', Done')
  <2>1. Reached(x.node, x.cost, openMap, Done)
    BY DEF KeptInv
  <2>2. QED
    BY <1>2, <2>1, ReachedStays
<1>5. ASSUME NEW l \in Links, Reached(l[2].node, l[2].cost, openMap, Done)
      PROVE  Reached(l[2].node, l[2].cost, openMap', Done')
  BY <1>3, <1>5, ReachedStays
<1>6. QED
  BY <1>1, <1>4, <1>5 DEF KeptInv

\* At first there are no costs.
LEMMA CostInit == Init => CostInv
<1> SUFFICES ASSUME Init PROVE CostInv
  OBVIOUS
<1>1. openMap = NoMap /\ closeMap = NoMap /\ DOMAIN NoMap = {} /\ pc = "start" /\ result = "none"
  BY DEF Init, NoMap
<1>2. QED
  BY <1>1 DEF CostInv, KeptInv, Searching, EntryInv, CheapInv, EndInv, TargetInv

\* Start keeps the costs in order: all that starts is open.
LEMMA StartCost ==
  ASSUME SearchInv, Unrestricted, CostInv, Start
  PROVE  CostInv'
<1>1. /\ MapInv /\ ListsInv /\ UNCHANGED mapVars /\ closeMap' = closeMap /\ pc = "start"
      /\ closeMap = NoMap /\ openMap = NoMap /\ DOMAIN NoMap = {} /\ result = "none"
  BY DEF SearchInv, ListsInv, Start, NoMap
<1>2. StartLabels' = StartLabels /\ StartNodes' = StartNodes
  BY <1>1, CostsUnchanged, MapUnchanged
<1>3. CheapInv'
  BY <1>1 DEF CheapInv, Start
<1>4. CASE TargetNodes = {} \/ StartNodes = {}
  <2>1. pc' = "done" /\ result' = "false" /\ openMap' = openMap
    BY <1>4 DEF Start
  <2>2. QED
    BY <1>1, <1>3, <2>1 DEF CostInv, KeptInv, Searching, EntryInv, EndInv, TargetInv
<1>5. CASE ~(TargetNodes = {} \/ StartNodes = {})
  <2>1. /\ pc' = "take" /\ result' = "none"
        /\ openMap' = [p \in {n.node : n \in StartNodes} |-> StartNode(p)]
    BY <1>1, <1>5 DEF Start
  <2>2. \A n \in StartNodes : n = StartNode(n.node) /\ n.currentCost \in Nat /\ n.access
    BY <1>1, StartNodesAreNodes DEF RNode, StartNode
  <2>3. \A n \in StartNodes : n.node \in DOMAIN openMap' /\ openMap'[n.node] = n
    BY <2>1, <2>2
  <2>4. \A p \in DOMAIN openMap' : openMap'[p] \in StartNodes
    <3>1. \A p \in DOMAIN openMap' : \E n \in StartNodes : p = n.node
      BY <2>1
    <3>2. QED
      BY <2>3, <3>1
  <2>5. \A x \in StartLabels : Reached(x.node, x.cost, openMap', Done')
    BY <2>2, <2>3 DEF StartLabels, Reached
  <2>6. KeptInv'
    BY <1>1, <1>2, <2>1, <2>5 DEF KeptInv
  <2>7. EntryInv'
    BY <1>2, <2>1, <2>2, <2>4 DEF EntryInv
  <2>8. EndInv' /\ TargetInv'
    BY <1>1, <2>1 DEF EndInv, TargetInv
  <2>9. QED
    BY <1>3, <2>6, <2>7, <2>8 DEF CostInv
<1>6. QED
  BY <1>4, <1>5

\* The entry with the least overall cost costs too much by the widest start at most.
LEMMA TakeCheapestCost ==
  ASSUME SearchInv, Unrestricted, CostInv, TakeCheapest
  PROVE  CostInv'
<1>1. /\ MapInv /\ ListsInv /\ UNCHANGED mapVars
      /\ closeMap' = closeMap /\ targets' = targets /\ result' = result
      /\ pc = "take" /\ pc' = "paths" /\ i' = 1
  BY DEF SearchInv, TakeCheapest
<1>2. /\ Est' = Est /\ Widest' = Widest /\ Links' = Links /\ Labels' = Labels /\ StartNodes' = StartNodes
  BY <1>1, CostsUnchanged, MapUnchanged
<1>3. PICK n \in openList : /\ current' = n
                            /\ \A o \in openList \ {n} : Cheaper(n, o)
                            /\ openMap' = [p \in DOMAIN openMap \ {n.node} |-> openMap[p]]
  BY DEF TakeCheapest
<1>4. /\ \A p \in DOMAIN openMap : openMap[p] \in RNode /\ openMap[p].currentCost \in Nat
      /\ n.node \in DOMAIN openMap /\ openMap[n.node] = n /\ n.node \notin DOMAIN closeMap
      /\ n.node \in Points /\ n.currentCost \in Nat /\ n.estimateCost \in Nat
      /\ result = "none" /\ openList = {openMap[p] : p \in DOMAIN openMap}
  <2>1. /\ \A p \in DOMAIN openMap : openMap[p] \in RNode /\ openMap[p].node = p
        /\ openList = {openMap[p] : p \in DOMAIN openMap} /\ result = "none"
        /\ DOMAIN openMap \intersect DOMAIN closeMap = {}
    BY <1>1 DEF ListsInv, Keyed
  <2>2. n.node \in DOMAIN openMap /\ openMap[n.node] = n
    BY <2>1
  <2>3. /\ \A m \in RNode : m.node \in Points /\ m.currentCost \in Nat /\ m.estimateCost \in Nat
    BY <1>1, GraphOfMap DEF RNode
  <2>4. QED
    BY <2>1, <2>2, <2>3
<1>5. Searching /\ Searching' /\ pc # "paths"
  BY <1>1, <1>4 DEF Searching
<1>6. Done = DOMAIN closeMap /\ Done' = DOMAIN closeMap \union {n.node}
  BY <1>1, <1>3 DEF Done
<1>7. NoneIsLost(openMap, Done, openMap', Done')
  BY <1>3, <1>4, <1>6 DEF NoneIsLost
<1>8. KeptInv'
  <2>1. \A l \in Links : ~(l[3] < 1)
    BY <1>1, LinkOfGraph
  <2>2. /\ \A x \in StartLabels' : Reached(x.node, x.cost, openMap', Done')
        /\ \A l \in Links' :
             l[1].node \in DOMAIN closeMap' /\ closeMap'[l[1].node].currentCost = l[1].cost =>
               Reached(l[2].node, l[2].cost, openMap', Done')
    BY <1>1, <1>5, <1>7, KeptStays DEF CostInv
  <2>3. QED
    BY <1>1, <1>2, <2>1, <2>2 DEF KeptInv
<1>9. EntryInv'
  <2>1. \A p \in DOMAIN openMap' : p \in DOMAIN openMap /\ openMap'[p] = openMap[p]
    BY <1>3
  <2>2. n.access
    BY <1>4 DEF CostInv, EntryInv
  <2>3. QED
    BY <1>2, <1>3, <2>1, <2>2 DEF CostInv, EntryInv
\* The node taken is the cheapest one.
<1>10. ASSUME NEW x \in Labels, NEW s \in Widest, x.node \notin DOMAIN closeMap
       PROVE  /\ x.cost \in Nat /\ Est[x.node] \in Nat /\ s.currentCost \in Nat
              /\ OverallCost(n) <= x.cost + Est[x.node] + s.currentCost
  <2>1. x.cost \in Nat /\ Est[x.node] \in Nat /\ s.currentCost \in Nat
    BY <1>1, LabelsCostEnough, EstimateIsConsistent, WidestCosts DEF Est
  <2>2. Covered(x, s)
    BY <1>5, AllAreCovered DEF CostInv
  <2>3. PICK p \in DOMAIN openMap : OverallCost(openMap[p]) <= x.cost + Est[x.node] + s.currentCost
    BY <1>10, <2>2 DEF Covered
  <2>4. OverallCost(n) <= OverallCost(openMap[p])
    <3>1. openMap[p] \in openList
      BY <1>4
    <3>2. CASE openMap[p] = n
      <4>1. OverallCost(n) \in Nat
        BY <1>4 DEF OverallCost
      <4>2. QED
        BY <3>2, <4>1
    <3>3. CASE openMap[p] # n
      <4>1. Cheaper(n, openMap[p])
        BY <1>3, <3>1, <3>3
      <4>2. OverallCost(n) \in Nat /\ OverallCost(openMap[p]) \in Nat
        BY <1>4 DEF OverallCost, RNode
      <4>3. QED
        BY <4>1, <4>2 DEF Cheaper
    <3>4. QED
      BY <3>2, <3>3
  <2>5. OverallCost(n) \in Nat /\ OverallCost(openMap[p]) \in Nat
    BY <1>4 DEF OverallCost, RNode
  <2>6. QED
    BY <2>1, <2>3, <2>4, <2>5
<1>11. Est[n.node] \in Nat
  BY <1>1, <1>4, EstimateIsConsistent DEF Est
<1>12. ASSUME NEW s \in Widest
       PROVE  \/ n.estimateCost = Est[n.node]
              \/ /\ n.currentCost <= s.currentCost
                 /\ Est[n.node] <= n.estimateCost + s.currentCost
  <2>1. CASE n \in StartNodes
    <3>1. n.currentCost <= s.currentCost /\ s.currentCost \in Nat
      BY <1>1, <2>1, WidestCosts
    <3>2. Est[n.node] <= n.estimateCost + n.currentCost
      BY <1>1, <1>4, <2>1, StartCosts DEF Est
    <3>3. QED
      BY <1>4, <1>11, <3>1, <3>2
  <2>2. QED
    BY <1>4, <2>1 DEF CostInv, EntryInv
<1>13. CheapInv'
  <2> SUFFICES ASSUME NEW x \in Labels, NEW s \in Widest
               PROVE  /\ x.node \in DOMAIN closeMap => closeMap[x.node].currentCost <= x.cost + s.currentCost
                      /\ x.node = n.node => n.currentCost <= x.cost + s.currentCost
    BY <1>1, <1>2, <1>3 DEF CheapInv
  <2>1. x.node \in DOMAIN closeMap => closeMap[x.node].currentCost <= x.cost + s.currentCost
    BY DEF CostInv, CheapInv
  <2>2. ASSUME x.node = n.node PROVE n.currentCost <= x.cost + s.currentCost
    <3>1. /\ x.cost \in Nat /\ s.currentCost \in Nat
          /\ n.currentCost + n.estimateCost <= x.cost + Est[n.node] + s.currentCost
      BY <1>4, <1>10, <2>2 DEF OverallCost
    <3>2. QED
      BY <1>4, <1>11, <1>12, <3>1
  <2>3. QED
    BY <2>1, <2>2
<1>14. EndInv'
  BY <1>1, <1>4 DEF CostInv, EndInv
<1>15. TargetInv'
  <2> SUFFICES ASSUME NEW x \in Labels, NEW s \in Widest, x.node \in targets
               PROVE  n.currentCost + Est[n.node] <= x.cost + Est[x.node] + 2 * s.currentCost
    BY <1>1, <1>2, <1>3 DEF TargetInv
  <2>1. x.node \notin DOMAIN closeMap
    BY <1>1 DEF CostInv, EndInv
  <2>2. /\ x.cost \in Nat /\ Est[x.node] \in Nat /\ s.currentCost \in Nat
        /\ n.currentCost + n.estimateCost <= x.cost + Est[x.node] + s.currentCost
    BY <1>10, <2>1 DEF OverallCost
  <2>3. QED
    BY <1>4, <1>11, <1>12, <2>2
<1>16. QED
  BY <1>8, <1>9, <1>13, <1>14, <1>15 DEF CostInv

\* What the path that is looked at means for the links from the current node.
LEMMA ThisLink ==
  ASSUME SearchInv, LookingAtPath, NEW l \in Links,
         l[1].node = current.node, l[1].cost = current.currentCost, l[3] = i
  PROVE  l[2].node = ThisPath.to /\ l[2].cost = NextCost /\ ThisPath.usable
  BY PathOfCurrent DEF Links, NextCost

\* A path that is not followed leads to a node that is reached.
LEMMA SkippedIsReached ==
  ASSUME SearchInv, RouteInv, Unrestricted, EntryInv, LookingAtPath, ThisPath.usable,
         Skipped \/ CheaperExists
  PROVE  Reached(ThisPath.to, NextCost, openMap, Done)
<1>1. /\ MapInv /\ Keyed(closeMap) /\ pc = "paths" /\ current \in After(Closed)
  BY DEF SearchInv, ListsInv, LookingAtPath, RouteInv, LegalInv
<1>2. CASE ThisPath.to = current.prev
  <2>1. ThisPath.to # NoNode
    <3>1. ThisPath.to \in DOMAIN graph
      BY <1>1, PathOfCurrent, PathOfGraph
    <3>2. QED
      BY <1>1, <3>1, GraphOfMap, PointsAssumption DEF NoNode
  <2>2. current.prev \in DOMAIN closeMap
    BY <1>1, <1>2, <2>1, PrevOf
  <2>3. QED
    BY <1>1, <1>2, <2>2 DEF Reached, Done
<1>3. CASE ThisPath.to \in DOMAIN closeMap
  BY <1>1, <1>3 DEF Reached, Done
<1>4. CASE CheaperExists
  BY <1>4 DEF CheaperExists, Reached
<1>5. current.access
  BY <1>1 DEF EntryInv
<1>6. ~TurnExcluded
  BY <1>1, PathOfCurrent, NoTurnsExcluded DEF TurnExcluded
<1>7. QED
  BY <1>2, <1>3, <1>4, <1>5, <1>6 DEF Skipped

\* A path that is skipped leads to a node that is reached for no more.
LEMMA SkipPathCost ==
  ASSUME SearchInv, RouteInv, Unrestricted, CostInv, SkipPath
  PROVE  CostInv'
<1>1. /\ MapInv /\ ListsInv /\ UNCHANGED mapVars /\ LookingAtPath /\ (Skipped \/ CheaperExists)
      /\ UNCHANGED <<pc, targets, openList, openMap, closeMap, current, result>>
      /\ pc = "paths" /\ i' = i + 1
  BY DEF SearchInv, SkipPath, LookingAtPath
<1>2. /\ Est' = Est /\ Widest' = Widest /\ Links' = Links /\ Labels' = Labels /\ StartNodes' = StartNodes
  BY <1>1, CostsUnchanged, MapUnchanged
<1>3. Searching /\ i \in Nat /\ Done' = Done
  BY <1>1 DEF ListsInv, Searching, Done
<1>4. KeptInv'
  <2>1. NoneIsLost(openMap, Done, openMap', Done')
    <3>1. \A p \in DOMAIN openMap : openMap[p].currentCost \in Nat
      BY <1>1 DEF ListsInv, Keyed, RNode
    <3>2. QED
      BY <1>1, <1>3, <3>1 DEF NoneIsLost
  <2>2. ASSUME NEW l \in Links, l[1].node = current.node, l[1].cost = current.currentCost, l[3] = i
        PROVE  Reached(l[2].node, l[2].cost, openMap, Done)
    <3>1. l[2].node = ThisPath.to /\ l[2].cost = NextCost /\ ThisPath.usable
      BY <1>1, <2>2, ThisLink
    <3>2. QED
      BY <1>1, <3>1, SkippedIsReached DEF CostInv
  <2>3. \A l \in Links : l[3] < i' => l[3] < i \/ l[3] = i
    BY <1>1, <1>3, LinkOfGraph
  <2>4. QED
    BY <1>1, <1>2, <1>3, <2>1, <2>2, <2>3, KeptStays DEF CostInv, KeptInv
<1>5. EntryInv' /\ CheapInv' /\ EndInv' /\ TargetInv'
  BY <1>1, <1>2 DEF CostInv, EntryInv, CheapInv, EndInv, TargetInv
<1>6. QED
  BY <1>4, <1>5 DEF CostInv

\* A path that is followed makes its end reached for what it costs.
LEMMA FollowPathCost ==
  ASSUME SearchInv, Unrestricted, CostInv, FollowPath
  PROVE  CostInv'
<1> DEFINE p == ThisPath.to
<1>1. /\ MapInv /\ ListsInv /\ UNCHANGED mapVars /\ LookingAtPath /\ ~Skipped /\ ~CheaperExists
      /\ UNCHANGED <<pc, targets, closeMap, current, result>>
      /\ pc = "paths" /\ i' = i + 1 /\ openMap' = Put(openMap, p, FoundNode)
  BY DEF SearchInv, FollowPath, LookingAtPath, FoundNode
<1>2. /\ Est' = Est /\ Widest' = Widest /\ Links' = Links /\ Labels' = Labels /\ StartNodes' = StartNodes
  BY <1>1, CostsUnchanged, MapUnchanged
<1>3. Searching /\ i \in Nat /\ Done' = Done
  BY <1>1 DEF ListsInv, Searching, Done
<1>4. /\ FoundNode \in RNode /\ FoundNode.node = p /\ FoundNode.currentCost = NextCost
      /\ NextCost \in Nat /\ p \in Points /\ FoundNode.estimateCost = EstimateCost(p)
      /\ FoundNode.access = ThisPath.hasAccess
  <2>1. FoundNode \in RNode /\ FoundNode.node = p /\ FoundNode.currentCost = NextCost
    BY <1>1, FoundNodeIsNode
  <2>2. FoundNode.estimateCost = EstimateCost(p) /\ FoundNode.access = ThisPath.hasAccess
    BY DEF FoundNode
  <2> HIDE DEF FoundNode, p
  <2>3. QED
    BY <1>1, <2>1, <2>2, GraphOfMap DEF RNode
<1>5. ThisPath.hasAccess
  <2>1. current.node \in DOMAIN graph /\ i \in DOMAIN graph[current.node].paths
        /\ ThisPath = graph[current.node].paths[i]
    BY <1>1, PathOfCurrent
  <2>2. ThisPath.way \in DOMAIN ways /\ ThisPath.hasAccess = ways[ThisPath.way].hasAccess
    BY <1>1, <2>1, PathOfGraph
  <2>3. QED
    BY <2>2 DEF Unrestricted
<1>6. /\ \A q \in DOMAIN openMap : openMap[q].currentCost \in Nat
      /\ p \in DOMAIN openMap => openMap[p].currentCost > NextCost
  <2>1. \A q \in DOMAIN openMap : openMap[q].currentCost \in Nat
    BY <1>1 DEF ListsInv, Keyed, RNode
  <2>2. QED
    BY <1>1, <1>4, <2>1 DEF CheaperExists
<1> HIDE DEF p, FoundNode
<1>7. /\ DOMAIN openMap' = DOMAIN openMap \union {p} /\ openMap'[p] = FoundNode
      /\ \A q \in DOMAIN openMap \ {p} : openMap'[q] = openMap[q]
  BY <1>1 DEF Put
<1>8. KeptInv'
  <2>1. NoneIsLost(openMap, Done, openMap', Done')
    <3>1. ASSUME NEW q \in DOMAIN openMap
          PROVE  q \in DOMAIN openMap' /\ openMap'[q].currentCost \in Nat
                 /\ openMap'[q].currentCost <= openMap[q].currentCost
      <4>1. CASE q = p
        BY <1>4, <1>6, <1>7, <4>1
      <4>2. CASE q # p
        BY <1>6, <1>7, <4>2
      <4>3. QED
        BY <4>1, <4>2
    <3>2. QED
      BY <1>3, <1>6, <3>1 DEF NoneIsLost
  <2>2. ASSUME NEW l \in Links, l[1].node = current.node, l[1].cost = current.currentCost, l[3] = i
        PROVE  Reached(l[2].node, l[2].cost, openMap', Done')
    <3>1. l[2].node = p /\ l[2].cost = NextCost
      BY <1>1, <2>2, ThisLink DEF p
    <3>2. QED
      BY <1>4, <1>7, <3>1 DEF Reached
  <2>3. \A l \in Links : l[3] < i' => l[3] < i \/ l[3] = i
    BY <1>1, <1>3, LinkOfGraph
  <2>4. QED
    BY <1>1, <1>2, <1>3, <2>1, <2>2, <2>3, KeptStays DEF CostInv, KeptInv
<1>9. EntryInv'
  <2>1. ASSUME NEW q \in DOMAIN openMap'
        PROVE  openMap'[q].access /\ (openMap'[q] \in StartNodes \/ openMap'[q].estimateCost = Est[q])
    <3>1. CASE q = p
      BY <1>4, <1>5, <1>7, <3>1 DEF Est
    <3>2. CASE q # p
      BY <1>7, <3>2 DEF CostInv, EntryInv
    <3>3. QED
      BY <3>1, <3>2
  <2>2. current'.access
    BY <1>1 DEF CostInv, EntryInv
  <2>3. QED
    BY <1>2, <2>1, <2>2 DEF EntryInv
<1>10. CheapInv' /\ TargetInv'
  BY <1>1, <1>2 DEF CostInv, CheapInv, TargetInv
<1>11. EndInv'
  BY <1>1 DEF CostInv, EndInv, ListsInv
<1>12. QED
  BY <1>8, <1>9, <1>10, <1>11 DEF CostInv

\* Without the file there is no answer to be wrong.
LEMMA CannotLoadCost ==
  ASSUME SearchInv, Unrestricted, CostInv, CannotLoad
  PROVE  CostInv'
<1>1. /\ UNCHANGED mapVars /\ UNCHANGED <<targets, openMap, closeMap, current>>
      /\ pc' = "done" /\ result' = "false"
  BY DEF CannotLoad, searchVars
<1>2. /\ Est' = Est /\ Widest' = Widest /\ Labels' = Labels /\ StartNodes' = StartNodes
  BY <1>1, CostsUnchanged, MapUnchanged
<1>3. QED
  BY <1>1, <1>2 DEF CostInv, KeptInv, Searching, EntryInv, CheapInv, EndInv, TargetInv

\* A node is closed when all of its paths were looked at.
LEMMA CloseNodeCost ==
  ASSUME SearchInv, Unrestricted, CostInv, CloseNode
  PROVE  CostInv'
<1>1. /\ MapInv /\ ListsInv /\ UNCHANGED mapVars /\ UNCHANGED <<targets, openList, openMap, current, result>>
      /\ pc = "paths" /\ i > Len(NodePaths) /\ closeMap' = Put(closeMap, current.node, current)
      /\ pc' = IF openList # {} /\ current.node \notin targets THEN "take" ELSE "resolve"
  BY DEF SearchInv, CloseNode
<1>2. /\ Est' = Est /\ Widest' = Widest /\ Links' = Links /\ Labels' = Labels /\ StartNodes' = StartNodes
      /\ StartLabels' = StartLabels
  BY <1>1, CostsUnchanged, MapUnchanged
<1>3. /\ DOMAIN closeMap' = DOMAIN closeMap \union {current.node} /\ closeMap'[current.node] = current
      /\ \A q \in DOMAIN closeMap : q # current.node /\ closeMap'[q] = closeMap[q]
  BY <1>1 DEF ListsInv, Put
<1>4. Searching /\ Done' = Done /\ i \in Nat /\ result = "none"
  BY <1>1, <1>3 DEF ListsInv, Searching, Done
<1>5. KeptInv'
  <2> SUFFICES ASSUME NEW l \in Links, l[1].node \in DOMAIN closeMap',
                      closeMap'[l[1].node].currentCost = l[1].cost
               PROVE  Reached(l[2].node, l[2].cost, openMap, Done)
    BY <1>1, <1>2, <1>4 DEF CostInv, KeptInv
  <2>1. CASE l[1].node \in DOMAIN closeMap
    BY <1>3, <1>4, <2>1 DEF CostInv, KeptInv
  <2>2. CASE l[1].node = current.node
    <3>1. l[1].cost = current.currentCost
      BY <1>3, <2>2
    <3>2. l[3] < i
      <4>1. l[3] \in DOMAIN NodePaths
        BY <2>2 DEF Links, NodePaths
      <4>2. NodePaths \in Seq(PathsFrom(ways, current.node))
        BY <1>1, GraphOfMap DEF ListsInv, RNode, NodePaths
      <4>3. Len(NodePaths) \in Nat /\ l[3] \in 1..Len(NodePaths)
        BY <4>1, <4>2
      <4>4. QED
        BY <1>1, <1>4, <4>3
    <3>3. QED
      BY <1>1, <1>4, <2>2, <3>1, <3>2 DEF CostInv, KeptInv
  <2>3. QED
    BY <1>3, <2>1, <2>2
<1>6. EntryInv' /\ TargetInv'
  BY <1>1, <1>2, <1>4 DEF CostInv, EntryInv, TargetInv
<1>7. CheapInv'
  BY <1>1, <1>2, <1>3 DEF CostInv, CheapInv
<1>8. EndInv'
  <2>1. openList = {} => DOMAIN openMap = {}
    BY <1>1 DEF ListsInv
  <2>2. QED
    BY <1>1, <1>3, <1>4, <2>1 DEF CostInv, EndInv
<1>9. QED
  BY <1>5, <1>6, <1>7, <1>8 DEF CostInv

\* To make the route changes no cost.
LEMMA ResolveCost ==
  ASSUME SearchInv, Unrestricted, CostInv, Resolve
  PROVE  CostInv'
<1>1. /\ UNCHANGED mapVars /\ UNCHANGED <<targets, openMap, closeMap, current, i>>
      /\ pc = "resolve" /\ pc' = "done" /\ result' = "true" /\ result = "none"
  BY DEF SearchInv, ListsInv, Resolve, searchVars
<1>2. /\ Est' = Est /\ Widest' = Widest /\ Links' = Links /\ Labels' = Labels /\ StartNodes' = StartNodes
      /\ StartLabels' = StartLabels
  BY <1>1, CostsUnchanged, MapUnchanged
<1>3. Searching /\ Done' = Done
  BY <1>1 DEF Searching, Done
<1>4. KeptInv'
  BY <1>1, <1>2, <1>3 DEF CostInv, KeptInv
<1>5. EntryInv' /\ CheapInv' /\ EndInv' /\ TargetInv'
  BY <1>1, <1>2 DEF CostInv, EntryInv, CheapInv, EndInv, TargetInv
<1>6. QED
  BY <1>4, <1>5 DEF CostInv

\* Every step of the search keeps its costs in order.
LEMMA CostStep ==
  ASSUME SearchInv, RouteInv, Unrestricted, CostInv, [Next]_vars
  PROVE  CostInv'
<1>1. CASE UNCHANGED vars
  <2>1. /\ UNCHANGED mapVars
        /\ UNCHANGED <<pc, targets, openList, openMap, closeMap, current, i, result>>
    BY <1>1 DEF vars, searchVars
  <2>2. /\ Est' = Est /\ Widest' = Widest /\ Links' = Links /\ Labels' = Labels /\ StartNodes' = StartNodes
        /\ StartLabels' = StartLabels
    BY <2>1, CostsUnchanged, MapUnchanged
  <2>3. (Searching' <=> Searching) /\ Done' = Done
    BY <2>1 DEF Searching, Done
  <2>4. KeptInv'
    BY <2>1, <2>2, <2>3 DEF CostInv, KeptInv
  <2>5. EntryInv' /\ CheapInv' /\ EndInv' /\ TargetInv'
    BY <2>1, <2>2 DEF CostInv, EntryInv, CheapInv, EndInv, TargetInv
  <2>6. QED
    BY <2>4, <2>5 DEF CostInv
<1>2. QED
  BY <1>1, StartCost, TakeCheapestCost, SkipPathCost, FollowPathCost, CannotLoadCost, CloseNodeCost,
     ResolveCost DEF Next

\* There are at most two start nodes: one after the place and one before it.
LEMMA TwoStartNodes ==
  ASSUME MapInv
  PROVE  \E p, q : StartNodes \subseteq {StartNode(p), StartNode(q)}
<1>1. CASE PointAt(from) \in DOMAIN graph
  BY <1>1 DEF StartNodes
<1>2. CASE PointAt(from) \notin DOMAIN graph
  <2>1. \A j \in DOMAIN ways[from.way].points : j \in Nat
    BY GraphOfMap DEF MapInv, IsPlace, WaysOK, WayOK
  <2>2. \A a, b \in NodeAfter(from, Forward(from)) : a = b
    BY <2>1 DEF NodeAfter
  <2>3. \A a, b \in NodeBefore(from, Backward(from)) : a = b
    BY <2>1 DEF NodeBefore
  <2>4. PICK p : NodeAfter(from, Forward(from)) \subseteq {p}
    BY <2>2
  <2>5. PICK q : NodeBefore(from, Backward(from)) \subseteq {q}
    BY <2>3
  <2>6. StartNodes \subseteq {StartNode(p), StartNode(q)}
    BY <1>2, <2>4, <2>5 DEF StartNodes
  <2>7. QED
    BY <2>6
<1>3. QED
  BY <1>1, <1>2

\* If any node can be got to, one of the start nodes costs most.
LEMMA OneIsWidest ==
  ASSUME MapInv, Unrestricted, NEW x \in Labels
  PROVE  Widest # {}
<1>1. StartLabels # {}
  <2>1. ASSUME StartLabels = {} PROVE FALSE
    <3>1. Spreads({})
      BY <2>1 DEF Spreads
    <3>2. QED
      BY <3>1 DEF Labels
  <2>2. QED
    BY <2>1
<1>2. PICK s \in StartNodes : TRUE
  BY <1>1 DEF StartLabels
<1>3. PICK p, q : StartNodes \subseteq {StartNode(p), StartNode(q)}
  BY TwoStartNodes
<1>4. \A o \in StartNodes : o.currentCost \in Nat
  BY StartCosts
<1>5. CASE \A o \in StartNodes : o.currentCost <= s.currentCost
  BY <1>5 DEF Widest
<1>6. CASE \E o \in StartNodes : ~(o.currentCost <= s.currentCost)
  <2>1. PICK o \in StartNodes : ~(o.currentCost <= s.currentCost)
    BY <1>6
  <2>2. \A n \in StartNodes : n = s \/ n = o
    <3>1. s # o
      BY <1>2, <1>4, <2>1
    <3>2. QED
      BY <1>2, <1>3, <2>1, <3>1
  <2>3. \A n \in StartNodes : n.currentCost <= o.currentCost
    BY <1>2, <1>4, <2>1, <2>2
  <2>4. QED
    BY <2>1, <2>3 DEF Widest
<1>7. QED
  BY <1>5, <1>6

\* When the search is over, the invariants say what its answer is worth.
LEMMA InvariantsImplyCheapest ==
  ASSUME SearchInv, CostInv
  PROVE  FindsCheapest
<1> SUFFICES ASSUME Unrestricted PROVE FindsCheapest
  BY DEF FindsCheapest
<1>1. MapInv /\ ListsInv /\ Lowest \subseteq Labels
  BY LowestAreLabels DEF SearchInv
<1>2. ASSUME Found, NEW x \in Lowest, NEW s \in StartNodes, x.node \in targets,
             \A o \in StartNodes : o.currentCost <= s.currentCost
      PROVE  current.currentCost + EstimateCost(current.node)
               <= x.cost + EstimateCost(x.node) + 2 * s.currentCost
  <2>1. x \in Labels /\ s \in Widest /\ result = "true"
    BY <1>1, <1>2 DEF Widest, Found
  <2>2. current.node \in DOMAIN closeMap /\ closeMap[current.node] = current
    BY <1>1, <2>1 DEF ListsInv
  <2>3. current.node \in Points /\ x.node \in Points
    BY <1>1, <2>1, <2>2, GraphOfMap, LabelsCostEnough DEF ListsInv, Keyed, RNode
  <2>4. current.currentCost + Est[current.node] <= x.cost + Est[x.node] + 2 * s.currentCost
    BY <1>2, <2>1 DEF CostInv, TargetInv
  <2>5. QED
    BY <2>3, <2>4 DEF Est
<1>3. ASSUME NotFound, NEW x \in Lowest, x.node \in targets PROVE FALSE
  <2>1. /\ Searching /\ pc # "paths" /\ current.node \notin targets /\ result = "true"
        /\ x \in Labels
    BY <1>1, <1>3 DEF NotFound, Searching
  <2>2. DOMAIN openMap = {} /\ \A p \in DOMAIN closeMap : p \notin targets
    BY <2>1 DEF CostInv, EndInv
  <2>3. PICK s \in Widest : TRUE
    BY <1>1, <2>1, OneIsWidest
  <2>4. Covered(x, s)
    BY <2>1, AllAreCovered DEF CostInv
  <2>5. QED
    BY <1>3, <2>2, <2>4 DEF Covered
<1>4. QED
  BY <1>2, <1>3 DEF FindsCheapest

\* No step changes the map.
LEMMA MapStays == [Next]_vars => UNCHANGED mapVars
  BY DEF Next, Start, TakeCheapest, SkipPath, FollowPath, CannotLoad, CloseNode, Resolve, vars

\* On any map without restrictions the route that is found costs more than the cheapest
\* at most by twice what it costs to get to a first route node - although nodes are
\* closed for good in the order of estimates, and those of the start nodes are made
\* from another point.  "No route found!" is said only when there is none.
THEOREM RoutesAreCheapest == Spec => []FindsCheapest
<1> DEFINE Inv == SearchInv /\ (Unrestricted => RouteInv /\ CostInv)
<1>1. Init => Inv
  BY SearchInit, CostInit
<1>2. Inv /\ [Next]_vars => Inv'
  <2> SUFFICES ASSUME Inv, [Next]_vars PROVE Inv'
    OBVIOUS
  <2>1. Unrestricted' <=> Unrestricted
    BY MapStays, CostsUnchanged
  <2>2. Unrestricted => TurnsCanBeExcluded(network)
    BY NoTurnsExcluded DEF SearchInv
  <2>3. SearchInv' /\ (Unrestricted => RouteInv')
    BY <2>2, SearchStep
  <2>4. Unrestricted => CostInv'
    BY CostStep
  <2>5. QED
    BY <2>1, <2>3, <2>4
<1>3. Inv => FindsCheapest
  BY InvariantsImplyCheapest DEF FindsCheapest
<1>4. QED
  BY <1>1, <1>2, <1>3, PTL DEF Spec

------------------------------------------------------------------------------
(* The entries of a route that is found                                    *)

\* Entries that lead from place to place along ways, closed by one without a way.
IsRoute(r) ==
  /\ Len(r) \in Nat \ {0} /\ DOMAIN r = 1..Len(r)
  /\ r[Len(r)].way = NoWay
  /\ LinksUp(ways, r, PointAt(from), PointAt(to))

\* The route is one, if there is a route.
LEMMA RouteOfSearch ==
  ASSUME SearchInv, MadeInv, route # <<>>
  PROVE  IsRoute(route) /\ Found
<1>1. Found /\ \E s \in Leads(ways, PointAt(from), PointAt(to)) : route = Append(s, Closing)
  BY DEF MadeInv
<1>2. PICK s \in Leads(ways, PointAt(from), PointAt(to)) : route = Append(s, Closing)
  BY <1>1
<1>3. s \in Seq(StepEntry)
  BY DEF Leads
<1>4. /\ Len(route) = Len(s) + 1 /\ DOMAIN route = 1..Len(s) + 1 /\ Len(s) \in Nat
      /\ route[Len(s) + 1] = Closing
  <2>1. s \in Seq(StepEntry \union {Closing})
    BY <1>3
  <2>2. QED
    BY <1>2, <2>1
<1>5. Closing.way = NoWay
  BY DEF Closing
<1>6. LinksUp(ways, route, PointAt(from), PointAt(to))
  BY <1>2, LeadsLinksUp
<1> HIDE DEF Closing
<1>7. QED
  BY <1>1, <1>4, <1>5, <1>6 DEF IsRoute

\* All entries but the last have a way, and each leads on to where the next begins.
LEMMA EntriesOfRoute ==
  ASSUME MapInv, NEW r, IsRoute(r)
  PROVE  /\ Len(r) - 1 \in Nat /\ OnTheWay(r) = 1..Len(r) - 1
         /\ \A j \in 1..Len(r) - 1 :
              /\ r[j].way \in DOMAIN ways /\ IsStep(ways, r[j])
              /\ EntryPoint(r, j) = StartOf(ways, r[j])
              /\ EntryPoint(r, j) \in Points /\ EndOf(ways, r[j]) \in Points
              /\ ways[r[j].way].factor \in Nat
         /\ \A j \in 2..Len(r) - 1 : EntryPoint(r, j) = EndOf(ways, r[j - 1])
         /\ Len(r) = 1 => PointAt(from) = PointAt(to)
         /\ Len(r) > 1 => EntryPoint(r, 1) = PointAt(from) /\ EndOf(ways, r[Len(r) - 1]) = PointAt(to)
<1> DEFINE n == Len(r) - 1
<1>1. /\ n \in Nat /\ n + 1 = Len(r) /\ DOMAIN r = 1..n + 1 /\ r[n + 1].way = NoWay
      /\ LinksUp(ways, r, PointAt(from), PointAt(to))
  BY DEF IsRoute
<1> HIDE DEF n
<1>2. /\ IF n = 0 THEN PointAt(from) = PointAt(to)
         ELSE StartOf(ways, r[1]) = PointAt(from) /\ EndOf(ways, r[n]) = PointAt(to)
      /\ \A j \in 1..n - 1 : EndOf(ways, r[j]) = StartOf(ways, r[j + 1])
      /\ \A j \in 1..n : IsStep(ways, r[j])
  BY <1>1 DEF LinksUp, n
<1>3. /\ \A k \in DOMAIN ways : /\ ways[k].factor \in Nat /\ ways[k].points \in Seq(Points)
                                /\ k # NoWay
      /\ WaysOK(ways)
  <2>1. WaysOK(ways) /\ \A k \in DOMAIN ways : ways[k].factor \in Nat
    BY GraphOfMap
  <2>2. QED
    BY <2>1 DEF WaysOK, WayOK, NoWay
<1>4. ASSUME NEW j \in 1..n
      PROVE  /\ r[j].way \in DOMAIN ways /\ r[j].way # NoWay /\ IsStep(ways, r[j])
             /\ EntryPoint(r, j) = StartOf(ways, r[j])
             /\ EntryPoint(r, j) \in Points /\ EndOf(ways, r[j]) \in Points
             /\ ways[r[j].way].factor \in Nat
  <2>1. /\ IsStep(ways, r[j]) /\ r[j].way \in DOMAIN ways
        /\ r[j].at \in 1..Len(ways[r[j].way].points) /\ r[j].next \in 1..Len(ways[r[j].way].points)
    BY <1>2 DEF IsStep
  <2>2. ways[r[j].way].points[r[j].at] \in Points /\ ways[r[j].way].points[r[j].next] \in Points
    BY <1>3, <2>1
  <2>3. QED
    BY <1>3, <2>1, <2>2 DEF EntryPoint, StartOf, EndOf
<1>5. OnTheWay(r) = 1..n
  <2>1. \A j \in 1..n + 1 : j = n + 1 \/ j \in 1..n
    BY <1>1
  <2>2. QED
    BY <1>1, <1>4, <2>1 DEF OnTheWay
<1>6. \A j \in 2..n : EntryPoint(r, j) = EndOf(ways, r[j - 1])
  <2>1. \A j \in 2..n : j \in 1..n /\ j - 1 \in 1..n - 1 /\ (j - 1) + 1 = j
    BY <1>1
  <2>2. QED
    BY <1>2, <1>4, <2>1
<1>7. Len(r) = 1 => PointAt(from) = PointAt(to)
  BY <1>1, <1>2
<1>8. Len(r) > 1 => EntryPoint(r, 1) = PointAt(from) /\ EndOf(ways, r[n]) = PointAt(to)
  <2>1. Len(r) > 1 => n # 0 /\ 1 \in 1..n
    BY <1>1
  <2>2. QED
    BY <1>2, <1>4, <2>1
<1>9. QED
  BY <1>1, <1>4, <1>5, <1>6, <1>7, <1>8 DEF n

\* On a map whose forbidden turns can be excluded AddNodes goes on from the end of a way to
\* its beginning only where the way is closed, as its comment assumes, or where it is a
\* one-way street that comes to a route node twice.
THEOREM RoutesGoAroundClosedWays ==
  ASSUME \A n \in Networks : TurnsCanBeExcluded(n)
  PROVE  Spec => []AroundClosedWays
<1> DEFINE Inv == SearchInv /\ RouteInv /\ MadeInv
<1>1. Init => Inv
  BY SearchInit DEF Init, MadeInv, Found
<1>2. Inv /\ [Next]_vars => Inv'
  <2>1. SearchInv => TurnsCanBeExcluded(network)
    BY DEF SearchInv, MapInv
  <2>2. QED
    BY <2>1, SearchStep, MadeStep
<1>3. Inv => AroundClosedWays
  <2> SUFFICES ASSUME Inv, Found, NEW j \in 1..Len(route) - 1
               PROVE  LET way == ways[route[j].way]
                      IN  \/ route[j].next - route[j].at \in {-1, 1}
                          \/ IsCircular(way) \/ TouchesItself(way)
    BY DEF AroundClosedWays
  <2>1. LinksUp(ways, route, PointAt(from), PointAt(to))
    BY LeadsLinksUp DEF MadeInv
  <2>2. IsStep(ways, route[j])
    BY <2>1 DEF LinksUp
  <2>3. QED
    BY <2>2 DEF IsStep, Beside
<1>4. QED
  BY <1>1, <1>2, <1>3, PTL DEF Spec

------------------------------------------------------------------------------
(* The way on the map                                                      *)

\* The points that lie on a route: where it begins and where every entry leads to.
OnRoute(r, count) ==
  {u \in Seq(Points) :
     /\ Len(u) = count + 1 /\ u[1] = EntryPoint(r, 1)
     /\ \A k \in 2..count + 1 : u[k] = EndOf(ways, r[k - 1])}

\* TransformRouteDataToWay draws a point where the route begins and one for every entry.
LEMMA WayOfRoute ==
  ASSUME MapInv, NEW r, IsRoute(r)
  PROVE  IF Len(r) = 1 THEN TransformRouteDataToWay(r) = <<>>
         ELSE TransformRouteDataToWay(r) \in OnRoute(r, Len(r) - 1)
<1> DEFINE n == Len(r) - 1
           z == IF r = <<>> \/ r[1].way = NoWay THEN <<>> ELSE <<EntryPoint(r, 1)>>
           A(f) == [j \in 0..Len(r) |->
                      IF j = 0 THEN IF r = <<>> \/ r[1].way = NoWay THEN <<>> ELSE <<EntryPoint(r, 1)>>
                      ELSE IF r[j].way = NoWay THEN f[j - 1]
                      ELSE Append(f[j - 1], ways[r[j].way].points[r[j].next])]
           F == CHOOSE f : f = A(f)
           W == [j \in 0..Len(r) |-> IF n = 0 THEN {<<>>} ELSE OnRoute(r, IF j = n + 1 THEN n ELSE j)]
           g == [j \in 1..Len(r) |-> [u \in W[j - 1] |->
                   IF j = n + 1 THEN u ELSE Append(u, EndOf(ways, r[j]))]]
<1>1. TransformRouteDataToWay(r) = F[Len(r)]
  BY DEF TransformRouteDataToWay
<1>2. /\ n \in Nat /\ Len(r) = n + 1 /\ DOMAIN r = 1..n + 1 /\ r # <<>> /\ r[n + 1].way = NoWay
      /\ \A j \in 1..n : /\ r[j].way # NoWay /\ EntryPoint(r, j) \in Points
                         /\ EndOf(ways, r[j]) \in Points
  <2>1. /\ n \in Nat /\ DOMAIN r = 1..Len(r) /\ r[Len(r)].way = NoWay /\ Len(r) \in Nat \ {0}
    BY EntriesOfRoute DEF IsRoute
  <2>2. \A j \in 1..n : r[j].way # NoWay
    <3>1. \A k \in DOMAIN ways : k # NoWay
      BY GraphOfMap DEF WaysOK, NoWay
    <3>2. QED
      BY <3>1, EntriesOfRoute
  <2>3. Len(r) = n + 1 /\ r # <<>>
    BY <2>1
  <2>4. QED
    BY <2>1, <2>2, <2>3, EntriesOfRoute
<1>3. z = IF n = 0 THEN <<>> ELSE <<EntryPoint(r, 1)>>
  <2>1. n # 0 => 1 \in 1..n
    BY <1>2
  <2>2. QED
    BY <1>2, <2>1
<1> HIDE DEF n, z
<1>4. z \in W[0]
  <2>1. CASE n = 0
    BY <1>2, <1>3, <2>1
  <2>2. CASE n # 0
    <3>1. 1 \in 1..n /\ z = <<EntryPoint(r, 1)>> /\ 0 # n + 1 /\ 0 \in 0..Len(r)
      BY <1>2, <1>3, <2>2
    <3>2. EntryPoint(r, 1) \in Points
      BY <1>2, <3>1
    <3>3. <<EntryPoint(r, 1)>> \in OnRoute(r, 0)
      BY <3>2 DEF OnRoute
    <3>4. QED
      BY <2>2, <3>1, <3>3
  <2>3. QED
    BY <2>1, <2>2
<1>5. ASSUME NEW j \in 1..Len(r), NEW u \in W[j - 1] PROVE g[j][u] \in W[j]
  <2>1. j \in 0..Len(r) /\ j - 1 \in 0..Len(r) /\ j - 1 # n + 1
    BY <1>2
  <2>2. g[j][u] = IF j = n + 1 THEN u ELSE Append(u, EndOf(ways, r[j]))
    OBVIOUS
  <2>3. CASE n = 0
    BY <1>2, <2>1, <2>2, <2>3
  <2>4. CASE n # 0 /\ j = n + 1
    BY <1>2, <2>1, <2>2, <2>4
  <2>5. CASE n # 0 /\ j # n + 1
    <3>1. u \in OnRoute(r, j - 1)
      BY <2>1, <2>5
    <3>2. u \in Seq(Points) /\ Len(u) = j /\ u[1] = EntryPoint(r, 1)
          /\ \A k \in 2..j : u[k] = EndOf(ways, r[k - 1])
      BY <3>1 DEF OnRoute
    <3>3. j \in 1..n /\ EndOf(ways, r[j]) \in Points
      BY <1>2, <2>5
    <3> DEFINE e == EndOf(ways, r[j])
               v == Append(u, e)
    <3> HIDE DEF e
    <3>4. v \in Seq(Points) /\ Len(v) = j + 1 /\ v[j + 1] = e /\ \A k \in 1..j : v[k] = u[k]
      BY <3>2, <3>3 DEF e
    <3> HIDE DEF v
    <3>5. v[1] = EntryPoint(r, 1)
      BY <3>2, <3>3, <3>4
    <3>6. \A k \in 2..j + 1 : v[k] = EndOf(ways, r[k - 1])
      <4>1. \A k \in 2..j + 1 : k = j + 1 \/ (k \in 2..j /\ k \in 1..j)
        BY <3>3
      <4>2. (j + 1) - 1 = j
        BY <3>3
      <4>3. QED
        BY <3>2, <3>4, <4>1, <4>2 DEF e
    <3>7. v \in OnRoute(r, j)
      BY <3>4, <3>5, <3>6 DEF OnRoute
    <3>8. QED
      BY <2>1, <2>2, <2>5, <3>7 DEF v, e
  <2>6. QED
    BY <2>3, <2>4, <2>5
<1>6. PICK h : /\ h = [j \in 0..Len(r) |-> IF j = 0 THEN z ELSE g[j][h[j - 1]]]
               /\ \A j \in 0..Len(r) : h[j] \in W[j]
  <2> HIDE DEF W, g
  <2>1. \A j \in 0 + 1..Len(r) : j \in 1..Len(r)
    OBVIOUS
  <2>2. StaysIn(W, 0, Len(r), z, g)
    BY <1>4, <1>5, <2>1 DEF StaysIn
  <2>3. 0 \in Int /\ Len(r) \in Int /\ 0 <= Len(r)
    BY <1>2
  <2>4. QED
    BY <2>2, <2>3, Recursion
<1>7. \A f : f = A(f) => f[Len(r)] \in W[Len(r)]
  <2> SUFFICES ASSUME NEW f, f = A(f) PROVE f[Len(r)] \in W[Len(r)]
    OBVIOUS
  <2> DEFINE S == {j \in 0..Len(r) : f[j] \in W[j]}
  <2>1. /\ f[0] = z
        /\ \A j \in 1..Len(r) : f[j] = IF r[j].way = NoWay THEN f[j - 1] ELSE Append(f[j - 1], EndOf(ways, r[j]))
    <3>1. \A j \in 1..Len(r) : j \in 0..Len(r) /\ j # 0
      OBVIOUS
    <3>2. 0 \in 0..Len(r)
      BY <1>2
    <3>3. QED
      BY <3>1, <3>2 DEF z, EndOf
  <2>2. ASSUME NEW j \in 0 + 1..Len(r), j - 1 \in S PROVE j \in S
    <3>1. j \in 1..Len(r) /\ j \in 0..Len(r) /\ f[j - 1] \in W[j - 1]
      BY <2>2
    <3>2. f[j] = IF r[j].way = NoWay THEN f[j - 1] ELSE Append(f[j - 1], EndOf(ways, r[j]))
      BY <2>1, <3>1
    <3>3. r[j].way = NoWay <=> j = n + 1
      <4>1. j = n + 1 \/ j \in 1..n
        BY <1>2, <3>1
      <4>2. QED
        BY <1>2, <4>1
    <3>4. g[j][f[j - 1]] = f[j]
      BY <3>1, <3>2, <3>3
    <3>5. QED
      BY <1>5, <3>1, <3>4
  <2>3. 0 \in S
    BY <1>2, <1>4, <2>1
  <2> HIDE DEF S, A
  <2>4. Reaches(S, 0, Len(r)) /\ 0 \in Int /\ Len(r) \in Int /\ Len(r) \in 0..Len(r)
    BY <1>2, <2>2, <2>3 DEF Reaches
  <2>5. Len(r) \in S
    BY <2>4, IntervalInduction
  <2>6. QED
    BY <2>5 DEF S
<1>8. h = A(h)
  <2>1. \A j \in 0..Len(r) : j # 0 =>
          g[j][h[j - 1]] = IF r[j].way = NoWay THEN h[j - 1] ELSE Append(h[j - 1], ways[r[j].way].points[r[j].next])
    <3> SUFFICES ASSUME NEW j \in 0..Len(r), j # 0
                 PROVE  g[j][h[j - 1]] = IF r[j].way = NoWay THEN h[j - 1]
                                         ELSE Append(h[j - 1], ways[r[j].way].points[r[j].next])
      OBVIOUS
    <3>1. j \in 1..Len(r) /\ j - 1 \in 0..Len(r) /\ (j = n + 1 \/ j \in 1..n)
      BY <1>2
    <3>2. h[j - 1] \in W[j - 1]
      BY <1>6, <3>1
    <3> HIDE DEF W
    <3>3. g[j][h[j - 1]] = IF j = n + 1 THEN h[j - 1] ELSE Append(h[j - 1], EndOf(ways, r[j]))
      BY <3>1, <3>2
    <3> HIDE DEF g
    <3>4. r[j].way = NoWay <=> j = n + 1
      BY <1>2, <3>1
    <3>5. QED
      BY <3>3, <3>4 DEF EndOf
  <2> HIDE DEF g, W
  <2>2. QED
    BY <1>6, <2>1 DEF z
<1> HIDE DEF A, W, g
<1>9. F = A(F)
  BY <1>8
<1> HIDE DEF F
<1>10. F[Len(r)] \in W[Len(r)]
  BY <1>7, <1>9
<1>11. QED
  <2>1. Len(r) \in 0..Len(r) /\ Len(r) = n + 1 /\ (Len(r) = 1 <=> n = 0)
    BY <1>2
  <2>2. W[Len(r)] = IF n = 0 THEN {<<>>} ELSE OnRoute(r, n)
    BY <2>1 DEF W
  <2>3. QED
    BY <1>1, <1>10, <2>1, <2>2 DEF n

------------------------------------------------------------------------------
(* The nodes of the description                                            *)

\* What is told at a node: nothing, or one instruction.
AtMostOne(instructions) == instructions = <<>> \/ \E x : instructions = <<x>>

\* The nodes of d have the places and the distances of the entries of r.
Describes(d, r) ==
  /\ d = [j \in 1..Len(r) |-> d[j]]
  /\ \A j \in 1..Len(r) : {"location", "distance", "told"} \subseteq DOMAIN d[j] /\ AtMostOne(d[j].told)
  /\ \A j \in 1..Len(r) - 1 :
       /\ d[j].location = EntryPoint(r, j)
       /\ d[j].distance = IF j = 1 THEN 0
                          ELSE d[j - 1].distance + Distance[EntryPoint(r, j - 1)][EntryPoint(r, j)]

\* To tell something at a node leaves its place and its distance alone.
LEMMA ToldMore ==
  ASSUME NEW d, NEW r, IsRoute(r), Describes(d, r), NEW k, NEW x, x = d[k].told \/ AtMostOne(x)
  PROVE  Describes([d EXCEPT ![k].told = x], r)
<1> DEFINE e == [d EXCEPT ![k].told = x]
<1>1. DOMAIN d = 1..Len(r) /\ Len(r) \in Nat
  BY DEF Describes, IsRoute
<1>2. e = [j \in 1..Len(r) |-> e[j]]
  BY <1>1
<1>3. ASSUME NEW j \in 1..Len(r)
      PROVE  /\ {"location", "distance", "told"} \subseteq DOMAIN e[j] /\ AtMostOne(e[j].told)
             /\ e[j].location = d[j].location /\ e[j].distance = d[j].distance
  <2>1. {"location", "distance", "told"} \subseteq DOMAIN d[j] /\ AtMostOne(d[j].told)
    BY DEF Describes
  <2>2. CASE j = k
    <3>1. e[j] = [d[j] EXCEPT !.told = x]
      BY <1>1, <2>2
    <3>2. /\ DOMAIN e[j] = DOMAIN d[j] /\ e[j].told = x
          /\ e[j].location = d[j].location /\ e[j].distance = d[j].distance
      BY <2>1, <3>1
    <3>3. QED
      BY <2>1, <2>2, <3>2
  <2>3. CASE j # k
    <3>1. e[j] = d[j]
      BY <1>1, <2>3
    <3>2. QED
      BY <2>1, <3>1
  <2>4. QED
    BY <2>2, <2>3
<1> HIDE DEF e
<1>4. ASSUME NEW j \in 1..Len(r) - 1
      PROVE  /\ e[j].location = EntryPoint(r, j)
             /\ e[j].distance = IF j = 1 THEN 0
                                ELSE e[j - 1].distance + Distance[EntryPoint(r, j - 1)][EntryPoint(r, j)]
  <2>1. j \in 1..Len(r) /\ (j # 1 => j - 1 \in 1..Len(r))
    BY <1>1
  <2>2. /\ d[j].location = EntryPoint(r, j)
        /\ d[j].distance = IF j = 1 THEN 0
                           ELSE d[j - 1].distance + Distance[EntryPoint(r, j - 1)][EntryPoint(r, j)]
    BY DEF Describes
  <2>3. QED
    BY <1>3, <2>1, <2>2
<1>5. Describes(e, r)
  BY <1>2, <1>3, <1>4 DEF Describes
<1>6. QED
  BY <1>5 DEF e

\* DistanceAndTimePostprocessor adds up the way from entry to entry.
LEMMA DistancesOfRoute ==
  ASSUME MapInv, NEW r, IsRoute(r), NEW j \in 1..Len(r) - 1
  PROVE  LET d == DistanceAndTime(r)
         IN  /\ d[j].location = EntryPoint(r, j)
             /\ d[j].distance = IF j = 1 THEN 0
                                ELSE d[j - 1].distance + Distance[EntryPoint(r, j - 1)][EntryPoint(r, j)]
<1> DEFINE n == Len(r) - 1
           Delta(k) == Distance[EntryPoint(r, k - 1)][EntryPoint(r, k)]
           First == [location |-> EntryPoint(r, 1), distance |-> 0, time |-> 0]
           After1(k, v) == [location |-> EntryPoint(r, k), distance |-> v.distance + Delta(k),
                            time |-> v.time + ways[r[k].way].factor * Delta(k)]
           A(f) == [k \in OnTheWay(r) |->
                      LET delta == Distance[EntryPoint(r, k - 1)][EntryPoint(r, k)]
                      IN  IF k = 1 THEN [location |-> EntryPoint(r, 1), distance |-> 0, time |-> 0]
                          ELSE [location |-> EntryPoint(r, k),
                                distance |-> f[k - 1].distance + delta,
                                time     |-> f[k - 1].time + ways[r[k].way].factor * delta]]
           F == CHOOSE f : f = A(f)
           V == [location : Points, distance : Nat, time : Nat]
           W == [k \in 1..n |-> V]
           g == [k \in 2..n |-> [v \in V |-> After1(k, v)]]
           d == DistanceAndTime(r)
<1>1. /\ n \in Nat /\ OnTheWay(r) = 1..n /\ DOMAIN r = 1..n + 1 /\ j \in 1..n /\ n # 0
      /\ \A k \in 1..n : /\ EntryPoint(r, k) \in Points /\ ways[r[k].way].factor \in Nat
                         /\ r[k].way # NoWay
  <2>1. \A k \in DOMAIN ways : k # NoWay
    BY GraphOfMap DEF WaysOK, NoWay
  <2>2. n \in Nat /\ DOMAIN r = 1..n + 1
    BY EntriesOfRoute DEF IsRoute
  <2>3. QED
    BY <2>1, <2>2, EntriesOfRoute
<1> HIDE DEF n
<1>2. ASSUME NEW k \in 2..n, NEW v \in V PROVE After1(k, v) \in V
  <2>1. k \in 1..n /\ k - 1 \in 1..n
    BY <1>1
  <2>2. Delta(k) \in Nat
    BY <1>1, <2>1, DistanceIsSymmetric
  <2> DEFINE cost == ways[r[k].way].factor * Delta(k)
  <2> HIDE DEF Delta
  <2>3. cost \in Nat
    <3>1. \A a, b \in Nat : a * b \in Nat
      OBVIOUS
    <3>2. QED
      BY <1>1, <2>1, <2>2, <3>1
  <2>4. After1(k, v) = [location |-> EntryPoint(r, k), distance |-> v.distance + Delta(k),
                        time |-> v.time + cost]
    OBVIOUS
  <2> HIDE DEF cost, After1
  <2>5. QED
    BY <1>1, <2>1, <2>2, <2>3, <2>4
<1>3. First \in V
  BY <1>1
<1> HIDE DEF After1, First
<1>4. PICK h : /\ h = [k \in 1..n |-> IF k = 1 THEN First ELSE g[k][h[k - 1]]]
               /\ \A k \in 1..n : h[k] \in W[k]
  <2>1. StaysIn(W, 1, n, First, g)
    <3>1. \A k \in 1 + 1..n : k \in 2..n /\ k \in 1..n /\ k - 1 \in 1..n
      BY <1>1
    <3>2. \A k \in 2..n : \A v \in V : g[k][v] = After1(k, v)
      OBVIOUS
    <3> HIDE DEF g, V
    <3>3. QED
      BY <1>1, <1>2, <1>3, <3>1, <3>2 DEF StaysIn
  <2>2. 1 \in Int /\ n \in Int /\ 1 <= n
    BY <1>1
  <2> HIDE DEF W, g
  <2>3. QED
    BY <2>1, <2>2, Recursion
<1>5. \A f : A(f) = [k \in 1..n |-> IF k = 1 THEN First ELSE After1(k, f[k - 1])]
  BY <1>1 DEF First, After1
<1>6. h = A(h)
  <2>1. \A k \in 1..n : k # 1 => g[k][h[k - 1]] = After1(k, h[k - 1])
    <3>1. \A k \in 1..n : k # 1 => k \in 2..n /\ k - 1 \in 1..n
      BY <1>1
    <3>2. \A k \in 1..n : h[k] \in V
      BY <1>4
    <3> HIDE DEF V
    <3>3. QED
      BY <3>1, <3>2
  <2> HIDE DEF g, W, A
  <2>2. [k \in 1..n |-> IF k = 1 THEN First ELSE g[k][h[k - 1]]]
          = [k \in 1..n |-> IF k = 1 THEN First ELSE After1(k, h[k - 1])]
    BY <2>1
  <2>3. QED
    BY <1>4, <1>5, <2>2
<1>7. F = A(F)
  <2> HIDE DEF A
  <2>1. QED
    BY <1>6
<1>8. \A k \in 1..n : d[k] = F[k]
  <2>1. d = [k \in DOMAIN r |->
               IF r[k].way # NoWay THEN F[k]
               ELSE IF k = 1 THEN [location |-> NoPoint, distance |-> 0, time |-> 0] ELSE F[k - 1]]
    BY DEF DistanceAndTime
  <2> HIDE DEF F, d, A
  <2>2. \A k \in 1..n : k \in DOMAIN r
    BY <1>1
  <2>3. QED
    BY <1>1, <2>1, <2>2
<1> HIDE DEF F, A, d
<1>9. F = [k \in 1..n |-> IF k = 1 THEN First ELSE After1(k, F[k - 1])]
  BY <1>5, <1>7
<1>10. F[j] = IF j = 1 THEN First ELSE After1(j, F[j - 1])
  BY <1>1, <1>9
<1>11. j # 1 => j - 1 \in 1..n
  BY <1>1
<1>12. /\ d[j].location = EntryPoint(r, j)
       /\ d[j].distance = IF j = 1 THEN 0 ELSE d[j - 1].distance + Delta(j)
  BY <1>1, <1>8, <1>10, <1>11 DEF First, After1
<1>13. QED
  BY <1>12 DEF d

\* So do the nodes that the postprocessors before the last one leave.
LEMMA NodesDescribe ==
  ASSUME MapInv, NEW r, IsRoute(r)
  PROVE  Describes(NodesOf(r), r)
<1> DEFINE d == DistanceAndTime(r)
           e == NodesOf(r)
<1>1. DOMAIN r = 1..Len(r) /\ Len(r) \in Nat
  BY DEF IsRoute
<1>2. e = [j \in 1..Len(r) |-> e[j]]
  BY <1>1 DEF NodesOf
<1>3. ASSUME NEW j \in 1..Len(r)
      PROVE  /\ {"location", "distance", "told"} \subseteq DOMAIN e[j]
             /\ e[j].told = <<>> /\ e[j].location = d[j].location /\ e[j].distance = d[j].distance
  <2> HIDE DEF d
  <2>1. QED
    BY <1>1 DEF NodesOf, d
<1> HIDE DEF e, d
<1>4. ASSUME NEW j \in 1..Len(r) - 1
      PROVE  /\ e[j].location = EntryPoint(r, j)
             /\ e[j].distance = IF j = 1 THEN 0
                                ELSE e[j - 1].distance + Distance[EntryPoint(r, j - 1)][EntryPoint(r, j)]
  <2>1. j \in 1..Len(r) /\ (j # 1 => j - 1 \in 1..Len(r))
    BY <1>1
  <2>2. /\ d[j].location = EntryPoint(r, j)
        /\ d[j].distance = IF j = 1 THEN 0
                           ELSE d[j - 1].distance + Distance[EntryPoint(r, j - 1)][EntryPoint(r, j)]
    BY DistancesOfRoute DEF d
  <2>3. QED
    BY <1>3, <2>1, <2>2
<1>5. Describes(e, r)
  BY <1>2, <1>3, <1>4 DEF Describes, AtMostOne
<1>6. QED
  BY <1>5 DEF e

------------------------------------------------------------------------------
(* The steps shown to the driver                                           *)

\* Nodes at which at most one thing is told.
ToldOnce(d) == Len(d) \in Nat /\ \A j \in 1..Len(d) : AtMostOne(d[j].told)

\* The first node has a step "start", the last one of several a step, and the others have
\* one if something is told there.
LEMMA ShownAtNode ==
  ASSUME NEW d, ToldOnce(d), NEW j \in 1..Len(d)
  PROVE  /\ \E c \in 0..2 : DOMAIN Shown(d, j) = 1..c
         /\ 1 \in DOMAIN Shown(d, j) <=> j \in {1, Len(d)} \/ d[j].told # <<>>
         /\ j = 1 => Shown(d, j)[1] = "start"
         /\ j \notin {1, Len(d)} /\ d[j].told # <<>> => Shown(d, j)[1] = d[j].told[1].kind
<1>1. CASE j = 1
  <2>1. Shown(d, j) = StartSteps(d[1].name)
    BY <1>1 DEF Shown
  <2>2. PICK t \in {<<"along">>, <<>>} : Shown(d, j) = <<"start">> \o t
    BY <2>1 DEF StartSteps
  <2> DEFINE S == {"start", "along"}
             a == <<"start">>
  <2>3. t \in Seq(S) /\ Len(t) \in 0..1
    <3>1. <<"along">> \in Seq(S) /\ Len(<<"along">>) = 1
      OBVIOUS
    <3>2. <<>> \in Seq(S) /\ Len(<<>>) = 0
      OBVIOUS
    <3>3. t = <<"along">> \/ t = <<>>
      BY <2>2
    <3> HIDE DEF S
    <3>4. CASE t = <<"along">>
      BY <3>1, <3>4
    <3>5. CASE t = <<>>
      BY <3>2, <3>5
    <3>6. QED
      BY <3>3, <3>4, <3>5
  <2>5. a \in Seq(S) /\ Len(a) = 1 /\ a[1] = "start"
    OBVIOUS
  <2> HIDE DEF a, S
  <2>6. a \o t \in Seq(S) /\ Len(a \o t) = 1 + Len(t)
    <3>1. \A u, v \in Seq(S) : u \o v \in Seq(S) /\ Len(u \o v) = Len(u) + Len(v)
      OBVIOUS
    <3>2. QED
      BY <2>3, <2>5, <3>1
  <2>7. (a \o t)[1] = "start"
    BY <2>3, <2>5
  <2>8. DOMAIN (a \o t) = 1..1 + Len(t) /\ 1 + Len(t) \in 1..2
    BY <2>3, <2>6
  <2>9. /\ DOMAIN Shown(d, j) = 1..1 + Len(t) /\ 1 + Len(t) \in 0..2 /\ 1 \in DOMAIN Shown(d, j)
        /\ Shown(d, j)[1] = "start"
    BY <2>2, <2>7, <2>8 DEF a
  <2>10. j \in {1, Len(d)}
    BY <1>1
  <2>11. QED
    BY <2>9, <2>10
<1>2. CASE j # 1 /\ j = Len(d)
  <2>1. Shown(d, j) = <<"target">>
    BY <1>2 DEF Shown
  <2>2. DOMAIN <<"target">> = 1..1
    OBVIOUS
  <2>3. QED
    BY <1>2, <2>1, <2>2
<1>3. CASE j # 1 /\ j # Len(d)
  <2> DEFINE told == d[j].told
  <2>1. Shown(d, j) = [m \in DOMAIN told |-> told[m].kind]
    BY <1>3 DEF Shown
  <2>2. AtMostOne(told)
    BY DEF ToldOnce
  <2> HIDE DEF told
  <2>3. CASE told = <<>>
    <3>1. DOMAIN told = 1..0 /\ 1 \notin 1..0
      BY <2>3
    <3>2. QED
      BY <1>3, <2>1, <2>3, <3>1 DEF told
  <2>4. CASE told # <<>>
    <3>1. PICK x : told = <<x>>
      BY <2>2, <2>4 DEF AtMostOne
    <3>2. DOMAIN told = 1..1 /\ 1 \in 1..1
      BY <3>1
    <3>3. QED
      BY <1>3, <2>1, <2>4, <3>2 DEF told
  <2>5. QED
    BY <2>3, <2>4
<1>4. QED
  BY <1>1, <1>2, <1>3

\* The steps for one node: only the first has its place.
StepsAt(d, j) ==
  [m \in DOMAIN Shown(d, j) |->
     [kind |-> Shown(d, j)[m], node |-> IF m = 1 THEN j ELSE NoIndex,
      coord |-> IF m = 1 THEN d[j].location ELSE NoPoint]]

AnyStep(d) ==
  [kind : {Shown(d, j)[m] : j \in 1..Len(d), m \in 1..2}, node : 0..Len(d),
   coord : {d[j].location : j \in 1..Len(d)} \union {NoPoint}]

\* The steps for the nodes up to node j: those with a place follow the order of the nodes,
\* and every node with something to show has one.
StepsUpTo(d, j) ==
  {u \in Seq(AnyStep(d)) :
     /\ \A m \in 1..Len(u) : u[m].node # NoIndex =>
          /\ u[m].node <= j /\ 1 \in DOMAIN Shown(d, u[m].node)
          /\ u[m].coord = d[u[m].node].location
          /\ u[m].kind = Shown(d, u[m].node)[1]
     /\ \A m, k \in 1..Len(u) :
          m < k /\ u[m].node # NoIndex /\ u[k].node # NoIndex => u[m].node < u[k].node
     /\ \A k \in 1..j : 1 \in DOMAIN Shown(d, k) => \E m \in 1..Len(u) : u[m].node = k}

\* The steps for a node are steps.
LEMMA StepsAtNode ==
  ASSUME NEW d, ToldOnce(d), NEW j \in 1..Len(d)
  PROVE  /\ StepsAt(d, j) \in Seq(AnyStep(d))
         /\ DOMAIN Shown(d, j) = 1..Len(StepsAt(d, j))
         /\ \A m \in 1..Len(StepsAt(d, j)) :
              /\ StepsAt(d, j)[m].node = IF m = 1 THEN j ELSE NoIndex
              /\ m = 1 => /\ StepsAt(d, j)[m].coord = d[j].location
                          /\ StepsAt(d, j)[m].kind = Shown(d, j)[1]
<1> DEFINE new == Shown(d, j)
           s   == StepsAt(d, j)
<1>1. Len(d) \in Nat
  BY DEF ToldOnce
<1>2. PICK c \in 0..2 : DOMAIN new = 1..c
  BY ShownAtNode
<1> HIDE DEF new
<1>3. s = [m \in 1..c |-> [kind |-> new[m], node |-> IF m = 1 THEN j ELSE NoIndex,
                           coord |-> IF m = 1 THEN d[j].location ELSE NoPoint]]
  BY <1>2 DEF StepsAt, new
<1> HIDE DEF s
<1>4. \A m \in 1..c : s[m] \in AnyStep(d)
  <2> SUFFICES ASSUME NEW m \in 1..c PROVE s[m] \in AnyStep(d)
    OBVIOUS
  <2>1. new[m] \in {Shown(d, k)[l] : k \in 1..Len(d), l \in 1..2}
    <3>1. m \in 1..2
      BY <1>2
    <3>2. QED
      BY <3>1 DEF new
  <2>2. j \in 0..Len(d) /\ NoIndex \in 0..Len(d)
    BY <1>1 DEF NoIndex
  <2>3. d[j].location \in {d[k].location : k \in 1..Len(d)} \union {NoPoint}
    OBVIOUS
  <2>4. s[m] = [kind |-> new[m], node |-> IF m = 1 THEN j ELSE NoIndex,
                coord |-> IF m = 1 THEN d[j].location ELSE NoPoint]
    BY <1>3
  <2>5. QED
    BY <2>1, <2>2, <2>3, <2>4 DEF AnyStep
<1>5. s \in [1..c -> AnyStep(d)] /\ c \in Nat
  BY <1>3, <1>4
<1>6. s \in Seq(AnyStep(d)) /\ DOMAIN s = 1..c
  BY <1>5
<1>7. Len(s) = c
  BY <1>2, <1>6
<1>8. \A m \in 1..c : /\ s[m].node = IF m = 1 THEN j ELSE NoIndex
                      /\ m = 1 => s[m].coord = d[j].location /\ s[m].kind = new[1]
  BY <1>3
<1>9. QED
  BY <1>2, <1>6, <1>7, <1>8 DEF s, new

\* The steps for the next node go on with those for the nodes before it.
LEMMA StepsGoOn ==
  ASSUME NEW d, ToldOnce(d), NEW j \in 1..Len(d), NEW v \in StepsUpTo(d, j - 1)
  PROVE  v \o StepsAt(d, j) \in StepsUpTo(d, j)
<1> DEFINE s == StepsAt(d, j)
           u == v \o s
           a == Len(v)
           c == Len(s)
<1>1. /\ v \in Seq(AnyStep(d)) /\ a \in Nat
      /\ \A m \in 1..a : v[m].node # NoIndex =>
           /\ v[m].node <= j - 1 /\ 1 \in DOMAIN Shown(d, v[m].node)
           /\ v[m].coord = d[v[m].node].location
           /\ v[m].kind = Shown(d, v[m].node)[1]
      /\ \A m, k \in 1..a :
           m < k /\ v[m].node # NoIndex /\ v[k].node # NoIndex => v[m].node < v[k].node
      /\ \A k \in 1..j - 1 : 1 \in DOMAIN Shown(d, k) => \E m \in 1..a : v[m].node = k
  BY DEF StepsUpTo
<1>2. /\ s \in Seq(AnyStep(d)) /\ DOMAIN Shown(d, j) = 1..c /\ c \in Nat
      /\ \A m \in 1..c : /\ s[m].node = IF m = 1 THEN j ELSE NoIndex
                         /\ m = 1 => s[m].coord = d[j].location /\ s[m].kind = Shown(d, j)[1]
  <2>1. s \in Seq(AnyStep(d))
    BY StepsAtNode
  <2>2. c \in Nat
    BY <2>1
  <2>3. QED
    BY <2>1, <2>2, StepsAtNode
<1> HIDE DEF s
<1>3. /\ u \in Seq(AnyStep(d)) /\ Len(u) = a + c
      /\ \A m \in 1..a : u[m] = v[m]
      /\ \A m \in a + 1..a + c : u[m] = s[m - a]
  BY <1>1, <1>2
<1>4. j \in Nat \ {0} /\ j # NoIndex
  BY DEF NoIndex
<1>5. \A m \in 1..a : m \in 1..a + c
  BY <1>1, <1>2
<1>6. \A m \in 1..a + c : m \in 1..a \/ (m \in a + 1..a + c /\ m - a \in 1..c)
  BY <1>1, <1>2
<1>7. \A m \in 1..a : v[m].node \in Int
  <2>1. \A m \in 1..a : v[m] \in AnyStep(d)
    BY <1>1
  <2>2. QED
    BY <2>1 DEF AnyStep
<1> HIDE DEF u, a, c
<1>8. ASSUME NEW m \in a + 1..a + c, u[m].node # NoIndex
      PROVE  /\ m = a + 1 /\ u[m].node = j /\ 1 \in DOMAIN Shown(d, j)
             /\ u[m].coord = d[j].location /\ u[m].kind = Shown(d, j)[1]
  <2>1. m - a \in 1..c /\ u[m] = s[m - a] /\ (m - a = 1 => m = a + 1)
    BY <1>1, <1>2, <1>3
  <2>2. m - a = 1
    BY <1>2, <1>8, <2>1
  <2>3. QED
    BY <1>2, <2>1, <2>2
<1>9. ASSUME NEW m \in 1..a + c, u[m].node # NoIndex
      PROVE  /\ u[m].node <= j /\ 1 \in DOMAIN Shown(d, u[m].node)
             /\ u[m].coord = d[u[m].node].location
             /\ u[m].kind = Shown(d, u[m].node)[1]
  <2>1. CASE m \in 1..a
    <3>1. u[m] = v[m] /\ v[m].node \in Int
      BY <1>3, <1>7, <2>1
    <3>2. u[m].node <= j - 1 /\ u[m].node \in Int
      BY <1>1, <1>9, <2>1, <3>1
    <3>3. QED
      BY <1>1, <1>4, <1>9, <2>1, <3>1, <3>2
  <2>2. CASE m \in a + 1..a + c
    BY <1>4, <1>8, <1>9, <2>2
  <2>3. QED
    BY <1>6, <2>1, <2>2
<1>10. ASSUME NEW m \in 1..a + c, NEW k \in 1..a + c, m < k, u[m].node # NoIndex, u[k].node # NoIndex
       PROVE  u[m].node < u[k].node
  <2>1. CASE k \in 1..a
    <3>1. m \in 1..a
      BY <1>1, <1>10, <2>1
    <3>2. QED
      BY <1>1, <1>3, <1>10, <2>1, <3>1
  <2>2. CASE k \in a + 1..a + c
    <3>1. u[k].node = j /\ k = a + 1
      BY <1>8, <1>10, <2>2
    <3>2. m \in 1..a
      BY <1>1, <1>10, <3>1
    <3>3. u[m].node <= j - 1 /\ u[m].node \in Int
      BY <1>1, <1>3, <1>7, <1>10, <3>2
    <3>4. QED
      BY <1>4, <3>1, <3>3
  <2>3. QED
    BY <1>6, <2>1, <2>2
<1>11. ASSUME NEW k \in 1..j, 1 \in DOMAIN Shown(d, k)
       PROVE  \E m \in 1..a + c : u[m].node = k
  <2>1. CASE k = j
    <3>1. 1 \in 1..c
      BY <1>2, <1>11, <2>1
    <3>2. a + 1 \in a + 1..a + c /\ a + 1 \in 1..a + c /\ (a + 1) - a = 1
      BY <1>1, <1>2, <3>1
    <3>3. u[a + 1] = s[1]
      BY <1>3, <3>2
    <3>4. QED
      BY <1>2, <2>1, <3>1, <3>2, <3>3
  <2>2. CASE k # j
    <3>1. k \in 1..j - 1
      BY <1>4, <2>2
    <3>2. PICK m \in 1..a : v[m].node = k
      BY <1>1, <1>11, <3>1
    <3>3. QED
      BY <1>3, <1>5, <3>2
  <2>3. QED
    BY <2>1, <2>2
<1>12. u \in StepsUpTo(d, j)
  BY <1>3, <1>9, <1>10, <1>11 DEF StepsUpTo
<1>13. QED
  BY <1>12 DEF u, s

\* setStartAndTarget makes the steps for all nodes.
LEMMA StepsOfNodes ==
  ASSUME NEW d, ToldOnce(d)
  PROVE  StepsOf(d) \in StepsUpTo(d, Len(d))
<1> DEFINE n == Len(d)
           part == [j \in 1..n |-> StepsAt(d, j)]
           A(f) == [j \in 0..n |->
                      IF j = 0 THEN <<>>
                      ELSE LET new == Shown(d, j)
                           IN  f[j - 1] \o [m \in DOMAIN new |->
                                  [kind |-> new[m], node |-> IF m = 1 THEN j ELSE NoIndex,
                                   coord |-> IF m = 1 THEN d[j].location ELSE NoPoint]]]
           B(f) == [j \in 0..n |-> IF j = 0 THEN <<>> ELSE f[j - 1] \o part[j]]
           F == CHOOSE f : f = A(f)
<1>1. n \in Nat
  BY DEF ToldOnce
<1>2. StepsOf(d) = F[n]
  BY DEF StepsOf
<1>3. \A f : A(f) = B(f)
  <2>1. \A j \in 0..n : j # 0 => j \in 1..n /\ part[j] = StepsAt(d, j)
    BY <1>1
  <2> HIDE DEF part
  <2>2. QED
    BY <2>1 DEF StepsAt
<1> HIDE DEF A
<1>4. \E f : f = B(f)
  <2>1. \A j \in 1..n : part[j] \in Seq(AnyStep(d))
    BY StepsAtNode
  <2> HIDE DEF part, n
  <2>2. QED
    BY <1>1, <2>1, Joined
<1>5. F = B(F)
  <2> HIDE DEF B
  <2>1. QED
    BY <1>3, <1>4
<1> HIDE DEF F
<1> DEFINE S == {j \in 0..n : F[j] \in StepsUpTo(d, j)}
<1>6. 0 \in S
  <2>1. F[0] = <<>> /\ 0 \in 0..n
    BY <1>1, <1>5
  <2>2. <<>> \in StepsUpTo(d, 0)
    <3>1. <<>> \in Seq(AnyStep(d)) /\ Len(<<>>) = 0 /\ 1..0 = {}
      OBVIOUS
    <3>2. QED
      BY <3>1 DEF StepsUpTo
  <2>3. QED
    BY <2>1, <2>2
<1>7. ASSUME NEW j \in 0 + 1..n, j - 1 \in S PROVE j \in S
  <2>1. j \in 1..n /\ j \in 0..n /\ j # 0 /\ F[j - 1] \in StepsUpTo(d, j - 1)
    BY <1>7
  <2>2. F[j] = F[j - 1] \o StepsAt(d, j)
    BY <1>5, <2>1
  <2>3. QED
    BY <2>1, <2>2, StepsGoOn
<1> HIDE DEF S
<1>8. Reaches(S, 0, n) /\ n \in 0..n /\ 0 \in Int /\ n \in Int
  BY <1>1, <1>6, <1>7 DEF Reaches
<1> HIDE DEF n
<1>9. n \in S
  BY <1>8, IntervalInduction
<1>10. QED
  BY <1>2, <1>9 DEF S, n

------------------------------------------------------------------------------
(* The description of a route                                              *)

\* Describing does not disturb the search.
LEMMA SearchIsLeftAlone == [DescribeNext]_allVars => [Next]_vars
<1> SUFFICES ASSUME DescribeNext PROVE [Next]_vars
  BY DEF allVars
<1>1. CASE Search
  BY <1>1 DEF Search
<1>2. CASE Describe \/ DescribeFails \/ DescribeNothing \/ ShowSteps
  BY <1>2 DEF Describe, DescribeFails, DescribeNothing, ShowSteps
<1>3. CASE SkipNode \/ EnterRoundabout \/ LeaveRoundabout \/ EnterMotorway \/ LeaveMotorway
  BY <1>3 DEF SkipNode, EnterRoundabout, LeaveRoundabout, EnterMotorway, LeaveMotorway
<1>4. CASE ChangeMotorway \/ LeaveMotorwayByLink \/ EnterMotorwayByLink \/ TakeLink \/ GoOn
  BY <1>4 DEF ChangeMotorway, LeaveMotorwayByLink, EnterMotorwayByLink, TakeLink, GoOn
<1>5. QED
  BY <1>1, <1>2, <1>3, <1>4 DEF DescribeNext

\* The way on the map is that of the route.
Draws(w, r) == IF Len(r) = 1 THEN w = <<>> ELSE w \in OnRoute(r, Len(r) - 1)

\* What is drawn and described is the route that was found.
DescribedInv ==
  /\ phase # "none" => pc = "done"
  /\ phase = "none" => description = <<>> /\ drawn = <<>>
  /\ phase = "instruct" => description # <<>>
  /\ description # <<>> => route # <<>> /\ Describes(description, route)
  /\ phase = "told" /\ description # <<>> => steps = StepsOf(description)
  /\ drawn # <<>> /\ route # <<>> => Draws(drawn[1], route)

\* On the same map the same is drawn and described.
LEMMA SameRoute ==
  ASSUME UNCHANGED <<network, route>>
  PROVE  /\ Describes(description', route) => Describes(description, route)'
         /\ \A w : drawn' = <<w>> /\ Draws(w, route) => Draws(drawn[1], route)'
         /\ drawn' = drawn /\ Draws(drawn[1], route) => Draws(drawn[1], route)'
<1>1. Describes(description', route) => Describes(description, route)'
  BY DEF Describes, AtMostOne, EntryPoint, ways
<1>2. ASSUME NEW w, drawn' = <<w>>, Draws(w, route) PROVE Draws(drawn[1], route)'
  <2>1. drawn'[1] = w
    BY <1>2
  <2>2. QED
    BY <1>2, <2>1 DEF Draws, OnRoute, EntryPoint, EndOf, ways
<1>3. drawn' = drawn /\ Draws(drawn[1], route) => Draws(drawn[1], route)'
  BY DEF Draws, OnRoute, EntryPoint, EndOf, ways
<1>4. QED
  BY <1>1, <1>2, <1>3

\* A description that has something to tell at one more node is one of the same route.
LEMMA DescribedStays ==
  ASSUME DescribedInv, phase = "instruct", phase' = "instruct",
         UNCHANGED <<vars, drawn>>, Describes(description', route), description' # <<>>
  PROVE  DescribedInv'
<1>1. route # <<>> /\ Describes(description, route)' /\ route' = route /\ pc' = pc
  BY SameRoute DEF DescribedInv, vars, mapVars
<1>2. drawn # <<>> => Draws(drawn[1], route)'
  BY <1>1, SameRoute DEF DescribedInv, vars, mapVars
<1>3. QED
  BY <1>1, <1>2 DEF DescribedInv

\* The way is drawn anew, or what was drawn stays.
LEMMA DrawsTheRoute ==
  ASSUME SearchInv, MadeInv, DescribedInv, Draw, UNCHANGED vars, route # <<>>, drawn' # <<>>
  PROVE  Draws(drawn[1], route)'
<1>1. Draws(TransformRouteDataToWay(route), route)
  BY RouteOfSearch, WayOfRoute DEF SearchInv, Draws
<1>2. UNCHANGED <<network, route>>
  BY DEF vars, mapVars
<1>3. CASE drawn' = drawn
  BY <1>2, <1>3, SameRoute DEF DescribedInv
<1>4. CASE drawn' = <<TransformRouteDataToWay(route)>>
  BY <1>1, <1>2, <1>4, SameRoute
<1>5. QED
  BY <1>3, <1>4 DEF Draw

\* A route has a node to describe.
LEMMA DescribesSomething ==
  ASSUME NEW d, NEW r, IsRoute(r), Describes(d, r)
  PROVE  d # <<>> /\ DOMAIN d = 1..Len(r)
<1>1. DOMAIN d = 1..Len(r) /\ 1 \in 1..Len(r)
  BY DEF IsRoute, Describes
<1>2. DOMAIN <<>> = {}
  OBVIOUS
<1>3. QED
  BY <1>1, <1>2

\* To tell something at one node leaves the description one of the route.
LEMMA TellsMore ==
  ASSUME SearchInv, MadeInv, DescribedInv, phase = "instruct", NEW k, NEW x
  PROVE  LET e == [description EXCEPT ![k].told = <<x>>]
         IN  Describes(e, route) /\ e # <<>>
<1> DEFINE e == [description EXCEPT ![k].told = <<x>>]
<1>1. IsRoute(route) /\ Describes(description, route)
  BY RouteOfSearch DEF DescribedInv
<1>2. AtMostOne(<<x>>)
  BY DEF AtMostOne
<1>3. Describes(e, route)
  BY <1>1, <1>2, ToldMore
<1>4. e # <<>>
  BY <1>1, <1>3, DescribesSomething
<1>5. QED
  BY <1>3, <1>4

\* Every step of the description keeps to the route.
LEMMA DescribedStep ==
  ASSUME SearchInv, MadeInv, DescribedInv, [DescribeNext]_allVars
  PROVE  DescribedInv'
<1>1. CASE Search
  <2>1. pc # "done" /\ UNCHANGED describeVars
    BY <1>1 DEF Search, Next, Start, TakeCheapest, SkipPath, FollowPath, CannotLoad, CloseNode, Resolve, LookingAtPath
  <2>2. UNCHANGED <<phase, description, drawn, steps>> /\ phase = "none" /\ description = <<>> /\ drawn = <<>>
    BY <2>1 DEF DescribedInv, describeVars
  <2>3. QED
    BY <2>2 DEF DescribedInv
<1>2. CASE UNCHANGED allVars
  <2>1. UNCHANGED <<network, route, pc, phase, description, steps, drawn>>
    BY <1>2 DEF allVars, vars, mapVars, describeVars
  <2>2. description # <<>> => Describes(description, route)'
    BY <2>1, SameRoute DEF DescribedInv
  <2>3. drawn # <<>> /\ route # <<>> => Draws(drawn[1], route)'
    BY <2>1, SameRoute DEF DescribedInv
  <2>4. QED
    BY <2>1, <2>2, <2>3 DEF DescribedInv
<1>3. CASE Describe
  <2>1. /\ UNCHANGED <<network, route, pc, drawn>> /\ phase' = "instruct" /\ pc = "done"
        /\ route # <<>> /\ description' = NodesOf(route) /\ drawn = <<>>
    BY <1>3 DEF Describe, DescribedInv, vars, mapVars
  <2>2. IsRoute(route) /\ Describes(description', route)
    BY <2>1, RouteOfSearch, NodesDescribe DEF SearchInv
  <2>3. description' # <<>>
    BY <2>2, DescribesSomething
  <2>4. Describes(description, route)'
    BY <2>1, <2>2, SameRoute
  <2>5. QED
    BY <2>1, <2>3, <2>4 DEF DescribedInv
<1>4. CASE DescribeFails \/ DescribeNothing
  <2>1. /\ UNCHANGED vars /\ UNCHANGED <<description, route, pc>> /\ description = <<>>
        /\ phase' \in {"failed", "told", "crashed"} /\ pc = "done" /\ (Draw \/ drawn' = drawn)
    BY <1>4 DEF DescribeFails, DescribeNothing, DescribedInv, vars
  <2>2. route # <<>> /\ drawn' # <<>> => Draws(drawn[1], route)'
    <3>1. drawn = <<>>
      BY <1>4 DEF DescribeFails, DescribeNothing, DescribedInv
    <3>2. QED
      BY <2>1, <3>1, DrawsTheRoute
  <2>3. QED
    BY <2>1, <2>2 DEF DescribedInv
<1>5. CASE ShowSteps
  <2>1. /\ UNCHANGED vars /\ UNCHANGED <<network, description, route, pc>> /\ Draw
        /\ phase = "instruct" /\ phase' = "told" /\ steps' = StepsOf(description)
    BY <1>5 DEF ShowSteps, vars, mapVars
  <2>2. Describes(description, route)' /\ route # <<>> /\ pc = "done"
    BY <2>1, SameRoute DEF DescribedInv
  <2>3. drawn' # <<>> => Draws(drawn[1], route)'
    BY <2>1, <2>2, DrawsTheRoute
  <2>4. QED
    BY <2>1, <2>2, <2>3 DEF DescribedInv
<1>6. CASE SkipNode \/ TakeLink
  <2>1. UNCHANGED <<vars, drawn, description, phase>> /\ phase = "instruct"
    BY <1>6 DEF SkipNode, TakeLink, AtNode, OnToLink, OnTheRoad, Between
  <2>2. QED
    BY <2>1, DescribedStays DEF DescribedInv
<1>7. CASE \/ EnterRoundabout \/ LeaveRoundabout \/ EnterMotorway \/ LeaveMotorway
           \/ ChangeMotorway \/ EnterMotorwayByLink
  <2>1. UNCHANGED <<vars, drawn, phase>> /\ phase = "instruct"
    BY <1>7 DEF EnterRoundabout, LeaveRoundabout, EnterMotorway, LeaveMotorway, ChangeMotorway,
                EnterMotorwayByLink, AtNode, OnToLink, OnTheRoad, Between
  <2>2. \E x : description' = [description EXCEPT ![node].told = <<x>>]
    BY <1>7 DEF EnterRoundabout, LeaveRoundabout, EnterMotorway, LeaveMotorway, ChangeMotorway,
                EnterMotorwayByLink, Tell
  <2>3. Describes(description', route) /\ description' # <<>>
    BY <2>1, <2>2, TellsMore
  <2>4. QED
    BY <2>1, <2>3, DescribedStays
<1>8. CASE GoOn
  <2>1. UNCHANGED <<vars, drawn, phase>> /\ phase = "instruct"
    BY <1>8 DEF GoOn, SameRoad, AtNode, OnTheRoad, Between
  <2>2. \/ \E x : description' = [description EXCEPT ![node].told = <<x>>]
        \/ description' = description
    BY <1>8 DEF GoOn, Tell
  <2>3. Describes(description', route) /\ description' # <<>>
    BY <2>1, <2>2, TellsMore DEF DescribedInv
  <2>4. QED
    BY <2>1, <2>3, DescribedStays
<1>9. CASE LeaveMotorwayByLink
  <2>1. UNCHANGED <<vars, drawn, phase>> /\ phase = "instruct"
    BY <1>9 DEF LeaveMotorwayByLink, AtNode, OnToLink, OnTheRoad, Between
  <2> DEFINE left == [description EXCEPT ![node].told = <<[kind |-> "motorwayLeave"]>>]
             turn == <<[kind |-> "turn"]>>
             k == LinkEnd
  <2>2. description' = left \/ description' = [left EXCEPT ![k].told = turn]
    BY <1>9 DEF LeaveMotorwayByLink
  <2>3. AtMostOne(turn)
    BY DEF AtMostOne
  <2>4. IsRoute(route) /\ Describes(left, route)
    <3>1. IsRoute(route)
      BY <2>1, RouteOfSearch DEF DescribedInv
    <3>2. QED
      BY <2>1, <3>1, TellsMore
  <2> HIDE DEF left, turn, k
  <2>5. Describes(description', route)
    BY <2>2, <2>3, <2>4, ToldMore
  <2>6. description' # <<>>
    BY <2>4, <2>5, DescribesSomething
  <2>7. QED
    BY <2>1, <2>5, <2>6, DescribedStays
<1>10. QED
  BY <1>1, <1>2, <1>3, <1>4, <1>5, <1>6, <1>7, <1>8, <1>9 DEF DescribeNext

\* The way on the map fits: it turns from one entry to the next where the route does.
LEMMA DrawnFits ==
  ASSUME SearchInv, MadeInv, DescribedInv
  PROVE  RouteIsDrawn
<1> SUFFICES ASSUME drawn # <<>>, route # <<>> PROVE RouteIsDrawn
  BY DEF RouteIsDrawn
<1> DEFINE w == drawn[1]
           n == Len(route) - 1
<1>1. /\ MapInv /\ IsRoute(route) /\ Draws(w, route)
      /\ description # <<>> => Describes(description, route)
  BY RouteOfSearch DEF DescribedInv, SearchInv
<1>2. /\ n \in Nat /\ n + 1 = Len(route)
      /\ \A j \in 1..n :
           /\ route[j].way \in DOMAIN ways /\ IsStep(ways, route[j])
           /\ EntryPoint(route, j) = StartOf(ways, route[j])
      /\ \A j \in 2..n : EntryPoint(route, j) = EndOf(ways, route[j - 1])
      /\ n = 0 => PointAt(from) = PointAt(to)
      /\ n > 0 => EntryPoint(route, 1) = PointAt(from) /\ EndOf(ways, route[n]) = PointAt(to)
  <2>1. Len(route) \in Nat \ {0}
    BY <1>1 DEF IsRoute
  <2>2. n \in Nat /\ n + 1 = Len(route) /\ (n = 0 => Len(route) = 1) /\ (n > 0 => Len(route) > 1)
    BY <2>1
  <2>3. QED
    BY <1>1, <2>2, EntriesOfRoute
<1>3. CASE n = 0
  <2>1. Len(route) = 1
    <3>1. Len(route) \in Nat \ {0}
      BY <1>1 DEF IsRoute
    <3>2. QED
      BY <1>3, <3>1
  <2>2. w = <<>> /\ PointAt(from) = PointAt(to)
    BY <1>1, <1>2, <1>3, <2>1 DEF Draws
  <2>3. QED
    BY <2>1, <2>2 DEF RouteIsDrawn
<1>4. CASE n # 0
  <2>1. w \in OnRoute(route, n) /\ Len(route) # 1 /\ n > 0
    BY <1>1, <1>2, <1>4 DEF Draws
  <2>2. /\ w \in Seq(Points) /\ Len(w) = n + 1 /\ w[1] = EntryPoint(route, 1)
        /\ \A k \in 2..n + 1 : w[k] = EndOf(ways, route[k - 1])
    BY <2>1 DEF OnRoute
  <2> HIDE DEF w, n
  <2>3. Len(w) = Len(route) /\ w[1] = PointAt(from) /\ w[Len(w)] = PointAt(to)
    <3>1. n + 1 \in 2..n + 1 /\ (n + 1) - 1 = n
      BY <1>2, <2>1
    <3>2. QED
      BY <1>2, <2>1, <2>2, <3>1
  <2>4. \A j \in 1..n : w[j] = EntryPoint(route, j)
    <3> SUFFICES ASSUME NEW j \in 1..n PROVE w[j] = EntryPoint(route, j)
      OBVIOUS
    <3>1. CASE j = 1
      BY <2>2, <3>1
    <3>2. CASE j # 1
      <4>1. j \in 2..n /\ j \in 2..n + 1
        BY <1>2, <3>2
      <4>2. QED
        BY <1>2, <2>2, <4>1
    <3>3. QED
      BY <3>1, <3>2
  <2>5. \A j \in DOMAIN description : j < Len(w) => description[j].location = w[j]
    <3> SUFFICES ASSUME NEW j \in DOMAIN description, j < Len(w)
                 PROVE  description[j].location = w[j]
      OBVIOUS
    <3>1. description # <<>>
      <4>1. DOMAIN <<>> = {}
        OBVIOUS
      <4>2. QED
        BY <4>1
    <3>2. j \in 1..n
      <4>1. DOMAIN description = 1..n + 1
        BY <1>1, <1>2, <3>1, DescribesSomething
      <4>2. QED
        BY <1>2, <2>2, <4>1
    <3>3. description[j].location = EntryPoint(route, j)
      BY <1>1, <3>1, <3>2 DEF Describes, n
    <3>4. QED
      BY <2>4, <3>2, <3>3
  <2>6. ASSUME NEW j \in 2..Len(w)
        PROVE  \E k \in DOMAIN ways :
                 LET c == Len(ways[k].points)
                 IN  \/ \E m \in 2..c : {ways[k].points[m - 1], ways[k].points[m]} = {w[j - 1], w[j]}
                     \/ w[j - 1] = w[j] /\ w[j] = ways[k].points[1] /\ w[j] = ways[k].points[c]
                     \/ /\ TouchesItself(ways[k])
                        /\ w[j - 1] = ways[k].points[c] /\ w[j] = ways[k].points[1]
    <3> DEFINE e == route[j - 1]
               points == ways[e.way].points
    <3>1. j - 1 \in 1..n /\ j \in 2..n + 1
      BY <1>2, <2>2
    <3>2. /\ w[j - 1] = points[e.at] /\ w[j] = points[e.next]
          /\ e.way \in DOMAIN ways /\ IsStep(ways, e)
      BY <1>2, <2>2, <2>4, <3>1 DEF StartOf, EndOf
    <3> HIDE DEF e
    <3>3. /\ e.at \in 1..Len(points) /\ e.next \in 1..Len(points)
          /\ \/ e.next - e.at \in {-1, 1}
             \/ /\ e.at = Len(points) /\ e.next = 1
                /\ points[1] = points[Len(points)] \/ TouchesItself(ways[e.way])
      BY <3>2 DEF IsStep, Beside, IsCircular
    <3>4. Len(points) \in Nat
      <4>1. points \in Seq(Points)
        BY <1>1, <3>2, GraphOfMap DEF WaysOK, WayOK
      <4>2. QED
        BY <4>1
    <3> HIDE DEF points, w
    <3>5. CASE e.next - e.at = 1
      <4>1. e.next \in 2..Len(points) /\ e.next - 1 = e.at
        BY <3>3, <3>4, <3>5
      <4>2. {points[e.next - 1], points[e.next]} = {w[j - 1], w[j]}
        BY <3>2, <4>1
      <4>3. QED
        BY <3>2, <4>1, <4>2 DEF points
    <3>6. CASE e.next - e.at = -1
      <4>1. e.at \in 2..Len(points) /\ e.at - 1 = e.next
        BY <3>3, <3>4, <3>6
      <4>2. {points[e.at - 1], points[e.at]} = {w[j - 1], w[j]}
        BY <3>2, <4>1
      <4>3. QED
        BY <3>2, <4>1, <4>2 DEF points
    <3>7. CASE e.at = Len(points) /\ e.next = 1 /\ points[1] = points[Len(points)]
      <4>1. w[j - 1] = w[j] /\ w[j] = points[1] /\ w[j] = points[Len(points)]
        BY <3>2, <3>7
      <4>2. QED
        BY <3>2, <4>1 DEF points
    <3>8. CASE e.at = Len(points) /\ e.next = 1 /\ TouchesItself(ways[e.way])
      BY <3>2, <3>8 DEF points
    <3>9. QED
      BY <3>3, <3>5, <3>6, <3>7, <3>8
  <2>7. QED
    BY <2>1, <2>3, <2>5, <2>6 DEF RouteIsDrawn, w
<1>5. QED
  BY <1>3, <1>4

\* So do the steps.
LEMMA StepsFit ==
  ASSUME SearchInv, MadeInv, DescribedInv
  PROVE  StepsFitRoute
<1> SUFFICES ASSUME phase = "told", description # <<>> PROVE StepsFitRoute
  BY DEF StepsFitRoute
<1> DEFINE d == description
           n == Len(d)
           shown == {m \in DOMAIN steps : steps[m].node # NoIndex}
<1>1. MapInv /\ IsRoute(route) /\ Describes(d, route) /\ steps = StepsOf(d)
  BY RouteOfSearch DEF DescribedInv, SearchInv
<1>2. n = Len(route) /\ n \in Nat \ {0}
  <2> DEFINE count == Len(route)
  <2>1. count \in Nat \ {0} /\ d = [j \in 1..count |-> d[j]]
    BY <1>1 DEF IsRoute, Describes
  <2> HIDE DEF count, d
  <2>2. d \in Seq({d[j] : j \in 1..count}) /\ DOMAIN d = 1..count
    <3>1. d \in [1..count -> {d[j] : j \in 1..count}]
      BY <2>1
    <3>2. QED
      BY <2>1, <3>1
  <2>3. n = count
    BY <2>1, <2>2
  <2>4. QED
    BY <2>1, <2>3 DEF count
<1>3. ToldOnce(d)
  BY <1>1, <1>2 DEF ToldOnce, Describes
<1>4. steps \in StepsUpTo(d, n)
  BY <1>1, <1>3, StepsOfNodes
<1>5. /\ steps \in Seq(AnyStep(d)) /\ DOMAIN steps = 1..Len(steps)
      /\ \A m \in 1..Len(steps) : steps[m].node # NoIndex =>
           /\ steps[m].node <= n /\ 1 \in DOMAIN Shown(d, steps[m].node)
           /\ steps[m].coord = d[steps[m].node].location
           /\ steps[m].kind = Shown(d, steps[m].node)[1]
      /\ \A m, k \in 1..Len(steps) :
           m < k /\ steps[m].node # NoIndex /\ steps[k].node # NoIndex => steps[m].node < steps[k].node
      /\ \A k \in 1..n : 1 \in DOMAIN Shown(d, k) => \E m \in 1..Len(steps) : steps[m].node = k
  <2>1. steps \in Seq(AnyStep(d))
    BY <1>4 DEF StepsUpTo
  <2>2. DOMAIN steps = 1..Len(steps)
    BY <2>1
  <2> HIDE DEF d, n
  <2>3. QED
    BY <1>4, <2>1, <2>2 DEF StepsUpTo
<1>6. \A j \in 1..n - 1 :
        /\ d[j].location = ways[route[j].way].points[route[j].at]
        /\ d[j].distance = IF j = 1 THEN 0
                           ELSE d[j - 1].distance
                                  + Distance[ways[route[j - 1].way].points[route[j - 1].at]]
                                            [ways[route[j - 1].way].points[route[j - 1].next]]
  <2> SUFFICES ASSUME NEW j \in 1..n - 1
               PROVE  /\ d[j].location = EntryPoint(route, j)
                      /\ d[j].distance = IF j = 1 THEN 0
                                         ELSE d[j - 1].distance
                                                + Distance[EntryPoint(route, j - 1)][EndOf(ways, route[j - 1])]
    BY DEF EntryPoint, EndOf
  <2>1. /\ d[j].location = EntryPoint(route, j)
        /\ d[j].distance = IF j = 1 THEN 0
                           ELSE d[j - 1].distance
                                  + Distance[EntryPoint(route, j - 1)][EntryPoint(route, j)]
    BY <1>1, <1>2 DEF Describes
  <2>2. j # 1 => EntryPoint(route, j) = EndOf(ways, route[j - 1])
    <3>1. j # 1 => j \in 2..Len(route) - 1
      BY <1>2
    <3>2. QED
      BY <1>1, <3>1, EntriesOfRoute
  <2>3. QED
    BY <2>1, <2>2
<1> HIDE DEF d, n
<1>7. \A m \in shown : /\ m \in 1..Len(steps) /\ steps[m].node \in 1..n
                       /\ 1 \in DOMAIN Shown(d, steps[m].node)
                       /\ steps[m].coord = d[steps[m].node].location
                       /\ steps[m].kind = Shown(d, steps[m].node)[1]
  <2> SUFFICES ASSUME NEW m \in shown PROVE m \in 1..Len(steps) /\ steps[m].node \in 1..n
    BY <1>5
  <2>1. m \in 1..Len(steps) /\ steps[m].node # NoIndex /\ steps[m] \in AnyStep(d)
    BY <1>5
  <2>2. steps[m].node \in 0..n
    BY <2>1 DEF AnyStep, n
  <2>3. QED
    BY <1>2, <2>1, <2>2 DEF NoIndex
<1>8. \A j \in 1..n : /\ 1 \in DOMAIN Shown(d, j) <=> j \in {1, n} \/ d[j].told # <<>>
                      /\ j = 1 => Shown(d, j)[1] = "start"
                      /\ j \notin {1, n} /\ d[j].told # <<>> => Shown(d, j)[1] = d[j].told[1].kind
  BY <1>3, ShownAtNode DEF n
<1>9. Nodes = 2..n - 1 /\ {1, n} \subseteq 1..n /\ Nodes \subseteq 1..n /\ Nodes \cap {1, n} = {}
      /\ \A j \in 1..n : j \in {1, n} \/ j \in Nodes
  <2>1. Nodes = 2..n - 1
    BY DEF Nodes, n, d
  <2>2. QED
    BY <1>2, <2>1
<1>10. {steps[m].node : m \in shown} = {1, n} \union {j \in Nodes : d[j].told # <<>>}
  <2>1. ASSUME NEW m \in shown PROVE steps[m].node \in {1, n} \union {j \in Nodes : d[j].told # <<>>}
    BY <1>7, <1>8, <1>9
  <2>2. ASSUME NEW j \in {1, n} \union {j \in Nodes : d[j].told # <<>>}
        PROVE  \E m \in shown : steps[m].node = j
    <3>1. j \in 1..n /\ 1 \in DOMAIN Shown(d, j) /\ j # NoIndex
      BY <1>2, <1>8, <1>9 DEF NoIndex
    <3>2. QED
      BY <1>5, <3>1
  <2> HIDE DEF shown
  <2>3. QED
    BY <2>1, <2>2
<1>11. \A m \in shown : steps[m].node = 1 => steps[m].kind = "start"
  BY <1>7, <1>8
<1>12. \A m, k \in shown : m < k => steps[m].node < steps[k].node
  BY <1>5
<1>13. \A m \in shown : steps[m].node \in Nodes => Told(steps[m].node, steps[m].kind)
  <2> SUFFICES ASSUME NEW m \in shown, steps[m].node \in Nodes
               PROVE  Told(steps[m].node, steps[m].kind)
    OBVIOUS
  <2>1. steps[m].node \notin {1, n} /\ steps[m].node \in 1..n
    BY <1>9
  <2>2. d[steps[m].node].told # <<>> /\ steps[m].kind = d[steps[m].node].told[1].kind
    BY <1>7, <1>8, <2>1
  <2>3. QED
    BY <2>2 DEF Told, d
<1>14. QED
  BY <1>6, <1>7, <1>10, <1>11, <1>12, <1>13 DEF StepsFitRoute, d, n

\* The way on the map, the list of steps and the instructions at the nodes are one and the
\* same route, the one that was calculated - whatever is told where, and however the
\* search got there.
THEOREM DescriptionsFit ==
  ASSUME \A n \in Networks : TurnsCanBeExcluded(n)
  PROVE  DescribeSpec => []DescriptionFitsRoute
<1> DEFINE Inv == SearchInv /\ RouteInv /\ MadeInv /\ DescribedInv
<1>1. DescribeInit => Inv
  <2> SUFFICES ASSUME DescribeInit PROVE Inv
    OBVIOUS
  <2>1. Init /\ phase = "none" /\ description = <<>> /\ drawn = <<>>
    BY DEF DescribeInit
  <2>2. MadeInv
    BY <2>1 DEF Init, MadeInv, Found
  <2>3. QED
    BY <2>1, <2>2, SearchInit DEF DescribedInv
<1>2. Inv /\ [DescribeNext]_allVars => Inv'
  <2>1. SearchInv => TurnsCanBeExcluded(network)
    BY DEF SearchInv, MapInv
  <2>2. QED
    BY <2>1, SearchIsLeftAlone, SearchStep, MadeStep, DescribedStep
<1>3. Inv => DescriptionFitsRoute
  BY DrawnFits, StepsFit DEF DescriptionFitsRoute
<1>4. QED
  BY <1>1, <1>2, <1>3, PTL DEF DescribeSpec

------------------------------------------------------------------------------
(* The turns that are told                                                 *)

RoundAt(r, j) == ways[r[j].way].roundabout
LinkAt(r, j)  == ways[r[j].way].type = "link"
MotorwayAt(r, j) == ways[r[j].way].type = "motorway"

\* The turn a route makes at entry j, as DirectionPostprocessor takes it.
TurnOn(r, j) ==
  NormalizeRelativeAngle(BearingInitial(EntryPoint(r, j), EntryPoint(r, j + 1))
                           - BearingFinal(EntryPoint(r, j - 1), EntryPoint(r, j)))

\* The direction at a node: where a bend goes on, another angle may replace a small one.
DirectionFits(r, j, direction) ==
  IF j \in 2..Len(r) - 2
    THEN direction # <<>> /\ (direction[1].curve = TurnOn(r, j) \/ Abs(TurnOn(r, j)) \in 5..10)
    ELSE direction = <<>>

\* The ways that lead out at a node, if others meet there.
WaysOutAt(r, j) ==
  IF r[j].objects = {} THEN 0
  ELSE Cardinality({k \in r[j].objects : ~ways[k].roundabout /\ CanUseForward(k, EntryPoint(r, j))})
         + Cardinality({k \in r[j].objects : ~ways[k].roundabout /\ CanUseBackward(k, EntryPoint(r, j))})

\* The crossing at a node of a roundabout: all exits but that around count.
ExitsOf(crossing) == IF crossing # <<>> /\ crossing[1].exits > 1 THEN crossing[1].exits - 1 ELSE 0

CrossingFits(r, j, crossing) ==
  RoundaboutsGoAround(ways) /\ j \in 2..Len(r) - 1 /\ RoundAt(r, j - 1) => ExitsOf(crossing) = WaysOutAt(r, j)

\* The nodes of d have the ways, the objects and the directions of the entries of r.
Follows(d, r) ==
  /\ d = [j \in 1..Len(r) |-> d[j]]
  /\ \A j \in 1..Len(r) :
       /\ {"way", "objects", "crossing", "direction", "told"} \subseteq DOMAIN d[j]
       /\ d[j].way = r[j].way /\ d[j].objects = r[j].objects
       /\ CrossingFits(r, j, d[j].crossing) /\ DirectionFits(r, j, d[j].direction)

\* Where a turn may be told, and where one has to be if the loop looks at the node.
MayTurn(r, j) ==
  j \in 2..Len(r) - 2 /\ Cardinality(r[j].objects) > 1 /\ Abs(TurnOn(r, j)) >= 5

MustTurn(r, j) ==
  /\ j \in 2..Len(r) - 2 /\ Cardinality(r[j].objects) > 1 /\ Abs(TurnOn(r, j)) > 45
  /\ ~(RoundAt(r, j - 1) /\ RoundAt(r, j))
  /\ LinkAt(r, j) => LinkAt(r, j - 1)

ToldAs(d, j, kind) == d[j].told # <<>> /\ d[j].told[1].kind = kind

\* Links that are told as one manoeuvre lead to node j.
PassedOver(d, r, j) ==
  \E s \in 2..j - 1 : /\ ~LinkAt(r, s - 1) /\ \A k \in s..j - 1 : LinkAt(r, k)
                      /\ \E kind \in MotorwayKinds : ToldAs(d, s, kind)

\* It takes itself to be in a roundabout only where it is in one.
AroundOnly(r, n, around) ==
  \A j \in 1..Len(r) - 1 : around /\ (j = n - 1 \/ (j = n /\ n = 1)) => RoundAt(r, j)

\* What InstructionPostprocessor has achieved before node n.
TellsTurns(d, r, n, around) ==
  /\ Follows(d, r) /\ n \in 1..Len(r) + 1 /\ AroundOnly(r, n, around)
  /\ \A j \in 1..Len(r) : ToldAs(d, j, "turn") => MayTurn(r, j)
  /\ \A j \in 1..n - 1 : MustTurn(r, j) => d[j].told # <<>> \/ PassedOver(d, r, j)

TurnsInv ==
  description # <<>> =>
    /\ TellsTurns(description, route, node, inRoundabout) /\ lastNode = node - 1
    /\ phase \in {"instruct", "told"} /\ (phase = "told" => node > Len(route))

\* The turn of a route is a number.
LEMMA TurnIsNumber ==
  ASSUME MapInv, NEW r, IsRoute(r), NEW j \in 2..Len(r) - 2
  PROVE  /\ TurnOn(r, j) \in Int /\ Abs(TurnOn(r, j)) \in Nat
         /\ \A k \in {j - 1, j, j + 1} : EntryPoint(r, k) \in Points
<1>1. \A k \in {j - 1, j, j + 1} : EntryPoint(r, k) \in Points
  <2>1. \A k \in {j - 1, j, j + 1} : k \in 1..Len(r) - 1
    BY DEF IsRoute
  <2>2. QED
    BY <2>1, EntriesOfRoute
<1>2. ASSUME NEW p \in Points, NEW q \in Points
      PROVE  BearingInitial(p, q) \in Int /\ BearingFinal(p, q) \in Int
  <2>1. Bearing[p][q] \in -180..180
    BY BearingAssumption
  <2>2. \A a \in -180..180 : a \in Int
    OBVIOUS
  <2>3. Bearing[p][q] \in Int
    BY <2>1, <2>2
  <2>4. -180 \in Int /\ 0 \in Int
    OBVIOUS
  <2>5. BearingInitial(p, q) \in Int
    BY <2>3, <2>4 DEF BearingInitial
  <2>6. BearingFinal(p, q) \in Int
    BY <2>3, <2>4 DEF BearingFinal
  <2>7. QED
    BY <2>5, <2>6
<1>3. \A a \in Int : NormalizeRelativeAngle(a) \in Int /\ Abs(a) \in Nat
  BY DEF NormalizeRelativeAngle, Abs
<1> DEFINE p == EntryPoint(r, j - 1)
           q == EntryPoint(r, j)
           s == EntryPoint(r, j + 1)
<1>4. p \in Points /\ q \in Points /\ s \in Points
  BY <1>1
<1>5. TurnOn(r, j) = NormalizeRelativeAngle(BearingInitial(q, s) - BearingFinal(p, q))
  BY DEF TurnOn
<1> HIDE DEF p, q, s
<1>6. BearingInitial(q, s) - BearingFinal(p, q) \in Int
  BY <1>2, <1>4
<1>7. TurnOn(r, j) \in Int /\ Abs(TurnOn(r, j)) \in Nat
  BY <1>3, <1>5, <1>6
<1>8. QED
  BY <1>1, <1>7

\* On a roundabout one of the exits of a crossing leads on around.
LEMMA ExitsAround ==
  ASSUME MapInv, NEW r, IsRoute(r), RoundaboutsGoAround(ways), NEW j \in 2..Len(r) - 1,
         RoundAt(r, j - 1), r[j].objects # {}
  PROVE  ExitCount(r, j) = 1 + WaysOutAt(r, j) /\ WaysOutAt(r, j) \in Nat
<1> DEFINE last == r[j - 1]
           p == EntryPoint(r, j)
           J == r[j].objects
           here == IndexIn(ways[last.way], p)
           Onwards == {k \in WaysAt(ways, p) : /\ ways[k].roundabout /\ ways[k].forward
                                               /\ IndexIn(ways[k], p) # Len(ways[k].points)}
           Out1 == {k \in J : ~ways[k].roundabout /\ CanUseForward(k, p)}
           Out2 == {k \in J : ~ways[k].roundabout /\ CanUseBackward(k, p)}
           In1 == {k \in J : /\ CanUseForward(k, p)
                             /\ last.way # k \/ ways[k].roundabout \/ ~(last.at > here)}
           In2 == {k \in J : /\ CanUseBackward(k, p)
                             /\ last.way # k \/ ~(last.at < here)}
<1>1. /\ Len(r) \in Nat /\ j - 1 \in 1..Len(r) - 1 /\ j \in 1..Len(r) - 1
  BY DEF IsRoute
<1>2. /\ IsStep(ways, last) /\ IsStep(ways, r[j]) /\ p = EndOf(ways, last) /\ p = StartOf(ways, r[j])
  BY <1>1, EntriesOfRoute
<1>3. J = WaysAt(ways, p)
  BY <1>2 DEF IsStep, MeetingAt
<1>4. last.way \in DOMAIN ways /\ p \in PointsOf(ways[last.way])
  <2>1. last.way \in DOMAIN ways /\ last.next \in 1..Len(ways[last.way].points)
    BY <1>2 DEF IsStep
  <2>2. ways[last.way].points \in Seq(Points)
    BY <2>1, GraphOfMap DEF WaysOK, WayOK
  <2>3. last.next \in DOMAIN ways[last.way].points
    BY <2>1, <2>2
  <2>4. QED
    BY <1>2, <2>1, <2>3 DEF EndOf, PointsOf
<1>5. ways[last.way].roundabout
  BY DEF RoundAt
<1>6. Cardinality(Onwards) = 1
  BY <1>4, <1>5 DEF RoundaboutsGoAround
<1>7. IsFiniteSet(J)
  <2>1. IsFiniteSet(DOMAIN ways)
    <3>1. WaysOK(ways)
      BY GraphOfMap
    <3>2. DOMAIN ways = 1..Len(ways) /\ Len(ways) \in Nat
      BY <3>1 DEF WaysOK
    <3>3. IsFiniteSet(1..Len(ways))
      BY <3>2, FS_Interval
    <3>4. QED
      BY <3>2, <3>3
  <2>2. J \subseteq DOMAIN ways
    BY <1>3 DEF WaysAt
  <2>3. QED
    BY <2>1, <2>2, FS_Subset
<1>8. \A k \in J : ways[k].roundabout => ~CanUseBackward(k, p)
  <2>1. J \subseteq DOMAIN ways
    BY <1>3 DEF WaysAt
  <2>2. QED
    BY <2>1 DEF RoundaboutsGoAround, CanUseBackward
<1>9. In1 = Onwards \union Out1
  BY <1>3, <1>5 DEF CanUseForward
<1>10. In2 = Out2
  BY <1>5, <1>8
<1>11. ExitCount(r, j) = Cardinality(In1) + Cardinality(In2)
  BY DEF ExitCount
<1>12. WaysOutAt(r, j) = Cardinality(Out1) + Cardinality(Out2)
  BY DEF WaysOutAt
<1>13. Onwards \intersect Out1 = {} /\ Onwards \subseteq J /\ Out1 \subseteq J /\ Out2 \subseteq J
  BY <1>3
<1> HIDE DEF Onwards, Out1, Out2, In1, In2, J
<1>14. /\ IsFiniteSet(Onwards) /\ IsFiniteSet(Out1) /\ IsFiniteSet(Out2)
       /\ Cardinality(Out1) \in Nat /\ Cardinality(Out2) \in Nat
  BY <1>7, <1>13, FS_Subset, FS_CardinalityType
<1>15. Cardinality(In1) = 1 + Cardinality(Out1)
  <2>1. Cardinality(Onwards \union Out1)
          = Cardinality(Onwards) + Cardinality(Out1) - Cardinality(Onwards \intersect Out1)
    BY <1>14, FS_Union
  <2>2. Cardinality({}) = 0
    BY FS_EmptySet
  <2>3. Cardinality(Onwards \intersect Out1) = 0
    BY <1>13, <2>2
  <2>4. Cardinality(Onwards \union Out1) = 1 + Cardinality(Out1)
    BY <1>6, <1>14, <2>1, <2>3
  <2>5. QED
    BY <1>9, <2>4
<1>16. QED
  BY <1>10, <1>11, <1>12, <1>14, <1>15

\* The nodes that the postprocessors before the last one leave follow the route.
LEMMA NodesFollow ==
  ASSUME MapInv, NEW r, IsRoute(r)
  PROVE  Follows(NodesOf(r), r) /\ \A j \in 1..Len(r) : NodesOf(r)[j].told = <<>>
<1> DEFINE d == DistanceAndTime(r)
           e == NodesOf(r)
<1>1. DOMAIN r = 1..Len(r) /\ Len(r) \in Nat
  BY DEF IsRoute
<1>2. e = [j \in 1..Len(r) |-> e[j]]
  BY <1>1 DEF NodesOf
<1>3. ASSUME NEW j \in 1..Len(r)
      PROVE  /\ {"way", "objects", "crossing", "direction", "told"} \subseteq DOMAIN e[j]
             /\ e[j].told = <<>> /\ e[j].way = r[j].way /\ e[j].objects = r[j].objects
             /\ e[j].crossing = IF j \notin Junctions(r) THEN <<>>
                                ELSE <<[exits |-> ExitCount(r, j), ways |-> CrossingWays(r, j)]>>
             /\ e[j].direction = IF HasDirection(r, j) THEN <<Direction(r, d, j)>> ELSE <<>>
  <2> HIDE DEF d
  <2>1. QED
    BY <1>1 DEF NodesOf, d
<1> HIDE DEF e, d
<1>4. ASSUME NEW j \in 1..Len(r)
      PROVE  HasDirection(r, j) <=> j \in 2..Len(r) - 2
  <2>1. OnTheWay(r) = 1..Len(r) - 1
    BY EntriesOfRoute
  <2>2. QED
    BY <1>1, <2>1 DEF HasDirection
<1>5. ASSUME NEW j \in 2..Len(r) - 2
      PROVE  LET c == Direction(r, d, j).curve
             IN  c = TurnOn(r, j) \/ Abs(TurnOn(r, j)) \in 5..10
  <2> DEFINE end == CurveEnd(r, d, j, TurnOn(r, j))
             other == NormalizeRelativeAngle(BearingInitial(EntryPoint(r, end - 1), EntryPoint(r, end))
                                               - BearingFinal(EntryPoint(r, j - 1), EntryPoint(r, j)))
             t == TurnOn(r, j)
  <2>1. Direction(r, d, j) =
          [turn |-> t, curve |-> IF Abs(t) >= 5 /\ Abs(t) <= 10 /\ end > j + 1 THEN other ELSE t]
    BY DEF Direction, TurnOn
  <2>2. Abs(t) \in Nat
    BY TurnIsNumber
  <2> HIDE DEF end, other, t
  <2>3. Direction(r, d, j).curve = t \/ Abs(t) \in 5..10
    BY <2>1, <2>2
  <2>4. QED
    BY <2>3 DEF t
<1>6. ASSUME NEW j \in 1..Len(r) PROVE DirectionFits(r, j, e[j].direction)
  <2>1. CASE j \in 2..Len(r) - 2
    <3>1. e[j].direction = <<Direction(r, d, j)>>
      BY <1>3, <1>4, <2>1
    <3>2. e[j].direction # <<>> /\ e[j].direction[1] = Direction(r, d, j)
      BY <3>1
    <3>3. QED
      BY <1>5, <2>1, <3>2 DEF DirectionFits
  <2>2. CASE j \notin 2..Len(r) - 2
    BY <1>3, <1>4, <2>2 DEF DirectionFits
  <2>3. QED
    BY <2>1, <2>2
<1>7. ASSUME NEW j \in 1..Len(r) PROVE CrossingFits(r, j, e[j].crossing)
  <2> SUFFICES ASSUME RoundaboutsGoAround(ways), j \in 2..Len(r) - 1, RoundAt(r, j - 1)
               PROVE  ExitsOf(e[j].crossing) = WaysOutAt(r, j)
    BY DEF CrossingFits
  <2>1. j \in Junctions(r) <=> r[j].objects # {}
    <3>1. OnTheWay(r) = 1..Len(r) - 1
      BY EntriesOfRoute
    <3>2. j \in OnTheWay(r) /\ j > 1
      BY <1>1, <3>1
    <3>3. QED
      BY <3>2 DEF Junctions
  <2>2. CASE r[j].objects = {}
    BY <1>3, <2>1, <2>2 DEF ExitsOf, WaysOutAt
  <2>3. CASE r[j].objects # {}
    <3> DEFINE c == [exits |-> ExitCount(r, j), ways |-> CrossingWays(r, j)]
    <3>1. ExitCount(r, j) = 1 + WaysOutAt(r, j) /\ WaysOutAt(r, j) \in Nat
      BY <2>3, ExitsAround
    <3>2. e[j].crossing = <<c>>
      BY <1>3, <2>1, <2>3
    <3>3. c.exits = ExitCount(r, j)
      OBVIOUS
    <3> HIDE DEF c
    <3>4. e[j].crossing # <<>> /\ e[j].crossing[1].exits = ExitCount(r, j)
      BY <3>2, <3>3
    <3>5. QED
      BY <3>1, <3>4 DEF ExitsOf
  <2>4. QED
    BY <2>2, <2>3
<1>8. Follows(e, r) /\ \A j \in 1..Len(r) : e[j].told = <<>>
  BY <1>2, <1>3, <1>6, <1>7 DEF Follows
<1>9. QED
  BY <1>8 DEF e

TellAt(d, k, instructions) == [d EXCEPT ![k].told = instructions]

\* To tell something at a node leaves the others, and all but what is told, alone.
LEMMA FollowsStill ==
  ASSUME NEW d, NEW r, Follows(d, r), NEW k, NEW x
  PROVE  /\ Follows(TellAt(d, k, x), r)
         /\ \A j \in 1..Len(r) : TellAt(d, k, x)[j].told = IF j = k THEN x ELSE d[j].told
<1> DEFINE e == TellAt(d, k, x)
<1>0. e = [d EXCEPT ![k].told = x]
  BY DEF TellAt
<1> HIDE DEF e
<1>1. DOMAIN d = 1..Len(r)
  BY DEF Follows
<1>2. e = [j \in 1..Len(r) |-> e[j]]
  BY <1>0, <1>1
<1>3. ASSUME NEW j \in 1..Len(r)
      PROVE  /\ {"way", "objects", "crossing", "direction", "told"} \subseteq DOMAIN e[j]
             /\ e[j].way = d[j].way /\ e[j].objects = d[j].objects
             /\ e[j].crossing = d[j].crossing /\ e[j].direction = d[j].direction
             /\ e[j].told = IF j = k THEN x ELSE d[j].told
  <2>1. {"way", "objects", "crossing", "direction", "told"} \subseteq DOMAIN d[j]
    BY DEF Follows
  <2>2. CASE j = k
    <3>1. e[j] = [d[j] EXCEPT !.told = x]
      BY <1>0, <1>1, <2>2
    <3>2. QED
      BY <2>1, <2>2, <3>1
  <2>3. CASE j # k
    <3>1. e[j] = d[j]
      BY <1>0, <1>1, <2>3
    <3>2. QED
      BY <2>1, <2>3, <3>1
  <2>4. QED
    BY <2>2, <2>3
<1>4. Follows(e, r)
  BY <1>2, <1>3 DEF Follows
<1>5. QED
  BY <1>3, <1>4 DEF e

\* HandleDirectionChange tells a turn where one must be told and only where one may be.
LEMMA TurnsWhereItMust ==
  ASSUME MapInv, IsRoute(route), Follows(description, route), NEW j \in 1..Len(route)
  PROVE  /\ Turns(j) => MayTurn(route, j)
         /\ MustTurn(route, j) => Turns(j)
<1> DEFINE t == TurnOn(route, j)
           c == description[j].direction[1].curve
<1>1. description[j].objects = route[j].objects /\ DirectionFits(route, j, description[j].direction)
  BY DEF Follows
<1>2. ASSUME Turns(j) PROVE MayTurn(route, j)
  <2>1. description[j].direction # <<>> /\ Cardinality(description[j].objects) > 1 /\ Move(c) # "straightOn"
    BY <1>2 DEF Turns
  <2>2. j \in 2..Len(route) - 2 /\ (c = t \/ Abs(t) \in 5..10)
    BY <1>1, <2>1 DEF DirectionFits
  <2>3. t \in Int /\ Abs(t) \in Nat
    BY <2>2, TurnIsNumber
  <2>4. ~(Abs(c) <= 10)
    BY <2>1 DEF Move
  <2> HIDE DEF t, c
  <2>5. Abs(t) >= 5
    BY <2>2, <2>3, <2>4
  <2>6. QED
    BY <1>1, <2>1, <2>2, <2>5 DEF MayTurn, t
<1>3. ASSUME MustTurn(route, j) PROVE Turns(j)
  <2>1. j \in 2..Len(route) - 2 /\ Cardinality(route[j].objects) > 1 /\ Abs(t) > 45
    BY <1>3 DEF MustTurn
  <2>2. t \in Int /\ Abs(t) \in Nat
    BY <2>1, TurnIsNumber
  <2>3. description[j].direction # <<>> /\ (c = t \/ Abs(t) \in 5..10)
    BY <1>1, <2>1 DEF DirectionFits
  <2> HIDE DEF t, c
  <2>4. c = t
    BY <2>1, <2>2, <2>3
  <2>5. Move(c) \in {"turn", "sharp"}
    BY <2>1, <2>2, <2>4 DEF Move
  <2>6. Move(c) \notin {"slightly", "straightOn"}
    BY <2>5
  <2>7. QED
    BY <1>1, <2>1, <2>3, <2>6 DEF Turns, c
<1>4. QED
  BY <1>2, <1>3

\* On the same map the same is told.
LEMMA SameTurns ==
  ASSUME UNCHANGED <<network, route>>, Len(route) \in Nat,
         TellsTurns(description', route, node', inRoundabout')
  PROVE  TellsTurns(description, route, node, inRoundabout)'
<1>1. ASSUME NEW j \in 2..Len(route) - 2 PROVE TurnOn(route, j)' = TurnOn(route, j)
  BY DEF TurnOn, NormalizeRelativeAngle, BearingInitial, BearingFinal, EntryPoint, ways
<1>2. Follows(description, route)'
  <2>1. \A j \in 1..Len(route) :
          DirectionFits(route, j, description'[j].direction) => DirectionFits(route, j, description[j].direction)'
    BY <1>1 DEF DirectionFits, Abs
  <2>2. \A j \in 1..Len(route) : (WaysOutAt(route, j))' = WaysOutAt(route, j)
    BY DEF WaysOutAt, CanUseForward, CanUseBackward, EntryPoint, ways
  <2>3. RoundaboutsGoAround(ways)' <=> RoundaboutsGoAround(ways)
    BY DEF ways
  <2>4. \A j \in 1..Len(route) :
          CrossingFits(route, j, description'[j].crossing) => CrossingFits(route, j, description[j].crossing)'
    BY <2>2, <2>3 DEF CrossingFits, ExitsOf, RoundAt, ways
  <2>5. QED
    BY <2>1, <2>4 DEF TellsTurns, Follows
<1>3. /\ \A j \in 1..Len(route) : MayTurn(route, j)' <=> MayTurn(route, j)
      /\ \A j \in 1..Len(route) : MustTurn(route, j)' <=> MustTurn(route, j)
  BY <1>1 DEF MayTurn, MustTurn, RoundAt, LinkAt, ways, Abs
<1>4. \A j \in 1..Len(route) : PassedOver(description', route, j) <=> PassedOver(description, route, j)'
  BY DEF PassedOver, ToldAs, LinkAt, ways
<1>5. /\ node' \in 1..Len(route) + 1 /\ route' = route
      /\ \A j \in 1..node' - 1 : MustTurn(route, j) =>
           description'[j].told # <<>> \/ PassedOver(description', route, j)
      /\ AroundOnly(route, node', inRoundabout')
      /\ \A j \in 1..Len(route) : ToldAs(description', j, "turn") => MayTurn(route, j)
  BY DEF TellsTurns
<1>6. AroundOnly(route, node, inRoundabout)'
  BY <1>5 DEF AroundOnly, RoundAt, ways
<1>7. \A j \in 1..Len(route) : ToldAs(description, j, "turn")' => MayTurn(route, j)'
  BY <1>3, <1>5 DEF ToldAs
<1>8. \A j \in 1..node' - 1 : MustTurn(route, j)' => description'[j].told # <<>> \/ PassedOver(description, route, j)'
  <2>1. \A n \in 1..Len(route) + 1 : \A j \in 1..n - 1 : j \in 1..Len(route)
    OBVIOUS
  <2>2. QED
    BY <1>3, <1>4, <1>5, <2>1
<1>9. QED
  BY <1>2, <1>5, <1>6, <1>7, <1>8 DEF TellsTurns

\* A description has a node for every entry of its route.
LEMMA LengthOfNodes ==
  ASSUME NEW d, NEW r, IsRoute(r), Follows(d, r)
  PROVE  Len(d) = Len(r) /\ DOMAIN d = 1..Len(r)
<1> DEFINE count == Len(r)
<1>1. count \in Nat \ {0} /\ d = [j \in 1..count |-> d[j]]
  BY DEF IsRoute, Follows
<1> HIDE DEF count
<1>2. d \in Seq({d[j] : j \in 1..count}) /\ DOMAIN d = 1..count
  <2>1. d \in [1..count -> {d[j] : j \in 1..count}]
    BY <1>1
  <2>2. QED
    BY <1>1, <2>1
<1>3. QED
  BY <1>1, <1>2 DEF count

\* The loop goes on behind node k, when the nodes from n to k have been told.
LEMMA ToldUpTo ==
  ASSUME NEW r, IsRoute(r), NEW d, NEW e, NEW n, NEW k, NEW around, NEW around2,
         TellsTurns(d, r, n, around), k \in n..Len(r), Follows(e, r),
         \A j \in 1..Len(r) : j < n \/ j > k => e[j].told = d[j].told,
         \A j \in n..k : ToldAs(e, j, "turn") => MayTurn(r, j),
         \A j \in n..k : MustTurn(r, j) => e[j].told # <<>> \/ PassedOver(e, r, j),
         k < Len(r) /\ around2 => RoundAt(r, k)
  PROVE  TellsTurns(e, r, k + 1, around2)
<1>1. Len(r) \in Nat /\ n \in 1..Len(r) + 1 /\ k \in 1..Len(r) /\ k + 1 \in 1..Len(r) + 1
  BY DEF TellsTurns, IsRoute
<1>2. AroundOnly(r, k + 1, around2)
  BY <1>1 DEF AroundOnly
<1>3. ASSUME NEW j \in 1..Len(r), ToldAs(e, j, "turn") PROVE MayTurn(r, j)
  <2>1. CASE j \in n..k
    BY <1>3, <2>1
  <2>2. CASE j \notin n..k
    <3>1. e[j].told = d[j].told
      BY <1>1, <2>2
    <3>2. ToldAs(d, j, "turn")
      BY <1>3, <3>1 DEF ToldAs
    <3>3. QED
      BY <3>2 DEF TellsTurns
  <2>3. QED
    BY <2>1, <2>2
<1>4. ASSUME NEW j \in 1..(k + 1) - 1, MustTurn(r, j) PROVE e[j].told # <<>> \/ PassedOver(e, r, j)
  <2>1. CASE j \in n..k
    BY <1>4, <2>1
  <2>2. CASE j \notin n..k
    <3>1. j \in 1..n - 1 /\ \A s \in 1..j : s \in 1..Len(r) /\ e[s].told = d[s].told
      BY <1>1, <2>2
    <3>2. d[j].told # <<>> \/ PassedOver(d, r, j)
      BY <1>4, <3>1 DEF TellsTurns
    <3>3. PassedOver(d, r, j) => PassedOver(e, r, j)
      <4>1. \A s \in 2..j - 1 : e[s].told = d[s].told
        BY <1>1, <3>1
      <4>2. QED
        BY <4>1 DEF PassedOver, ToldAs
    <3>4. QED
      BY <1>1, <3>1, <3>2, <3>3
  <2>3. QED
    BY <2>1, <2>2
<1>5. QED
  BY <1>1, <1>2, <1>3, <1>4 DEF TellsTurns

\* The description of what the loop sees at the current node.
LEMMA AtTheNode ==
  ASSUME MapInv, IsRoute(route), TurnsInv, description # <<>>
  PROVE  /\ Len(description) = Len(route) /\ Len(route) \in Nat \ {0}
         /\ node \in 1..Len(route) + 1 /\ lastNode = node - 1
         /\ \A j \in 1..Len(route) : HasPath(j) <=> j < Len(route)
         /\ \A j \in 1..Len(route) - 1 : /\ Link(j) <=> LinkAt(route, j)
                                         /\ Roundabout(j) <=> RoundAt(route, j)
                                         /\ Motorway(j) <=> MotorwayAt(route, j)
         /\ AtNode => node \in 1..Len(route)
         /\ AtNode /\ FirstOrLast => node = 1 \/ node = Len(route)
         /\ Between => node \in 2..Len(route) - 1
<1>1. /\ Follows(description, route) /\ node \in 1..Len(route) + 1 /\ lastNode = node - 1
  BY DEF TurnsInv, TellsTurns
<1>2. Len(description) = Len(route)
  BY <1>1, LengthOfNodes
<1>3. Len(route) \in Nat \ {0} /\ route[Len(route)].way = NoWay
  BY DEF IsRoute
<1>4. \A j \in 1..Len(route) : description[j].way = route[j].way
  BY <1>1 DEF Follows
<1>5. \A j \in 1..Len(route) - 1 : route[j].way # NoWay
  <2>1. OnTheWay(route) = 1..Len(route) - 1
    BY EntriesOfRoute
  <2>2. QED
    BY <2>1 DEF OnTheWay
<1>6. ASSUME NEW j \in 1..Len(route) PROVE HasPath(j) <=> j < Len(route)
  <2>1. j = Len(route) \/ j \in 1..Len(route) - 1
    BY <1>3
  <2>2. QED
    BY <1>3, <1>4, <1>5, <2>1 DEF HasPath
<1>7. ASSUME NEW j \in 1..Len(route) - 1
      PROVE  /\ Link(j) <=> LinkAt(route, j)
             /\ Roundabout(j) <=> RoundAt(route, j)
             /\ Motorway(j) <=> MotorwayAt(route, j)
  <2>1. j \in 1..Len(route) /\ HasPath(j)
    BY <1>3, <1>6
  <2>2. QED
    BY <1>4, <2>1 DEF Link, LinkAt, Roundabout, RoundAt, Motorway, MotorwayAt
<1>8. AtNode => node \in 1..Len(route)
  BY <1>1, <1>2, <1>3 DEF AtNode
<1>9. ASSUME AtNode
      PROVE  /\ FirstOrLast => node = 1 \/ node = Len(route)
             /\ ~FirstOrLast => node \in 2..Len(route) - 1
  <2>1. CASE node = 1
    <3>1. lastNode = NoIndex
      BY <1>1, <2>1 DEF NoIndex
    <3>2. FirstOrLast
      BY <3>1 DEF FirstOrLast
    <3>3. QED
      BY <2>1, <3>2
  <2>2. CASE node # 1
    <3>1. lastNode \in 1..Len(route) - 1 /\ lastNode # NoIndex /\ node \in 1..Len(route)
      BY <1>1, <1>8, <1>9, <2>2 DEF NoIndex
    <3>2. HasPath(lastNode)
      BY <1>3, <1>6, <3>1
    <3>3. FirstOrLast <=> ~HasPath(node)
      BY <3>1, <3>2 DEF FirstOrLast
    <3>4. QED
      BY <1>3, <1>6, <2>2, <3>1, <3>3
  <2>3. QED
    BY <2>1, <2>2
<1>10. QED
  BY <1>1, <1>2, <1>3, <1>6, <1>7, <1>8, <1>9 DEF Between

\* The links that begin at a node come to an end behind it.
LEMMA LinksEnd ==
  ASSUME MapInv, IsRoute(route), TurnsInv, description # <<>>, node \in 2..Len(route) - 1
  PROVE  /\ LinkEnd \in node + 1..Len(route)
         /\ \A k \in node + 1..LinkEnd - 1 : LinkAt(route, k)
         /\ LinkEnd < Len(route) => ~LinkAt(route, LinkEnd)
<1>1. /\ Len(description) = Len(route) /\ Len(route) \in Nat \ {0} /\ node \in Nat
      /\ \A j \in 1..Len(route) : HasPath(j) <=> j < Len(route)
      /\ \A j \in 1..Len(route) - 1 : Link(j) <=> LinkAt(route, j)
  BY AtTheNode
<1> DEFINE ends == {k \in node + 1..Len(description) : ~HasPath(k) \/ ~Link(k)}
<1>2. ends \in SUBSET Nat /\ Len(route) \in ends
  BY <1>1
<1>3. \E m \in ends : \A l \in ends : m <= l
  <2> HIDE DEF ends
  <2>1. QED
    BY <1>2, LeastNat
<1>4. LinkEnd \in ends /\ \A l \in ends : LinkEnd <= l
  <2>1. LinkEnd = CHOOSE k \in ends : \A l \in ends : k <= l
    BY DEF LinkEnd
  <2> HIDE DEF ends
  <2>2. QED
    BY <1>3, <2>1
<1>5. LinkEnd \in node + 1..Len(route)
  BY <1>1, <1>4
<1>6. ASSUME NEW k \in node + 1..LinkEnd - 1 PROVE LinkAt(route, k)
  <2>1. k \in node + 1..Len(route) /\ k \in 1..Len(route) - 1 /\ ~(LinkEnd <= k)
    BY <1>1, <1>5
  <2>2. k \notin ends
    BY <1>4, <2>1
  <2>3. QED
    BY <1>1, <2>1, <2>2
<1>7. LinkEnd < Len(route) => ~LinkAt(route, LinkEnd)
  <2>1. ~HasPath(LinkEnd) \/ ~Link(LinkEnd)
    BY <1>4
  <2>2. LinkEnd \in 1..Len(route) /\ (LinkEnd < Len(route) => LinkEnd \in 1..Len(route) - 1)
    BY <1>1, <1>5
  <2>3. QED
    BY <1>1, <2>1, <2>2
<1>8. QED
  BY <1>5, <1>6, <1>7

\* The ways of successive entries of a route meet.
LEMMA EntriesMeet ==
  ASSUME MapInv, NEW r, IsRoute(r), NEW j \in 2..Len(r) - 1
  PROVE  r[j - 1].way \in DOMAIN ways /\ r[j].way \in DOMAIN ways /\ Meet(ways, r[j - 1].way, r[j].way)
<1> DEFINE a == r[j - 1]
           b == r[j]
<1>1. Len(r) \in Nat /\ j - 1 \in 1..Len(r) - 1 /\ j \in 1..Len(r) - 1
  BY DEF IsRoute
<1>2. /\ IsStep(ways, a) /\ IsStep(ways, b)
      /\ StartOf(ways, b) = EndOf(ways, a)
  BY <1>1, EntriesOfRoute
<1>3. ASSUME NEW k \in DOMAIN ways PROVE DOMAIN ways[k].points = 1..Len(ways[k].points)
  <2>1. ways[k].points \in Seq(Points)
    BY GraphOfMap DEF WaysOK, WayOK
  <2>2. QED
    BY <2>1
<1> HIDE DEF a, b
<1>4. /\ a.way \in DOMAIN ways /\ b.way \in DOMAIN ways
      /\ a.next \in DOMAIN ways[a.way].points /\ b.at \in DOMAIN ways[b.way].points
      /\ ways[b.way].points[b.at] = ways[a.way].points[a.next]
  BY <1>2, <1>3 DEF IsStep, StartOf, EndOf
<1>5. QED
  BY <1>4 DEF Meet, a, b

\* A link does not begin where the route goes on around a roundabout.
LEMMA NoLinkAround ==
  ASSUME MapInv, IsRoute(route), RoundaboutsAreOfOneKind(ways), NEW j \in 2..Len(route) - 1,
         ~LinkAt(route, j - 1), LinkAt(route, j)
  PROVE  ~(RoundAt(route, j - 1) /\ RoundAt(route, j))
  BY EntriesMeet DEF RoundaboutsAreOfOneKind, RoundAt, LinkAt

\* What the loop has at a node: a route, and the nodes before told.
AtInv ==
  /\ MapInv /\ IsRoute(route) /\ TurnsInv /\ description # <<>> /\ RoundaboutsAreOfOneKind(ways)
  /\ phase = "instruct"

\* The loop goes on behind node k.
LEMMA GoesOn ==
  ASSUME AtInv, UNCHANGED <<vars, phase>>, NEW k, GoOnFrom(k),
         TellsTurns(description', route, k + 1, inRoundabout'), k \in Nat
  PROVE  TurnsInv'
<1>1. UNCHANGED <<network, route>> /\ node' = k + 1 /\ lastNode' = node' - 1
  BY DEF vars, mapVars, GoOnFrom
<1>2. Len(route) \in Nat
  BY DEF AtInv, IsRoute
<1>3. TellsTurns(description, route, node, inRoundabout)'
  BY <1>1, <1>2, SameTurns
<1>4. QED
  BY <1>1, <1>3 DEF TurnsInv, AtInv

\* The loop goes on behind the current node, at which x is told.
LEMMA TellsOne ==
  ASSUME AtInv, node \in 1..Len(route), NEW x, NEW around, NEW kind,
         description' = [description EXCEPT ![node].told = <<x>>], x.kind = kind,
         kind = "turn" => MayTurn(route, node),
         around /\ node < Len(route) => RoundAt(route, node)
  PROVE  TellsTurns(description', route, node + 1, around)
<1> DEFINE e == [description EXCEPT ![node].told = <<x>>]
<1>0. e = [description EXCEPT ![node].told = <<x>>]
  OBVIOUS
<1> HIDE DEF e
<1>1. TellsTurns(description, route, node, inRoundabout) /\ Follows(description, route)
  BY DEF AtInv, TurnsInv, TellsTurns
<1>2. /\ Follows(e, route)
      /\ \A j \in 1..Len(route) : e[j].told = IF j = node THEN <<x>> ELSE description[j].told
  <2> DEFINE y == <<x>>
  <2>1. e = TellAt(description, node, y)
    BY <1>0 DEF TellAt
  <2> HIDE DEF y
  <2>2. /\ Follows(e, route)
        /\ \A j \in 1..Len(route) : e[j].told = IF j = node THEN y ELSE description[j].told
    BY <1>1, <2>1, FollowsStill
  <2>3. QED
    BY <2>2 DEF y
<1>3. node \in node..Len(route) /\ Len(route) \in Nat
  BY DEF AtInv, IsRoute
<1>4. \A j \in node..node : j = node /\ e[j].told # <<>> /\ (ToldAs(e, j, "turn") => MayTurn(route, j))
  <2>1. e[node].told = <<x>>
    BY <1>2
  <2>2. ToldAs(e, node, "turn") => kind = "turn"
    BY <2>1 DEF ToldAs
  <2>3. \A j \in node..node : j = node
    BY <1>3
  <2>4. QED
    BY <2>1, <2>2, <2>3
<1>5. TellsTurns(e, route, node + 1, around)
  <2>1. \A j \in 1..Len(route) : j < node \/ j > node => e[j].told = description[j].told
    BY <1>2, <1>3
  <2>2. IsRoute(route)
    BY DEF AtInv
  <2>3. QED
    BY <1>1, <1>2, <1>3, <1>4, <2>1, <2>2, ToldUpTo
<1>6. QED
  BY <1>5 DEF e

\* The loop goes on behind the current node, at which nothing has to be told.
LEMMA TellsNone ==
  ASSUME AtInv, node \in 1..Len(route), NEW around, description' = description,
         ~MustTurn(route, node),
         around /\ node < Len(route) => RoundAt(route, node)
  PROVE  TellsTurns(description', route, node + 1, around)
<1>1. TellsTurns(description, route, node, inRoundabout) /\ Follows(description, route) /\ IsRoute(route)
  BY DEF AtInv, TurnsInv, TellsTurns
<1>2. node \in node..Len(route) /\ \A j \in node..node : j = node
  BY DEF AtInv, IsRoute
<1>3. \A j \in 1..Len(route) : ToldAs(description, j, "turn") => MayTurn(route, j)
  BY <1>1 DEF TellsTurns
<1>4. QED
  BY <1>1, <1>2, <1>3, ToldUpTo

\* It goes on behind the links that begin at the current node and are told there.
LEMMA TellsLinks ==
  ASSUME AtInv, OnToLink, NEW x, NEW kind \in MotorwayKinds, x.kind = kind,
         LET left == [description EXCEPT ![node].told = <<x>>]
         IN  \/ description' = left
             \/ Turns(LinkEnd) /\ description' = [left EXCEPT ![LinkEnd].told = <<[kind |-> "turn"]>>]
  PROVE  TellsTurns(description', route, LinkEnd + 1, inRoundabout) /\ LinkEnd \in Nat
<1> DEFINE left == [description EXCEPT ![node].told = <<x>>]
           turn == <<[kind |-> "turn"]>>
           k == LinkEnd
<1>1. TellsTurns(description, route, node, inRoundabout) /\ Follows(description, route) /\ IsRoute(route)
      /\ MapInv
  BY DEF AtInv, TurnsInv, TellsTurns
<1>2. /\ node \in 2..Len(route) - 1 /\ Len(route) \in Nat
      /\ ~LinkAt(route, node - 1) /\ LinkAt(route, node)
      /\ RoundAt(route, node - 1) <=> RoundAt(route, node)
  <2>1. Between /\ ~Link(lastNode) /\ Link(node) /\ (Roundabout(lastNode) <=> Roundabout(node))
    BY DEF OnToLink, OnTheRoad
  <2>2. node \in 2..Len(route) - 1 /\ lastNode = node - 1 /\ Len(route) \in Nat
    BY <2>1, AtTheNode DEF AtInv
  <2>3. lastNode \in 1..Len(route) - 1 /\ node \in 1..Len(route) - 1
    BY <2>2
  <2>4. \A j \in 1..Len(route) - 1 : /\ Link(j) <=> LinkAt(route, j)
                                     /\ Roundabout(j) <=> RoundAt(route, j)
    BY AtTheNode DEF AtInv
  <2>5. QED
    BY <2>1, <2>2, <2>3, <2>4
<1>3. ~inRoundabout
  <2>1. ~RoundAt(route, node - 1)
    BY <1>1, <1>2, NoLinkAround DEF AtInv
  <2>2. node - 1 \in 1..Len(route) - 1
    BY <1>2
  <2>3. AroundOnly(route, node, inRoundabout)
    BY <1>1 DEF TellsTurns
  <2>4. \A j \in 1..Len(route) - 1 : j = node - 1 => (inRoundabout => RoundAt(route, j))
    BY <2>3 DEF AroundOnly
  <2>5. QED
    BY <2>1, <2>2, <2>4
<1>4. /\ k \in node + 1..Len(route)
      /\ \A j \in node..k - 1 : LinkAt(route, j)
  <2>1. k \in node + 1..Len(route) /\ \A j \in node + 1..k - 1 : LinkAt(route, j)
    BY <1>1, <1>2, LinksEnd DEF AtInv
  <2>2. \A j \in node..k - 1 : j = node \/ j \in node + 1..k - 1
    BY <1>2, <2>1
  <2>3. QED
    BY <1>2, <2>1, <2>2
<1>5. Turns(k) => MayTurn(route, k)
  <2>1. k \in 1..Len(route)
    BY <1>2, <1>4
  <2>2. QED
    BY <1>1, <2>1, TurnsWhereItMust
<1> DEFINE told == <<x>>
           more == [left EXCEPT ![k].told = turn]
<1>6. left = TellAt(description, node, told) /\ more = TellAt(left, k, turn)
  BY DEF TellAt
<1>7. description' = left \/ (Turns(k) /\ description' = more)
  OBVIOUS
<1> HIDE DEF k, left, more, told, turn
<1>8. PICK e : /\ description' = e /\ Follows(e, route)
               /\ \A j \in 1..Len(route) :
                    \/ e[j].told = IF j = node THEN told ELSE description[j].told
                    \/ j = k /\ Turns(k) /\ e[j].told = turn
  <2>1. /\ Follows(left, route)
        /\ \A j \in 1..Len(route) : left[j].told = IF j = node THEN told ELSE description[j].told
    BY <1>1, <1>6, FollowsStill
  <2>2. /\ Follows(more, route)
        /\ \A j \in 1..Len(route) : more[j].told = IF j = k THEN turn ELSE left[j].told
    BY <1>6, <2>1, FollowsStill
  <2>3. CASE description' = left
    BY <2>1, <2>3
  <2>4. CASE Turns(k) /\ description' = more
    <3>1. \A j \in 1..Len(route) :
            \/ more[j].told = IF j = node THEN told ELSE description[j].told
            \/ j = k /\ Turns(k) /\ more[j].told = turn
      BY <2>1, <2>2, <2>4
    <3>2. QED
      BY <2>2, <2>4, <3>1
  <2>5. QED
    BY <1>7, <2>3, <2>4
<1>9. node \in 1..Len(route) /\ k \in 1..Len(route) /\ node # k /\ k \in node..Len(route) /\ k \in Nat
  BY <1>2, <1>4
<1>10. ToldAs(e, node, kind)
  <2>1. e[node].told = told
    BY <1>8, <1>9
  <2>2. QED
    BY <2>1 DEF ToldAs, told
<1>11. \A j \in 1..Len(route) : j < node \/ j > k => e[j].told = description[j].told
  BY <1>2, <1>8, <1>9
<1>12. ASSUME NEW j \in node..k, ToldAs(e, j, "turn") PROVE MayTurn(route, j)
  <2>1. j \in 1..Len(route)
    BY <1>9
  <2>2. CASE j = k /\ Turns(k)
    BY <1>5, <2>2
  <2>3. CASE j = node
    BY <1>10, <1>12, <2>3 DEF ToldAs, MotorwayKinds
  <2>4. CASE j # node /\ e[j].told = description[j].told
    <3>1. ToldAs(description, j, "turn")
      BY <1>12, <2>4 DEF ToldAs
    <3>2. QED
      BY <1>1, <2>1, <3>1 DEF TellsTurns
  <2>5. QED
    BY <1>8, <2>1, <2>2, <2>3, <2>4
<1>13. ASSUME NEW j \in node..k, MustTurn(route, j)
       PROVE  e[j].told # <<>> \/ PassedOver(e, route, j)
  <2>1. CASE j = node
    BY <1>10, <2>1 DEF ToldAs
  <2>2. CASE j # node
    <3>1. node \in 2..j - 1 /\ \A l \in node..j - 1 : l \in node..k - 1
      BY <1>2, <1>9, <2>2
    <3>2. QED
      BY <1>2, <1>4, <1>10, <3>1 DEF PassedOver
  <2>3. QED
    BY <2>1, <2>2
<1>14. TellsTurns(e, route, k + 1, inRoundabout)
  BY <1>1, <1>3, <1>8, <1>9, <1>11, <1>12, <1>13, ToldUpTo
<1>15. QED
  BY <1>8, <1>9, <1>14 DEF k

\* Every step of the loop tells the turns at the nodes it leaves behind.
LEMMA TurnsStep ==
  ASSUME SearchInv, MadeInv, DescribedInv, TurnsInv, RoundaboutsAreOfOneKind(ways), [DescribeNext]_allVars
  PROVE  TurnsInv'
<1>1. MapInv /\ (description # <<>> => IsRoute(route) /\ route # <<>>)
  BY RouteOfSearch DEF SearchInv, DescribedInv
<1>2. phase = "instruct" => AtInv
  BY <1>1 DEF AtInv, DescribedInv
<1>3. CASE Search \/ UNCHANGED allVars
  <2>1. UNCHANGED describeVars
    BY <1>3 DEF Search, allVars
  <2>2. CASE description = <<>>
    BY <2>1, <2>2 DEF TurnsInv, describeVars
  <2>3. CASE description # <<>>
    <3>1. phase # "none" /\ pc = "done"
      BY <2>3 DEF DescribedInv
    <3>2. ~Search
      BY <3>1 DEF Search, Next, Start, TakeCheapest, SkipPath, FollowPath, CannotLoad, CloseNode, Resolve, LookingAtPath
    <3>3. UNCHANGED <<network, route, phase, description, node, lastNode, inRoundabout>>
      BY <1>3, <3>2 DEF allVars, vars, mapVars, describeVars, loopVars
    <3>4. TellsTurns(description, route, node, inRoundabout)'
      BY <1>1, <2>3, <3>3, SameTurns DEF TurnsInv, IsRoute
    <3>5. QED
      BY <2>3, <3>3, <3>4 DEF TurnsInv
  <2>4. QED
    BY <2>2, <2>3
<1>4. CASE Describe
  <2>1. /\ UNCHANGED <<network, route>> /\ route # <<>> /\ description' = NodesOf(route)
        /\ phase' = "instruct" /\ node' = 1 /\ lastNode' = node' - 1
        /\ inRoundabout' = (route[1].way # NoWay /\ ways[route[1].way].roundabout)
    BY <1>4 DEF Describe, vars, mapVars, NoIndex
  <2>2. IsRoute(route)
    BY <2>1, RouteOfSearch
  <2>3. Follows(description', route) /\ \A j \in 1..Len(route) : description'[j].told = <<>>
    BY <1>1, <2>1, <2>2, NodesFollow
  <2>4. /\ node' \in 1..Len(route) + 1
        /\ \A j \in 1..Len(route) - 1 : (j = node' - 1 \/ (j = node' /\ node' = 1)) => j = 1
        /\ \A j \in 1..node' - 1 : FALSE
    BY <2>1, <2>2 DEF IsRoute
  <2>5. TellsTurns(description', route, node', inRoundabout')
    BY <2>1, <2>3, <2>4 DEF TellsTurns, ToldAs, AroundOnly, RoundAt
  <2>6. TellsTurns(description, route, node, inRoundabout)'
    BY <2>1, <2>2, <2>5, SameTurns DEF IsRoute
  <2>7. QED
    BY <2>1, <2>6 DEF TurnsInv
<1>5. CASE DescribeFails \/ DescribeNothing
  BY <1>5 DEF DescribeFails, DescribeNothing, DescribedInv, TurnsInv
<1>6. CASE ShowSteps
  <2>1. /\ UNCHANGED <<network, route, description, node, lastNode, inRoundabout>>
        /\ phase = "instruct" /\ phase' = "told" /\ node > Len(description)
    BY <1>6 DEF ShowSteps, vars, mapVars, loopVars
  <2>2. CASE description = <<>>
    BY <2>1, <2>2 DEF TurnsInv
  <2>3. CASE description # <<>>
    <3>1. Len(description) = Len(route)
      BY <1>1, <2>3, AtTheNode
    <3>2. TellsTurns(description, route, node, inRoundabout)'
      BY <1>1, <2>1, <2>3, SameTurns DEF TurnsInv, IsRoute
    <3>3. QED
      BY <2>1, <2>3, <3>1, <3>2 DEF TurnsInv
  <2>4. QED
    BY <2>2, <2>3
<1>7. ASSUME AtNode
      PROVE  /\ AtInv /\ node \in 1..Len(route) /\ node \in Nat
             /\ Between => /\ node \in 2..Len(route) - 1
                           /\ inRoundabout => RoundAt(route, node - 1)
                           /\ Roundabout(node) <=> RoundAt(route, node)
                           /\ Roundabout(lastNode) <=> RoundAt(route, node - 1)
                           /\ Link(node) <=> LinkAt(route, node)
                           /\ Link(lastNode) <=> LinkAt(route, node - 1)
             /\ FirstOrLast => ~MustTurn(route, node) /\ (node = 1 \/ node = Len(route))
             /\ inRoundabout /\ node = 1 /\ 1 < Len(route) => RoundAt(route, 1)
  <2>1. AtInv
    BY <1>2, <1>7 DEF AtNode
  <2>2. /\ Len(route) \in Nat \ {0} /\ node \in 1..Len(route) /\ lastNode = node - 1
        /\ FirstOrLast => node = 1 \/ node = Len(route)
        /\ Between => node \in 2..Len(route) - 1
        /\ \A j \in 1..Len(route) - 1 : /\ Link(j) <=> LinkAt(route, j)
                                        /\ Roundabout(j) <=> RoundAt(route, j)
    BY <1>7, <2>1, AtTheNode DEF AtInv
  <2>3. TellsTurns(description, route, node, inRoundabout)
    BY <2>1 DEF AtInv, TurnsInv
  <2>4. Between => node - 1 \in 1..Len(route) - 1 /\ node \in 1..Len(route) - 1
    BY <2>2
  <2>5. FirstOrLast => ~MustTurn(route, node)
    BY <2>2 DEF MustTurn
  <2>6. Between => (inRoundabout => RoundAt(route, node - 1))
    <3>1. AroundOnly(route, node, inRoundabout)
      BY <2>3 DEF TellsTurns
    <3>2. \A j \in 1..Len(route) - 1 : j = node - 1 => (inRoundabout => RoundAt(route, j))
      BY <3>1 DEF AroundOnly
    <3>3. QED
      BY <2>4, <3>2
  <2>7. inRoundabout /\ node = 1 /\ 1 < Len(route) => RoundAt(route, 1)
    <3>1. 1 < Len(route) => 1 \in 1..Len(route) - 1
      BY <2>2
    <3>2. QED
      BY <2>3, <3>1 DEF TellsTurns, AroundOnly
  <2>8. QED
    BY <2>1, <2>2, <2>4, <2>5, <2>6, <2>7
<1>8. CASE SkipNode
  <2>1. /\ AtNode /\ FirstOrLast /\ GoOnFrom(node) /\ UNCHANGED <<vars, phase, inRoundabout>>
        /\ description' = description
    BY <1>8 DEF SkipNode
  <2>2. inRoundabout /\ node < Len(route) => RoundAt(route, node)
    BY <1>7, <2>1 DEF AtInv, IsRoute
  <2>3. TellsTurns(description', route, node + 1, inRoundabout)
    BY <1>7, <2>1, <2>2, TellsNone
  <2>4. QED
    BY <1>7, <2>1, <2>3, GoesOn
<1>9. CASE EnterRoundabout \/ LeaveRoundabout
  <2>1. /\ Between /\ GoOnFrom(node) /\ UNCHANGED <<vars, phase>> /\ AtNode
        /\ inRoundabout' => Roundabout(node)
    BY <1>9 DEF EnterRoundabout, LeaveRoundabout, Between
  <2>2. PICK x : /\ description' = [description EXCEPT ![node].told = <<x>>]
                 /\ x.kind \in {"roundaboutEnter", "roundaboutLeave"}
    <3>1. CASE EnterRoundabout
      <4>1. [kind |-> "roundaboutEnter"].kind \in {"roundaboutEnter", "roundaboutLeave"}
        OBVIOUS
      <4>2. QED
        BY <3>1, <4>1 DEF EnterRoundabout, Tell
    <3>2. CASE LeaveRoundabout
      <4> DEFINE y == [kind |-> "roundaboutLeave", exits |-> roundaboutCrossingCounter']
      <4>1. description' = [description EXCEPT ![node].told = <<y>>]
        BY <3>2 DEF LeaveRoundabout, Tell
      <4>2. y.kind \in {"roundaboutEnter", "roundaboutLeave"}
        OBVIOUS
      <4> HIDE DEF y
      <4>3. QED
        BY <4>1, <4>2
    <3>3. QED
      BY <1>9, <3>1, <3>2
  <2>3. TellsTurns(description', route, node + 1, inRoundabout')
    BY <1>7, <2>1, <2>2, TellsOne
  <2>4. QED
    BY <1>7, <2>1, <2>3, GoesOn
<1>10. CASE EnterMotorway \/ LeaveMotorway
  <2>1. /\ OnTheRoad /\ Between /\ GoOnFrom(node) /\ UNCHANGED <<vars, phase, inRoundabout>> /\ AtNode
    BY <1>10 DEF EnterMotorway, LeaveMotorway, OnTheRoad, Between
  <2>2. PICK x : /\ description' = [description EXCEPT ![node].told = <<x>>]
                 /\ x.kind \in {"motorwayEnter", "motorwayLeave"}
    <3>1. /\ [kind |-> "motorwayEnter"].kind \in {"motorwayEnter", "motorwayLeave"}
          /\ [kind |-> "motorwayLeave"].kind \in {"motorwayEnter", "motorwayLeave"}
      OBVIOUS
    <3>2. QED
      BY <1>10, <3>1 DEF EnterMotorway, LeaveMotorway, Tell
  <2>3. inRoundabout => RoundAt(route, node)
    BY <1>7, <2>1 DEF OnTheRoad
  <2>4. TellsTurns(description', route, node + 1, inRoundabout)
    BY <1>7, <2>1, <2>2, <2>3, TellsOne
  <2>5. QED
    BY <1>7, <2>1, <2>4, GoesOn
<1>11. CASE ChangeMotorway \/ LeaveMotorwayByLink \/ EnterMotorwayByLink
  <2> DEFINE left(x) == [description EXCEPT ![node].told = <<x>>]
  <2>1. OnToLink /\ GoOnFrom(LinkEnd) /\ UNCHANGED <<vars, phase, inRoundabout>> /\ AtNode
    BY <1>11 DEF ChangeMotorway, LeaveMotorwayByLink, EnterMotorwayByLink, OnToLink, OnTheRoad, Between
  <2>2. \E x : /\ x.kind \in MotorwayKinds
               /\ \/ description' = left(x)
                  \/ Turns(LinkEnd) /\ description' = [left(x) EXCEPT ![LinkEnd].told = <<[kind |-> "turn"]>>]
    <3>1. CASE ChangeMotorway
      <4>1. [kind |-> "motorwayChange"].kind \in MotorwayKinds
        BY DEF MotorwayKinds
      <4>2. QED
        BY <3>1, <4>1 DEF ChangeMotorway, Tell
    <3>2. CASE EnterMotorwayByLink
      <4>1. [kind |-> "motorwayEnter"].kind \in MotorwayKinds
        BY DEF MotorwayKinds
      <4>2. QED
        BY <3>2, <4>1 DEF EnterMotorwayByLink, Tell
    <3>3. CASE LeaveMotorwayByLink
      <4>1. [kind |-> "motorwayLeave"].kind \in MotorwayKinds
        BY DEF MotorwayKinds
      <4>2. QED
        BY <3>3, <4>1 DEF LeaveMotorwayByLink
    <3>4. QED
      BY <1>11, <3>1, <3>2, <3>3
  <2>3. PICK x : /\ x.kind \in MotorwayKinds
                 /\ \/ description' = left(x)
                    \/ Turns(LinkEnd) /\ description' = [left(x) EXCEPT ![LinkEnd].told = <<[kind |-> "turn"]>>]
    BY <2>2
  <2>4. TellsTurns(description', route, LinkEnd + 1, inRoundabout) /\ LinkEnd \in Nat
    BY <1>7, <2>1, <2>3, TellsLinks
  <2>5. QED
    BY <1>7, <2>1, <2>4, GoesOn
<1>12. CASE TakeLink
  <2>1. /\ OnToLink /\ OnTheRoad /\ Between /\ GoOnFrom(node) /\ UNCHANGED <<vars, phase, inRoundabout>> /\ AtNode
        /\ description' = description
    BY <1>12 DEF TakeLink, OnToLink, OnTheRoad, Between
  <2>2. ~LinkAt(route, node - 1) /\ LinkAt(route, node)
    BY <1>7, <2>1 DEF OnToLink
  <2>3. inRoundabout => RoundAt(route, node)
    BY <1>7, <2>1 DEF OnTheRoad
  <2>4. TellsTurns(description', route, node + 1, inRoundabout)
    BY <1>7, <2>1, <2>2, <2>3, TellsNone DEF MustTurn
  <2>5. QED
    BY <1>7, <2>1, <2>4, GoesOn
<1>13. CASE GoOn
  <2>1. /\ OnTheRoad /\ Between /\ GoOnFrom(node) /\ UNCHANGED <<vars, phase, inRoundabout>> /\ AtNode
        /\ IF ~inRoundabout /\ Turns(node) THEN Tell(node, [kind |-> "turn"])
           ELSE IF NameChanges THEN Tell(node, [kind |-> "nameChanged"])
           ELSE UNCHANGED description
    BY <1>13 DEF GoOn, SameRoad, OnTheRoad, Between
  <2>2. inRoundabout => RoundAt(route, node - 1) /\ RoundAt(route, node)
    BY <1>7, <2>1 DEF OnTheRoad
  <2>3. /\ Turns(node) => MayTurn(route, node)
        /\ MustTurn(route, node) => Turns(node)
    BY <1>7, <2>1, TurnsWhereItMust DEF AtInv, TurnsInv, TellsTurns
  <2>4. CASE ~inRoundabout /\ Turns(node)
    <3> DEFINE x == [kind |-> "turn"]
    <3>1. description' = [description EXCEPT ![node].told = <<x>>] /\ x.kind = "turn"
      BY <2>1, <2>4 DEF Tell
    <3> HIDE DEF x
    <3>2. TellsTurns(description', route, node + 1, inRoundabout)
      BY <1>7, <2>1, <2>2, <2>3, <2>4, <3>1, TellsOne
    <3>3. QED
      BY <1>7, <2>1, <3>2, GoesOn
  <2>5. CASE ~(~inRoundabout /\ Turns(node)) /\ NameChanges
    <3> DEFINE x == [kind |-> "nameChanged"]
    <3>1. description' = [description EXCEPT ![node].told = <<x>>] /\ x.kind = "nameChanged"
      BY <2>1, <2>5 DEF Tell
    <3> HIDE DEF x
    <3>2. TellsTurns(description', route, node + 1, inRoundabout)
      BY <1>7, <2>1, <2>2, <3>1, TellsOne
    <3>3. QED
      BY <1>7, <2>1, <3>2, GoesOn
  <2>6. CASE ~(~inRoundabout /\ Turns(node)) /\ ~NameChanges
    <3>1. description' = description
      BY <2>1, <2>6
    <3>2. ~MustTurn(route, node)
      BY <2>2, <2>3, <2>6 DEF MustTurn
    <3>3. TellsTurns(description', route, node + 1, inRoundabout)
      BY <1>7, <2>1, <2>2, <3>1, <3>2, TellsNone
    <3>4. QED
      BY <1>7, <2>1, <3>3, GoesOn
  <2>7. QED
    BY <2>4, <2>5, <2>6
<1>14. QED
  BY <1>3, <1>4, <1>5, <1>6, <1>8, <1>9, <1>10, <1>11, <1>12, <1>13 DEF DescribeNext

\* What lies on links that were told as one is what the property leaves out.
LEMMA PassedOverIsLeftOut ==
  ASSUME MapInv, IsRoute(route), TurnsInv, description # <<>>, NEW j \in 1..Len(route) - 1,
         PassedOver(description, route, j)
  PROVE  LeftOut(j)
<1>1. PICK s \in 2..j - 1 : /\ ~LinkAt(route, s - 1) /\ \A k \in s..j - 1 : LinkAt(route, k)
                            /\ \E kind \in MotorwayKinds : ToldAs(description, s, kind)
  BY DEF PassedOver
<1>2. Len(route) \in Nat /\ \A k \in 1..Len(route) - 1 : Link(k) <=> LinkAt(route, k)
  BY AtTheNode
<1>3. s - 1 \in 1..Len(route) - 1 /\ \A k \in s..j - 1 : k \in 1..Len(route) - 1
  BY <1>1, <1>2
<1>4. ~Link(s - 1) /\ \A k \in s..j - 1 : Link(k)
  BY <1>1, <1>2, <1>3
<1>5. Told(s, "motorwayEnter") \/ Told(s, "motorwayLeave") \/ Told(s, "motorwayChange")
  BY <1>1 DEF ToldAs, Told, MotorwayKinds
<1>6. QED
  BY <1>4, <1>5 DEF LinksBefore, LeftOut

\* When the loop has come to the end, all turns are told.
LEMMA TurnsFit ==
  ASSUME SearchInv, MadeInv, DescribedInv, TurnsInv
  PROVE  TurnsAreTold
<1> SUFFICES ASSUME phase = "told", description # <<>>, NEW j \in 2..Len(description) - 2,
                    description[j - 1].location # description[j].location,
                    description[j].location # description[j + 1].location
             PROVE  /\ (/\ Cardinality(description[j].objects) > 1 /\ Abs(TurnAt(j)) > 45
                        /\ ~(Roundabout(j - 1) /\ Roundabout(j)) /\ ~LeftOut(j)
                        /\ Link(j) => Link(j - 1)) => description[j].told # <<>>
                    /\ Told(j, "turn") => description[j].objects # {} /\ Abs(TurnAt(j)) >= 5
  BY DEF TurnsAreTold
<1>1. MapInv /\ IsRoute(route) /\ Describes(description, route)
  BY RouteOfSearch DEF DescribedInv, SearchInv
<1>2. /\ Len(description) = Len(route) /\ Len(route) \in Nat
      /\ \A k \in 1..Len(route) - 1 : /\ Link(k) <=> LinkAt(route, k)
                                      /\ Roundabout(k) <=> RoundAt(route, k)
  BY <1>1, AtTheNode
<1>3. /\ j - 1 \in 1..Len(route) - 1 /\ j \in 1..Len(route) - 1 /\ j + 1 \in 1..Len(route) - 1
      /\ j \in 1..node - 1 /\ j \in 1..Len(route) /\ j \in 2..Len(route) - 2
  BY <1>2 DEF TurnsInv, TellsTurns
<1>4. TurnAt(j) = TurnOn(route, j)
  <2>1. \A k \in {j - 1, j, j + 1} : description[k].location = EntryPoint(route, k)
    BY <1>1, <1>3 DEF Describes
  <2> DEFINE p == EntryPoint(route, j - 1)
             q == EntryPoint(route, j)
             s == EntryPoint(route, j + 1)
  <2>2. description[j - 1].location = p /\ description[j].location = q /\ description[j + 1].location = s
    BY <2>1
  <2>3. p # q /\ q # s
    BY <2>2
  <2>4. TurnOn(route, j) = NormalizeRelativeAngle(BearingInitial(q, s) - BearingFinal(p, q))
    BY DEF TurnOn
  <2>5. TurnAt(j) = NormalizeRelativeAngle(Bearing[q][s] - Bearing[p][q])
    BY <2>2 DEF TurnAt
  <2> HIDE DEF p, q, s
  <2>6. BearingInitial(q, s) = Bearing[q][s] /\ BearingFinal(p, q) = Bearing[p][q]
    BY <2>3 DEF BearingInitial, BearingFinal
  <2>7. QED
    BY <2>4, <2>5, <2>6
<1>5. TellsTurns(description, route, node, inRoundabout) /\ description[j].objects = route[j].objects
  BY <1>3 DEF TurnsInv, TellsTurns, Follows
<1>6. PassedOver(description, route, j) => LeftOut(j)
  BY <1>1, <1>3, PassedOverIsLeftOut
<1>7. ASSUME Cardinality(description[j].objects) > 1, Abs(TurnAt(j)) > 45,
             ~(Roundabout(j - 1) /\ Roundabout(j)), ~LeftOut(j), Link(j) => Link(j - 1)
      PROVE  description[j].told # <<>>
  <2>1. MustTurn(route, j)
    BY <1>2, <1>3, <1>4, <1>5, <1>7 DEF MustTurn
  <2>2. QED
    BY <1>3, <1>5, <1>6, <1>7, <2>1 DEF TellsTurns
<1>8. ASSUME Told(j, "turn")
      PROVE  description[j].objects # {} /\ Abs(TurnAt(j)) >= 5
  <2>1. ToldAs(description, j, "turn")
    BY <1>8 DEF Told, ToldAs
  <2>2. Cardinality(description[j].objects) > 1 /\ Abs(TurnAt(j)) >= 5
    BY <1>3, <1>4, <1>5, <2>1 DEF TellsTurns, MayTurn
  <2>3. Cardinality({}) = 0
    BY FS_EmptySet
  <2>4. ~(0 > 1)
    OBVIOUS
  <2>5. description[j].objects # {}
    BY <2>2, <2>3, <2>4
  <2>6. QED
    BY <2>2, <2>5
<1>9. QED
  BY <1>7, <1>8

\* Whatever the ways, their names and their numbers of points: at every junction where the
\* route turns off something is told, and a turn is told only where there is one, if the
\* ways of a roundabout are all links or none is.
THEOREM TurnsAreAllTold ==
  ASSUME \A n \in Networks : TurnsCanBeExcluded(n) /\ RoundaboutsAreOfOneKind(n.ways)
  PROVE  DescribeSpec => []TurnsAreTold
<1> DEFINE Inv == SearchInv /\ RouteInv /\ MadeInv /\ DescribedInv /\ TurnsInv
<1>1. DescribeInit => Inv
  <2> SUFFICES ASSUME DescribeInit PROVE Inv
    OBVIOUS
  <2>1. Init /\ phase = "none" /\ description = <<>> /\ drawn = <<>>
    BY DEF DescribeInit
  <2>2. MadeInv
    BY <2>1 DEF Init, MadeInv, Found
  <2>3. QED
    BY <2>1, <2>2, SearchInit DEF DescribedInv, TurnsInv
<1>2. Inv /\ [DescribeNext]_allVars => Inv'
  <2>1. SearchInv => TurnsCanBeExcluded(network) /\ RoundaboutsAreOfOneKind(ways)
    BY DEF SearchInv, MapInv, ways
  <2>2. QED
    BY <2>1, SearchIsLeftAlone, SearchStep, MadeStep, DescribedStep, TurnsStep
<1>3. Inv => TurnsAreTold
  BY TurnsFit
<1>4. QED
  BY <1>1, <1>2, <1>3, PTL DEF DescribeSpec

------------------------------------------------------------------------------
(* The manoeuvres that are told                                            *)

\* f adds up the ways that lead out at the entries of r.
AddsUp(f, r) ==
  /\ \A j \in 0..Len(r) - 1 : f[j] \in Int
  /\ \A j \in 1..Len(r) - 1 : f[j] = f[j - 1] + WaysOutAt(r, j)

EntersAt(r, j) == ~RoundAt(r, j - 1) /\ RoundAt(r, j)
LeavesAt(r, j) == RoundAt(r, j - 1) /\ ~RoundAt(r, j)

\* The roundabout in which entry j is begins at entry m.
BeginsAt(r, m, j) == (\A k \in m..j : RoundAt(r, k)) /\ (m > 1 => ~RoundAt(r, m - 1))

\* Entry b is the next behind a that is on no link, and no roundabout lies between them.
Stretch(r, a, b) ==
  /\ ~LinkAt(r, a) /\ (\A k \in a + 1..b - 1 : LinkAt(r, k)) /\ (b < Len(r) => ~LinkAt(r, b))
  /\ b > a + 1 \/ b < Len(r)
  /\ \A k \in a..b - 1 : ~RoundAt(r, k)
  /\ b = a + 1 => ~RoundAt(r, b)

\* What has to be told about motorways between them.
ToMotorway(r, b) == b < Len(r) /\ MotorwayAt(r, b)
Due(r, a, b) ==
  IF MotorwayAt(r, a) /\ ~ToMotorway(r, b) THEN {"motorwayLeave"}
  ELSE IF ~MotorwayAt(r, a) /\ ToMotorway(r, b) THEN {"motorwayEnter"}
  ELSE IF MotorwayAt(r, a) /\ b > a + 1 THEN {"motorwayChange"}
  ELSE {}

KindsTold(d, j) == {kind \in MotorwayKinds : ToldAs(d, j, kind)}

\* What is told at node j is what has to be told there, of roundabouts
RoundaboutTold(f, d, r, j) ==
  /\ ToldAs(d, j, "roundaboutEnter") => EntersAt(r, j)
  /\ ToldAs(d, j, "roundaboutLeave") => LeavesAt(r, j)
  /\ EntersAt(r, j) /\ ~PassedOver(d, r, j) => ToldAs(d, j, "roundaboutEnter")
  /\ LeavesAt(r, j) /\ ~PassedOver(d, r, j) =>
       /\ ToldAs(d, j, "roundaboutLeave")
       /\ \A m \in 1..j - 1 :
            BeginsAt(r, m, j - 1) /\ ~PassedOver(d, r, m) => d[j].told[1].exits = f[j] - f[m]

\* and of motorways.
MotorwayTold(d, r, j) ==
  /\ KindsTold(d, j) # {} => ~LinkAt(r, j - 1)
  /\ \A b \in j..Len(r) : Stretch(r, j - 1, b) => KindsTold(d, j) = Due(r, j - 1, b)

\* In a roundabout the loop has counted the exits from where it was entered.
Counted(f, d, r, n, around, count) ==
  /\ n = 1 => count = 0 /\ (1 < Len(r) /\ RoundAt(r, 1) => around)
  /\ \A m \in 1..n - 1 :
       n - 1 < Len(r) /\ BeginsAt(r, m, n - 1) /\ ~PassedOver(d, r, m) => around /\ count = f[n - 1] - f[m]

\* What the loop has achieved before node n.
TellsManoeuvres(f, d, r, n, around, count) ==
  /\ \A j \in 2..Len(r) - 1 : j < n => RoundaboutTold(f, d, r, j) /\ MotorwayTold(d, r, j)
  /\ \A j \in 1..Len(r) : j >= n => d[j].told = <<>>
  /\ Counted(f, d, r, n, around, count)

ManoeuvresInv ==
  description # <<>> =>
    \A f : AddsUp(f, route) =>
      TellsManoeuvres(f, description, route, node, inRoundabout, roundaboutCrossingCounter)

\* The ways of a roundabout are of one type.
LEMMA SameTypeAround ==
  ASSUME MapInv, NEW r, IsRoute(r), RoundaboutsGoAround(ways), NEW j \in 2..Len(r) - 1,
         RoundAt(r, j - 1), RoundAt(r, j)
  PROVE  (LinkAt(r, j - 1) <=> LinkAt(r, j)) /\ (MotorwayAt(r, j - 1) <=> MotorwayAt(r, j))
  BY EntriesMeet DEF RoundaboutsGoAround, RoundAt, LinkAt, MotorwayAt

LEMMA GoAroundIsOfOneKind ==
  ASSUME NEW roads, RoundaboutsGoAround(roads)
  PROVE  RoundaboutsAreOfOneKind(roads)
  BY DEF RoundaboutsGoAround, RoundaboutsAreOfOneKind

\* What is passed over depends on what is told before.
LEMMA PassedOverStill ==
  ASSUME NEW d, NEW e, NEW r, NEW j, \A s \in 2..j - 1 : e[s].told = d[s].told
  PROVE  PassedOver(e, r, j) <=> PassedOver(d, r, j)
  BY DEF PassedOver, ToldAs

\* What is told at a node stays right, whatever is told behind it.
LEMMA ManoeuvreStill ==
  ASSUME NEW f, NEW d, NEW e, NEW r, NEW j \in 2..Len(r) - 1, Len(r) \in Nat,
         \A s \in 1..j : e[s].told = d[s].told,
         RoundaboutTold(f, d, r, j), MotorwayTold(d, r, j)
  PROVE  RoundaboutTold(f, e, r, j) /\ MotorwayTold(e, r, j)
<1>1. e[j].told = d[j].told
  OBVIOUS
<1>2. \A m \in 1..j : PassedOver(e, r, m) <=> PassedOver(d, r, m)
  <2> SUFFICES ASSUME NEW m \in 1..j PROVE PassedOver(e, r, m) <=> PassedOver(d, r, m)
    OBVIOUS
  <2>1. \A s \in 2..m - 1 : e[s].told = d[s].told
    OBVIOUS
  <2>2. QED
    BY <2>1, PassedOverStill
<1>3. \A m \in 1..j - 1 : m \in 1..j
  OBVIOUS
<1>4. j \in 1..j
  OBVIOUS
<1>5. \A kind : ToldAs(e, j, kind) <=> ToldAs(d, j, kind)
  BY <1>1 DEF ToldAs
<1>6. RoundaboutTold(f, e, r, j)
  BY <1>1, <1>2, <1>3, <1>4, <1>5 DEF RoundaboutTold
<1>7. MotorwayTold(e, r, j)
  BY <1>5 DEF MotorwayTold, KindsTold
<1>8. QED
  BY <1>6, <1>7

\* The loop goes on behind node k, when the nodes from n to k have been told.
LEMMA ManoeuvresUpTo ==
  ASSUME NEW f, NEW r, IsRoute(r), NEW d, NEW e, NEW n \in 1..Len(r), NEW k \in n..Len(r),
         NEW around, NEW around2, NEW count, NEW count2,
         TellsManoeuvres(f, d, r, n, around, count),
         \A j \in 1..Len(r) : j < n \/ j > k => e[j].told = d[j].told,
         \A j \in 2..Len(r) - 1 : j \in n..k => RoundaboutTold(f, e, r, j) /\ MotorwayTold(e, r, j),
         Counted(f, e, r, k + 1, around2, count2)
  PROVE  TellsManoeuvres(f, e, r, k + 1, around2, count2)
<1>1. Len(r) \in Nat
  BY DEF IsRoute
<1>2. ASSUME NEW j \in 2..Len(r) - 1, j < k + 1
      PROVE  RoundaboutTold(f, e, r, j) /\ MotorwayTold(e, r, j)
  <2>1. CASE j >= n
    BY <1>1, <1>2, <2>1
  <2>2. CASE j < n
    <3>1. \A s \in 1..j : e[s].told = d[s].told
      BY <1>1, <2>2
    <3>2. RoundaboutTold(f, d, r, j) /\ MotorwayTold(d, r, j)
      BY <2>2 DEF TellsManoeuvres
    <3>3. QED
      BY <1>1, <3>1, <3>2, ManoeuvreStill
  <2>3. QED
    BY <1>1, <2>1, <2>2
<1>3. ASSUME NEW j \in 1..Len(r), j >= k + 1 PROVE e[j].told = <<>>
  <2>1. e[j].told = d[j].told /\ j >= n
    BY <1>1, <1>3
  <2>2. QED
    BY <2>1 DEF TellsManoeuvres
<1>4. QED
  BY <1>2, <1>3 DEF TellsManoeuvres

\* What the loop has at a node, if roundabouts lead around.
CountInv(f) ==
  /\ AtInv /\ RoundaboutsGoAround(ways) /\ AddsUp(f, route) /\ node \in 1..Len(route)
  /\ TellsManoeuvres(f, description, route, node, inRoundabout, roundaboutCrossingCounter)

\* What a step has then achieved that goes on behind node k.
ToldBehind(f, k) ==
  TellsManoeuvres(f, description', route, k + 1, inRoundabout', roundaboutCrossingCounter')

\* What a step does that tells nothing or one thing at the current node.
TellsHere(x) ==
  /\ \A j \in 1..Len(route) : j # node => description'[j].told = description[j].told
  /\ description'[node].told = x

\* How many ways lead out is a number.
LEMMA WaysOutAreNumbers ==
  ASSUME MapInv, NEW r, IsRoute(r), NEW j \in 1..Len(r) - 1
  PROVE  WaysOutAt(r, j) \in Nat
<1>1. IsStep(ways, r[j])
  BY EntriesOfRoute
<1>2. IsFiniteSet(DOMAIN ways)
  <2>1. DOMAIN ways = 1..Len(ways) /\ Len(ways) \in Nat
    BY GraphOfMap DEF WaysOK
  <2>2. QED
    BY <2>1, FS_Interval
<1>3. r[j].objects \subseteq DOMAIN ways
  BY <1>1 DEF IsStep, MeetingAt, WaysAt
<1>4. IsFiniteSet(r[j].objects)
  BY <1>2, <1>3, FS_Subset
<1>5. \A S \in SUBSET r[j].objects : Cardinality(S) \in Nat
  BY <1>4, FS_Subset, FS_CardinalityType
<1> DEFINE p == EntryPoint(r, j)
           J == r[j].objects
           Out1 == {k \in J : ~ways[k].roundabout /\ CanUseForward(k, p)}
           Out2 == {k \in J : ~ways[k].roundabout /\ CanUseBackward(k, p)}
<1>6. Cardinality(Out1) \in Nat /\ Cardinality(Out2) \in Nat
  BY <1>5
<1>7. WaysOutAt(r, j) = IF J = {} THEN 0 ELSE Cardinality(Out1) + Cardinality(Out2)
  BY DEF WaysOutAt
<1> HIDE DEF Out1, Out2, J
<1>8. QED
  BY <1>6, <1>7

\* The exits counted at a node of a roundabout are the ways that lead out there.
LEMMA ExitsCount ==
  ASSUME NEW f, CountInv(f), node \in 2..Len(route) - 1, RoundAt(route, node - 1)
  PROVE  /\ f[node] = f[node - 1] + Exits(node) /\ Exits(node) \in Int
         /\ f[node] \in Int /\ f[node - 1] \in Int
<1>1. Len(route) \in Nat /\ node \in 1..Len(route) /\ node \in 1..Len(route) - 1
      /\ node - 1 \in 0..Len(route) - 1 /\ node \in 0..Len(route) - 1
  BY DEF CountInv, AtInv, IsRoute
<1>2. CrossingFits(route, node, description[node].crossing)
  BY <1>1 DEF CountInv, AtInv, TurnsInv, TellsTurns, Follows
<1>3. Exits(node) = WaysOutAt(route, node)
  BY <1>2 DEF CountInv, CrossingFits, ExitsOf, Exits
<1>4. MapInv /\ IsRoute(route)
  BY DEF CountInv, AtInv
<1>5. WaysOutAt(route, node) \in Int
  BY <1>4, WaysOutAreNumbers
<1>6. QED
  BY <1>1, <1>3, <1>5 DEF CountInv, AddsUp

\* At the first and the last node nothing is told.
LEMMA SkipCounts ==
  ASSUME NEW f, CountInv(f), AtNode, FirstOrLast, TellsHere(<<>>),
         UNCHANGED <<inRoundabout, roundaboutCrossingCounter>>
  PROVE  ToldBehind(f, node)
<1>1. /\ Len(route) \in Nat \ {0} /\ node \in 1..Len(route)
      /\ node = 1 \/ node = Len(route)
  BY AtTheNode DEF CountInv, AtInv
<1>2. Counted(f, description', route, node + 1, inRoundabout, roundaboutCrossingCounter)
  <2> SUFFICES ASSUME NEW m \in 1..node, node < Len(route), BeginsAt(route, m, node)
               PROVE  inRoundabout /\ roundaboutCrossingCounter = f[node] - f[m]
    BY <1>1 DEF Counted
  <2>1. node = 1 /\ m = 1
    BY <1>1
  <2>2. RoundAt(route, 1)
    BY <2>1 DEF BeginsAt
  <2>3. roundaboutCrossingCounter = 0 /\ inRoundabout
    BY <2>1, <2>2 DEF CountInv, TellsManoeuvres, Counted
  <2>4. 1 \in 0..Len(route) - 1
    BY <1>1, <2>1
  <2>5. f[1] \in Int
    BY <2>4 DEF CountInv, AddsUp
  <2>6. QED
    BY <2>1, <2>3, <2>5
<1>3. \A j \in 2..Len(route) - 1 : j \notin node..node
  BY <1>1
<1>4. /\ node \in node..Len(route) /\ IsRoute(route)
      /\ \A j \in 1..Len(route) : j < node \/ j > node => description'[j].told = description[j].told
  BY <1>1 DEF TellsHere, CountInv, AtInv
<1>5. TellsManoeuvres(f, description', route, node + 1, inRoundabout, roundaboutCrossingCounter)
  BY <1>1, <1>2, <1>3, <1>4, ManoeuvresUpTo DEF CountInv
<1>6. QED
  BY <1>5 DEF ToldBehind

\* To tell something at the current node tells it there only.
LEMMA TellIsHere ==
  ASSUME NEW x, description' = [description EXCEPT ![node].told = <<x>>], AtInv, node \in 1..Len(route)
  PROVE  TellsHere(<<x>>)
<1> DEFINE y == <<x>>
<1>1. description' = TellAt(description, node, y)
  BY DEF TellAt
<1>2. Follows(description, route)
  BY DEF AtInv, TurnsInv, TellsTurns
<1> HIDE DEF y
<1>3. \A j \in 1..Len(route) : TellAt(description, node, y)[j].told = IF j = node THEN y ELSE description[j].told
  BY <1>2, FollowsStill
<1>4. TellsHere(y)
  BY <1>1, <1>3 DEF TellsHere
<1>5. QED
  BY <1>4 DEF y

\* What the loop sees of the route between its ends.
LEMMA SeesRoute ==
  ASSUME NEW f, CountInv(f), Between
  PROVE  /\ Len(route) \in Nat /\ node \in 2..Len(route) - 1 /\ lastNode = node - 1 /\ IsRoute(route) /\ MapInv
         /\ \A j \in {lastNode, node} : /\ Link(j) <=> LinkAt(route, j)
                                        /\ Roundabout(j) <=> RoundAt(route, j)
                                        /\ Motorway(j) <=> MotorwayAt(route, j)
         /\ inRoundabout => RoundAt(route, node - 1)
<1>1. MapInv /\ IsRoute(route) /\ TurnsInv /\ description # <<>>
  BY DEF CountInv, AtInv
<1>2. /\ Len(route) \in Nat /\ node \in 2..Len(route) - 1 /\ lastNode = node - 1
      /\ \A j \in 1..Len(route) - 1 : /\ Link(j) <=> LinkAt(route, j)
                                      /\ Roundabout(j) <=> RoundAt(route, j)
                                      /\ Motorway(j) <=> MotorwayAt(route, j)
  BY <1>1, AtTheNode
<1>3. lastNode \in 1..Len(route) - 1 /\ node \in 1..Len(route) - 1
  BY <1>2
<1>4. AroundOnly(route, node, inRoundabout)
  BY <1>1 DEF TurnsInv, TellsTurns
<1>5. inRoundabout => RoundAt(route, node - 1)
  BY <1>2, <1>3, <1>4 DEF AroundOnly
<1>6. QED
  BY <1>1, <1>2, <1>3, <1>5

\* One step over the current node.
LEMMA OneNode ==
  ASSUME NEW f, CountInv(f), Between, NEW x, TellsHere(x),
         RoundaboutTold(f, description', route, node), MotorwayTold(description', route, node),
         Counted(f, description', route, node + 1, inRoundabout', roundaboutCrossingCounter')
  PROVE  ToldBehind(f, node)
<1>1. Len(route) \in Nat /\ node \in 1..Len(route) /\ node \in node..Len(route) /\ IsRoute(route)
  BY SeesRoute
<1>2. /\ \A j \in 1..Len(route) : j < node \/ j > node => description'[j].told = description[j].told
      /\ \A j \in node..node : j = node
  BY <1>1 DEF TellsHere
<1> DEFINE e == description'
           around == inRoundabout'
           count == roundaboutCrossingCounter'
<1>3. TellsManoeuvres(f, description, route, node, inRoundabout, roundaboutCrossingCounter)
  BY DEF CountInv
<1>4. /\ RoundaboutTold(f, e, route, node) /\ MotorwayTold(e, route, node)
      /\ Counted(f, e, route, node + 1, around, count)
  OBVIOUS
<1>5. ToldBehind(f, node) <=> TellsManoeuvres(f, e, route, node + 1, around, count)
  BY DEF ToldBehind
<1> HIDE DEF e, around, count
<1>6. \A j \in 1..Len(route) : j < node \/ j > node => e[j].told = description[j].told
  BY <1>2 DEF e
<1>7. TellsManoeuvres(f, e, route, node + 1, around, count)
  BY <1>1, <1>2, <1>3, <1>4, <1>6, ManoeuvresUpTo
<1>8. QED
  BY <1>5, <1>7

\* Nothing is due on motorways where the route is in a roundabout.
LEMMA NoStretchAround ==
  ASSUME NEW r, Len(r) \in Nat, NEW j \in 2..Len(r) - 1, RoundAt(r, j - 1) \/ RoundAt(r, j), NEW b \in j..Len(r)
  PROVE  ~Stretch(r, j - 1, b)
<1>1. CASE RoundAt(r, j - 1)
  BY <1>1 DEF Stretch
<1>2. CASE RoundAt(r, j) /\ b = j
  BY <1>2 DEF Stretch
<1>3. CASE RoundAt(r, j) /\ b # j
  <2>1. j \in j - 1..b - 1
    BY <1>3
  <2>2. QED
    BY <1>3, <2>1 DEF Stretch
<1>4. QED
  BY <1>1, <1>2, <1>3

\* A roundabout is entered.
LEMMA EnterCounts ==
  ASSUME NEW f, CountInv(f), Between, ~Roundabout(lastNode), Roundabout(node),
         NEW x, TellsHere(<<x>>), x.kind = "roundaboutEnter",
         inRoundabout' = TRUE, roundaboutCrossingCounter' = 0
  PROVE  ToldBehind(f, node)
<1>1. /\ Len(route) \in Nat /\ node \in 2..Len(route) - 1 /\ lastNode = node - 1
      /\ ~RoundAt(route, node - 1) /\ RoundAt(route, node)
  BY SeesRoute
<1>2. \A kind : ToldAs(description', node, kind) <=> kind = "roundaboutEnter"
  BY DEF ToldAs, TellsHere
<1>3. RoundaboutTold(f, description', route, node)
  BY <1>1, <1>2 DEF RoundaboutTold, EntersAt, LeavesAt
<1>4. MotorwayTold(description', route, node)
  <2>1. KindsTold(description', node) = {}
    BY <1>2 DEF KindsTold, MotorwayKinds
  <2>2. QED
    BY <1>1, <2>1, NoStretchAround DEF MotorwayTold
<1>5. Counted(f, description', route, node + 1, inRoundabout', roundaboutCrossingCounter')
  <2>1. ASSUME NEW m \in 1..node, BeginsAt(route, m, node) PROVE f[node] - f[m] = 0
    <3>1. m = node
      <4>1. node - 1 \in m..node => RoundAt(route, node - 1)
        BY <2>1 DEF BeginsAt
      <4>2. QED
        BY <1>1, <4>1
    <3>2. f[node] \in Int
      BY <1>1 DEF CountInv, AddsUp
    <3>3. QED
      BY <3>1, <3>2
  <2>2. QED
    BY <1>1, <2>1 DEF Counted
<1>6. QED
  BY <1>3, <1>4, <1>5, OneNode

\* A roundabout is left.
LEMMA LeaveCounts ==
  ASSUME NEW f, CountInv(f), Between, Roundabout(lastNode), ~Roundabout(node),
         NEW x, TellsHere(<<x>>), x.kind = "roundaboutLeave", x.exits = roundaboutCrossingCounter + Exits(node)
  PROVE  ToldBehind(f, node)
<1>1. /\ Len(route) \in Nat /\ node \in 2..Len(route) - 1 /\ lastNode = node - 1
      /\ RoundAt(route, node - 1) /\ ~RoundAt(route, node)
  BY SeesRoute
<1>2. /\ \A kind : ToldAs(description', node, kind) <=> kind = "roundaboutLeave"
      /\ description'[node].told[1].exits = roundaboutCrossingCounter + Exits(node)
  BY DEF ToldAs, TellsHere
<1>3. ASSUME NEW m \in 1..node - 1, BeginsAt(route, m, node - 1), ~PassedOver(description', route, m)
      PROVE  description'[node].told[1].exits = f[node] - f[m]
  <2>1. \A s \in 2..m - 1 : description'[s].told = description[s].told
    BY <1>1 DEF TellsHere
  <2>2. ~PassedOver(description, route, m)
    BY <1>3, <2>1, PassedOverStill
  <2>3. roundaboutCrossingCounter = f[node - 1] - f[m]
    BY <1>1, <1>3, <2>2 DEF CountInv, TellsManoeuvres, Counted
  <2>4. f[m] \in Int
    BY <1>1 DEF CountInv, AddsUp
  <2>5. /\ f[node] = f[node - 1] + Exits(node) /\ Exits(node) \in Int
        /\ f[node - 1] \in Int /\ f[node] \in Int
    BY <1>1, ExitsCount
  <2>6. QED
    BY <1>2, <2>3, <2>4, <2>5
<1>4. RoundaboutTold(f, description', route, node)
  BY <1>1, <1>2, <1>3 DEF RoundaboutTold, EntersAt, LeavesAt
<1>5. MotorwayTold(description', route, node)
  <2>1. KindsTold(description', node) = {}
    BY <1>2 DEF KindsTold, MotorwayKinds
  <2>2. QED
    BY <1>1, <2>1, NoStretchAround DEF MotorwayTold
<1>6. Counted(f, description', route, node + 1, inRoundabout', roundaboutCrossingCounter')
  <2>1. ASSUME NEW m \in 1..node, BeginsAt(route, m, node) PROVE FALSE
    BY <1>1, <2>1 DEF BeginsAt
  <2>2. QED
    BY <1>1, <2>1 DEF Counted
<1>7. QED
  BY <1>4, <1>5, <1>6, OneNode

\* The links that begin at the current node are those of the stretch of road there.
LEMMA StretchOverLinks ==
  ASSUME NEW f, CountInv(f), Between, Link(node)
  PROVE  /\ LinkEnd \in node + 1..Len(route)
         /\ \A k \in node..LinkEnd - 1 : LinkAt(route, k)
         /\ LinkEnd < Len(route) => ~LinkAt(route, LinkEnd)
         /\ LeadsToMotorway <=> ToMotorway(route, LinkEnd)
         /\ \A b \in node..Len(route) : Stretch(route, node - 1, b) => b = LinkEnd
<1>1. MapInv /\ IsRoute(route) /\ TurnsInv /\ description # <<>>
  BY DEF CountInv, AtInv
<1>2. Len(route) \in Nat /\ node \in 2..Len(route) - 1 /\ LinkAt(route, node)
  BY SeesRoute
<1> DEFINE last == LinkEnd
<1>3. /\ last \in node + 1..Len(route)
      /\ \A k \in node + 1..last - 1 : LinkAt(route, k)
      /\ last < Len(route) => ~LinkAt(route, last)
  BY <1>1, <1>2, LinksEnd
<1>4. /\ \A k \in 1..Len(route) : HasPath(k) <=> k < Len(route)
      /\ \A k \in 1..Len(route) - 1 : Motorway(k) <=> MotorwayAt(route, k)
  BY <1>1, AtTheNode
<1>5. LeadsToMotorway <=> ToMotorway(route, last)
  <2>1. LeadsToMotorway <=> HasPath(last) /\ Motorway(last)
    BY DEF LeadsToMotorway
  <2> HIDE DEF last
  <2>2. last \in 1..Len(route) /\ (last < Len(route) => last \in 1..Len(route) - 1)
    BY <1>2, <1>3
  <2>3. QED
    BY <1>4, <2>1, <2>2 DEF ToMotorway
<1> HIDE DEF last
<1>6. \A k \in node..last - 1 : LinkAt(route, k)
  <2>1. \A k \in node..last - 1 : k = node \/ k \in node + 1..last - 1
    BY <1>2, <1>3
  <2>2. QED
    BY <1>2, <1>3, <2>1
<1>7. ASSUME NEW b \in node..Len(route), Stretch(route, node - 1, b) PROVE b = last
  <2>1. /\ \A k \in (node - 1) + 1..b - 1 : LinkAt(route, k)
        /\ b < Len(route) => ~LinkAt(route, b)
    BY <1>7 DEF Stretch
  <2>2. ~(b < last)
    <3>1. b < last => b \in node..last - 1 /\ b < Len(route)
      BY <1>2, <1>3
    <3>2. QED
      BY <1>6, <2>1, <3>1
  <2>3. ~(last < b)
    <3>1. last < b => last \in (node - 1) + 1..b - 1 /\ last < Len(route)
      BY <1>2, <1>3
    <3>2. QED
      BY <1>3, <2>1, <3>1
  <2>4. QED
    BY <1>2, <1>3, <2>2, <2>3
<1>8. QED
  BY <1>3, <1>5, <1>6, <1>7 DEF last

\* The kind of road goes on, or it changes outside of roundabouts.
LEMMA RoadCounts ==
  ASSUME NEW f, CountInv(f), OnTheRoad, NEW x, TellsHere(x),
         ~ToldAs(description', node, "roundaboutEnter"), ~ToldAs(description', node, "roundaboutLeave"),
         MotorwayTold(description', route, node), inRoundabout' = inRoundabout,
         RoundAt(route, node - 1) /\ RoundAt(route, node) /\ inRoundabout =>
           roundaboutCrossingCounter' = roundaboutCrossingCounter + Exits(node)
  PROVE  ToldBehind(f, node)
<1>1. /\ Between /\ Len(route) \in Nat /\ node \in 2..Len(route) - 1
      /\ RoundAt(route, node - 1) <=> RoundAt(route, node)
  BY SeesRoute DEF OnTheRoad
<1>2. RoundaboutTold(f, description', route, node)
  BY <1>1 DEF RoundaboutTold, EntersAt, LeavesAt
<1>3. ASSUME NEW m \in 1..node, BeginsAt(route, m, node), ~PassedOver(description', route, m)
      PROVE  inRoundabout /\ roundaboutCrossingCounter' = f[node] - f[m]
  <2>1. RoundAt(route, node) /\ RoundAt(route, node - 1)
    BY <1>1, <1>3 DEF BeginsAt
  <2>2. m \in 1..node - 1 /\ BeginsAt(route, m, node - 1)
    <3>1. m # node
      BY <1>1, <1>3, <2>1 DEF BeginsAt
    <3>2. QED
      BY <1>1, <1>3, <3>1 DEF BeginsAt
  <2>3. \A s \in 2..m - 1 : description'[s].told = description[s].told
    BY <1>1, <2>2 DEF TellsHere
  <2>4. ~PassedOver(description, route, m)
    BY <1>3, <2>3, PassedOverStill
  <2>5. inRoundabout /\ roundaboutCrossingCounter = f[node - 1] - f[m]
    BY <1>1, <2>2, <2>4 DEF CountInv, TellsManoeuvres, Counted
  <2>6. f[m] \in Int
    BY <1>1, <2>2 DEF CountInv, AddsUp
  <2>7. /\ f[node] = f[node - 1] + Exits(node) /\ Exits(node) \in Int
        /\ f[node - 1] \in Int /\ f[node] \in Int
    BY <1>1, <2>1, ExitsCount
  <2>8. QED
    BY <2>1, <2>5, <2>6, <2>7
<1>4. Counted(f, description', route, node + 1, inRoundabout', roundaboutCrossingCounter')
  BY <1>1, <1>3 DEF Counted
<1>5. QED
  BY <1>1, <1>2, <1>4, OneNode

\* A motorway is entered or left, without a link.
LEMMA MotorwayCounts ==
  ASSUME NEW f, CountInv(f), OnTheRoad, NEW x, TellsHere(<<x>>), UNCHANGED <<inRoundabout, roundaboutCrossingCounter>>,
         \/ OtherRoad(lastNode) /\ Motorway(node) /\ x.kind = "motorwayEnter"
         \/ Motorway(lastNode) /\ OtherRoad(node) /\ x.kind = "motorwayLeave"
  PROVE  ToldBehind(f, node)
<1>1. /\ Between /\ Len(route) \in Nat /\ node \in 2..Len(route) - 1 /\ lastNode = node - 1
      /\ MapInv /\ IsRoute(route) /\ RoundaboutsGoAround(ways)
      /\ ~LinkAt(route, node - 1) /\ ~LinkAt(route, node)
      /\ \/ ~MotorwayAt(route, node - 1) /\ MotorwayAt(route, node) /\ x.kind = "motorwayEnter"
         \/ MotorwayAt(route, node - 1) /\ ~MotorwayAt(route, node) /\ x.kind = "motorwayLeave"
  <2>1. Between /\ RoundaboutsGoAround(ways)
    BY DEF OnTheRoad, CountInv
  <2>2. \A j \in {node - 1, node} : ~(LinkAt(route, j) /\ MotorwayAt(route, j))
    BY DEF LinkAt, MotorwayAt
  <2>3. QED
    BY <2>1, <2>2, SeesRoute DEF OtherRoad
<1>2. ~(RoundAt(route, node - 1) /\ RoundAt(route, node))
  BY <1>1, SameTypeAround
<1>3. \A kind : ToldAs(description', node, kind) <=> kind = x.kind
  BY DEF ToldAs, TellsHere
<1>4. KindsTold(description', node) = {x.kind}
  BY <1>1, <1>3 DEF KindsTold, MotorwayKinds
<1>5. ASSUME NEW b \in node..Len(route), Stretch(route, node - 1, b) PROVE {x.kind} = Due(route, node - 1, b)
  <2>1. b = node
    <3>1. b # node => node \in (node - 1) + 1..b - 1
      BY <1>1
    <3>2. QED
      BY <1>1, <1>5, <3>1 DEF Stretch
  <2>2. node < Len(route)
    BY <1>1
  <2>3. QED
    BY <1>1, <2>1, <2>2 DEF Due, ToMotorway
<1>6. MotorwayTold(description', route, node)
  BY <1>1, <1>4, <1>5 DEF MotorwayTold
<1>7. ~ToldAs(description', node, "roundaboutEnter") /\ ~ToldAs(description', node, "roundaboutLeave")
  BY <1>1, <1>3
<1>8. QED
  BY <1>2, <1>6, <1>7, RoadCounts

\* A link that leads from street to street is taken.
LEMMA TakeLinkCounts ==
  ASSUME NEW f, CountInv(f), OnToLink, ~Motorway(lastNode), ~LeadsToMotorway, TellsHere(<<>>),
         UNCHANGED <<inRoundabout, roundaboutCrossingCounter>>
  PROVE  ToldBehind(f, node)
<1>1. /\ Between /\ Len(route) \in Nat /\ node \in 2..Len(route) - 1 /\ lastNode = node - 1
      /\ MapInv /\ IsRoute(route) /\ RoundaboutsGoAround(ways) /\ OnTheRoad /\ Link(node)
      /\ ~LinkAt(route, node - 1) /\ LinkAt(route, node) /\ ~MotorwayAt(route, node - 1)
  BY SeesRoute DEF OnToLink, OnTheRoad, CountInv
<1>2. ~(RoundAt(route, node - 1) /\ RoundAt(route, node))
  BY <1>1, SameTypeAround
<1>3. \A kind : ~ToldAs(description', node, kind)
  BY DEF ToldAs, TellsHere
<1>4. KindsTold(description', node) = {}
  BY <1>3 DEF KindsTold
<1>5. ASSUME NEW b \in node..Len(route), Stretch(route, node - 1, b) PROVE {} = Due(route, node - 1, b)
  <2>1. ~ToMotorway(route, b)
    BY <1>1, <1>5, StretchOverLinks
  <2>2. QED
    BY <1>1, <2>1 DEF Due
<1>6. MotorwayTold(description', route, node)
  BY <1>1, <1>4, <1>5 DEF MotorwayTold
<1>7. QED
  BY <1>1, <1>2, <1>3, <1>6, RoadCounts

\* The road goes on.
LEMMA SameRoadCounts ==
  ASSUME NEW f, CountInv(f), SameRoad, NEW x, TellsHere(x), x = <<>> \/ x[1].kind \in {"turn", "nameChanged"},
         inRoundabout' = inRoundabout,
         roundaboutCrossingCounter' = roundaboutCrossingCounter + (IF inRoundabout THEN Exits(node) ELSE 0)
  PROVE  ToldBehind(f, node)
<1>1. /\ Between /\ Len(route) \in Nat /\ node \in 2..Len(route) - 1 /\ lastNode = node - 1 /\ OnTheRoad
      /\ ~LinkAt(route, node - 1) => ~LinkAt(route, node)
      /\ ~LinkAt(route, node - 1) => (MotorwayAt(route, node - 1) <=> MotorwayAt(route, node))
  <2>1. Between
    BY DEF SameRoad, OnTheRoad
  <2>2. \A j \in {node - 1, node} : ~(LinkAt(route, j) /\ MotorwayAt(route, j))
    BY DEF LinkAt, MotorwayAt
  <2>3. QED
    BY <2>1, <2>2, SeesRoute DEF SameRoad, OtherRoad
<1>2. \A kind : ToldAs(description', node, kind) => kind \in {"turn", "nameChanged"}
  BY DEF ToldAs, TellsHere
<1>3. KindsTold(description', node) = {}
  BY <1>2 DEF KindsTold, MotorwayKinds
<1>4. ASSUME NEW b \in node..Len(route), Stretch(route, node - 1, b) PROVE {} = Due(route, node - 1, b)
  <2>1. ~LinkAt(route, node - 1) /\ ~LinkAt(route, node)
    BY <1>1, <1>4 DEF Stretch
  <2>2. b = node
    <3>1. b # node => node \in (node - 1) + 1..b - 1
      BY <1>1
    <3>2. QED
      BY <1>4, <2>1, <3>1 DEF Stretch
  <2>3. node < Len(route) /\ ~(node > (node - 1) + 1)
    BY <1>1
  <2>4. QED
    BY <1>1, <2>1, <2>2, <2>3 DEF Due, ToMotorway
<1>5. MotorwayTold(description', route, node)
  BY <1>3, <1>4 DEF MotorwayTold
<1>6. ~ToldAs(description', node, "roundaboutEnter") /\ ~ToldAs(description', node, "roundaboutLeave")
  BY <1>2
<1>7. QED
  BY <1>1, <1>5, <1>6, RoadCounts

\* Links between motorways, or between a motorway and a street, are told as one.
LEMMA LinksCount ==
  ASSUME NEW f, CountInv(f), OnToLink, UNCHANGED <<inRoundabout, roundaboutCrossingCounter>>,
         NEW manoeuvre \in MotorwayKinds, Due(route, node - 1, LinkEnd) = {manoeuvre},
         \A j \in 1..Len(route) : j \notin {node, LinkEnd} => description'[j].told = description[j].told,
         \A kind : ToldAs(description', node, kind) <=> kind = manoeuvre,
         \A kind : LinkEnd <= Len(route) /\ ToldAs(description', LinkEnd, kind) => kind = "turn"
  PROVE  ToldBehind(f, LinkEnd)
<1> DEFINE last == LinkEnd
           e == description'
<1>1. /\ Between /\ Len(route) \in Nat /\ node \in 2..Len(route) - 1 /\ lastNode = node - 1
      /\ MapInv /\ IsRoute(route) /\ RoundaboutsGoAround(ways) /\ Link(node)
      /\ ~LinkAt(route, node - 1) /\ LinkAt(route, node)
      /\ RoundAt(route, node - 1) <=> RoundAt(route, node)
  BY SeesRoute DEF OnToLink, OnTheRoad, CountInv
<1>2. /\ last \in node + 1..Len(route)
      /\ \A k \in node..last - 1 : LinkAt(route, k)
      /\ last < Len(route) => ~LinkAt(route, last)
      /\ \A b \in node..Len(route) : Stretch(route, node - 1, b) => b = last
  BY <1>1, StretchOverLinks
<1>3. ~RoundAt(route, node - 1) /\ ~RoundAt(route, node)
  BY <1>1, SameTypeAround
<1>4. /\ Due(route, node - 1, last) = {manoeuvre}
      /\ \A j \in 1..Len(route) : j \notin {node, last} => e[j].told = description[j].told
      /\ \A kind : ToldAs(e, node, kind) <=> kind = manoeuvre
      /\ \A kind : ToldAs(e, last, kind) => kind = "turn"
  BY <1>1, <1>2
<1>5. TellsManoeuvres(f, description, route, node, inRoundabout, roundaboutCrossingCounter)
  BY DEF CountInv
<1>6. ToldBehind(f, last) <=> TellsManoeuvres(f, e, route, last + 1, inRoundabout, roundaboutCrossingCounter)
  BY DEF ToldBehind
<1> HIDE DEF last, e
<1>7. manoeuvre \notin {"roundaboutEnter", "roundaboutLeave", "turn"}
  BY DEF MotorwayKinds
<1>8. ASSUME NEW j \in node + 1..last PROVE PassedOver(e, route, j)
  <2>1. node \in 2..j - 1 /\ \A k \in node..j - 1 : k \in node..last - 1
    BY <1>1, <1>2
  <2>2. \E kind \in MotorwayKinds : ToldAs(e, node, kind)
    BY <1>4
  <2>3. QED
    BY <1>1, <1>2, <2>1, <2>2 DEF PassedOver
<1>9. RoundaboutTold(f, e, route, node)
  BY <1>3, <1>4, <1>7 DEF RoundaboutTold, EntersAt, LeavesAt
<1>10. MotorwayTold(e, route, node)
  <2>1. KindsTold(e, node) = {manoeuvre}
    BY <1>4 DEF KindsTold
  <2>2. QED
    BY <1>1, <1>2, <1>4, <2>1 DEF MotorwayTold
<1>11. ASSUME NEW j \in 2..Len(route) - 1, j \in node + 1..last
       PROVE  RoundaboutTold(f, e, route, j) /\ MotorwayTold(e, route, j)
  <2>1. \A kind : ToldAs(e, j, kind) => kind = "turn"
    <3>1. CASE j = last
      BY <1>4, <3>1
    <3>2. CASE j # last
      <4>1. e[j].told = description[j].told /\ description[j].told = <<>>
        BY <1>1, <1>4, <1>5, <1>11, <3>2 DEF TellsManoeuvres
      <4>2. QED
        BY <4>1 DEF ToldAs
    <3>3. QED
      BY <3>1, <3>2
  <2>2. PassedOver(e, route, j)
    BY <1>8, <1>11
  <2>3. RoundaboutTold(f, e, route, j)
    BY <2>1, <2>2 DEF RoundaboutTold
  <2>4. KindsTold(e, j) = {}
    BY <2>1 DEF KindsTold, MotorwayKinds
  <2>5. j - 1 \in node..last - 1
    BY <1>1, <1>2, <1>11
  <2>6. LinkAt(route, j - 1)
    BY <1>2, <2>5
  <2>7. MotorwayTold(e, route, j)
    BY <2>4, <2>6 DEF MotorwayTold, Stretch
  <2>8. QED
    BY <2>3, <2>7
<1>12. \A j \in 2..Len(route) - 1 : j \in node..last => RoundaboutTold(f, e, route, j) /\ MotorwayTold(e, route, j)
  <2>1. \A j \in node..last : j = node \/ j \in node + 1..last
    BY <1>1, <1>2
  <2>2. QED
    BY <1>9, <1>10, <1>11, <2>1
<1>13. Counted(f, e, route, last + 1, inRoundabout, roundaboutCrossingCounter)
  <2>1. ASSUME NEW m \in 1..last, last < Len(route), BeginsAt(route, m, last) PROVE PassedOver(e, route, m)
    <3>1. last \in 2..Len(route) - 1 /\ last - 1 \in node..last - 1 /\ last \in m..last
      BY <1>1, <1>2, <2>1
    <3>2. ~RoundAt(route, last - 1)
      <4>1. LinkAt(route, last - 1) /\ ~LinkAt(route, last)
        BY <1>2, <2>1, <3>1
      <4>2. RoundAt(route, last)
        BY <2>1, <3>1 DEF BeginsAt
      <4>3. QED
        BY <1>1, <3>1, <4>1, <4>2, SameTypeAround
    <3>3. m = last
      <4>1. m # last => last - 1 \in m..last
        BY <3>1
      <4>2. QED
        BY <2>1, <3>2, <4>1 DEF BeginsAt
    <3>4. last \in node + 1..last
      BY <1>1, <1>2
    <3>5. QED
      BY <1>8, <3>3, <3>4
  <2>2. last + 1 # 1 /\ (last + 1) - 1 = last
    BY <1>1, <1>2
  <2>3. QED
    BY <2>1, <2>2 DEF Counted
<1>14. \A j \in 1..Len(route) : j < node \/ j > last => e[j].told = description[j].told
  BY <1>1, <1>2, <1>4
<1>15. node \in 1..Len(route) /\ last \in node..Len(route)
  BY <1>1, <1>2
<1>16. TellsManoeuvres(f, e, route, last + 1, inRoundabout, roundaboutCrossingCounter)
  BY <1>1, <1>5, <1>12, <1>13, <1>14, <1>15, ManoeuvresUpTo
<1>17. QED
  BY <1>6, <1>16 DEF last

\* What is told where links begin is what is due there.
LEMMA LinksFit ==
  ASSUME NEW f, CountInv(f), OnToLink, UNCHANGED <<inRoundabout, roundaboutCrossingCounter>>, NEW x,
         \/ Motorway(lastNode) /\ LeadsToMotorway /\ x.kind = "motorwayChange"
         \/ Motorway(lastNode) /\ ~LeadsToMotorway /\ x.kind = "motorwayLeave"
         \/ ~Motorway(lastNode) /\ LeadsToMotorway /\ x.kind = "motorwayEnter",
         LET left == [description EXCEPT ![node].told = <<x>>]
         IN  description' = left \/ description' = [left EXCEPT ![LinkEnd].told = <<[kind |-> "turn"]>>]
  PROVE  ToldBehind(f, LinkEnd)
<1> DEFINE left == [description EXCEPT ![node].told = <<x>>]
           told == <<x>>
           turn == <<[kind |-> "turn"]>>
           more == [left EXCEPT ![LinkEnd].told = turn]
           last == LinkEnd
<1>1. /\ Between /\ Len(route) \in Nat /\ node \in 2..Len(route) - 1 /\ lastNode = node - 1 /\ Link(node)
      /\ Motorway(lastNode) <=> MotorwayAt(route, node - 1)
  BY SeesRoute DEF OnToLink, OnTheRoad
<1>2. last \in node + 1..Len(route) /\ (LeadsToMotorway <=> ToMotorway(route, last))
  BY <1>1, StretchOverLinks
<1>3. description' = left \/ description' = more
  OBVIOUS
<1>4. left = TellAt(description, node, told) /\ more = TellAt(left, last, turn)
  BY DEF TellAt
<1>5. turn[1].kind = "turn" /\ told # <<>> /\ told[1] = x
  OBVIOUS
<1>6. /\ Follows(description, route)
      /\ TellsManoeuvres(f, description, route, node, inRoundabout, roundaboutCrossingCounter)
  BY DEF CountInv, AtInv, TurnsInv, TellsTurns
<1> HIDE DEF left, more, told, turn, last
<1>7. PICK e : /\ description' = e
               /\ \A j \in 1..Len(route) :
                    \/ e[j].told = IF j = node THEN told ELSE description[j].told
                    \/ j = last /\ e[j].told = turn
  <2>1. /\ Follows(left, route)
        /\ \A j \in 1..Len(route) : left[j].told = IF j = node THEN told ELSE description[j].told
    BY <1>4, <1>6, FollowsStill
  <2>2. \A j \in 1..Len(route) : more[j].told = IF j = last THEN turn ELSE left[j].told
    BY <1>4, <2>1, FollowsStill
  <2>3. CASE description' = left
    BY <2>1, <2>3
  <2>4. CASE description' = more
    <3>1. \A j \in 1..Len(route) :
            \/ more[j].told = IF j = node THEN told ELSE description[j].told
            \/ j = last /\ more[j].told = turn
      BY <2>1, <2>2
    <3>2. QED
      BY <2>4, <3>1
  <2>5. QED
    BY <1>3, <2>3, <2>4
<1>8. node \in 1..Len(route) /\ last \in 1..Len(route) /\ node # last /\ last >= node /\ last > (node - 1) + 1
  BY <1>1, <1>2
<1>9. \A kind : ToldAs(e, node, kind) <=> kind = x.kind
  <2>1. e[node].told = told
    BY <1>7, <1>8
  <2>2. QED
    BY <1>5, <2>1 DEF ToldAs
<1>10. \A kind : ToldAs(e, last, kind) => kind = "turn"
  <2>1. e[last].told = turn \/ e[last].told = description[last].told
    BY <1>7, <1>8
  <2>2. description[last].told = <<>>
    BY <1>6, <1>8 DEF TellsManoeuvres
  <2>3. QED
    BY <1>5, <2>1, <2>2 DEF ToldAs
<1>11. \A j \in 1..Len(route) : j \notin {node, last} => e[j].told = description[j].told
  BY <1>7
<1>12. x.kind \in MotorwayKinds /\ Due(route, node - 1, last) = {x.kind}
  BY <1>1, <1>2, <1>8 DEF MotorwayKinds, Due
<1>13. QED
  <2>1. x.kind \in MotorwayKinds /\ Due(route, node - 1, LinkEnd) = {x.kind}
    BY <1>12 DEF last
  <2>2. /\ \A j \in 1..Len(route) : j \notin {node, LinkEnd} => description'[j].told = description[j].told
        /\ \A kind : ToldAs(description', node, kind) <=> kind = x.kind
        /\ \A kind : LinkEnd <= Len(route) /\ ToldAs(description', LinkEnd, kind) => kind = "turn"
    BY <1>7, <1>9, <1>10, <1>11 DEF last
  <2> DEFINE kind == x.kind
  <2>3. kind \in MotorwayKinds /\ Due(route, node - 1, LinkEnd) = {kind}
    BY <2>1
  <2>4. \A other : ToldAs(description', node, other) <=> other = kind
    BY <2>2
  <2> HIDE DEF kind
  <2>5. QED
    BY <2>2, <2>3, <2>4, LinksCount

\* On the same map the same manoeuvres are told.
LEMMA SameManoeuvres ==
  ASSUME UNCHANGED <<network, route>>, NEW f,
         TellsManoeuvres(f, description', route, node', inRoundabout', roundaboutCrossingCounter')
  PROVE  TellsManoeuvres(f, description, route, node, inRoundabout, roundaboutCrossingCounter)'
<1>1. route' = route /\ ways' = ways
  BY DEF ways
<1>2. /\ \A j : RoundAt(route, j)' <=> RoundAt(route, j)
      /\ \A j : LinkAt(route, j)' <=> LinkAt(route, j)
      /\ \A j : MotorwayAt(route, j)' <=> MotorwayAt(route, j)
  BY <1>1 DEF RoundAt, LinkAt, MotorwayAt
<1>3. /\ \A j : PassedOver(description', route, j) <=> PassedOver(description, route, j)'
      /\ \A j : KindsTold(description', j) = KindsTold(description, j)'
  BY <1>1, <1>2 DEF PassedOver, KindsTold, ToldAs
<1>4. /\ \A j : EntersAt(route, j)' <=> EntersAt(route, j)
      /\ \A j : LeavesAt(route, j)' <=> LeavesAt(route, j)
      /\ \A m, j : BeginsAt(route, m, j)' <=> BeginsAt(route, m, j)
      /\ \A a, b : Stretch(route, a, b)' <=> Stretch(route, a, b)
      /\ \A a, b : Due(route, a, b)' = Due(route, a, b)
  BY <1>1, <1>2 DEF EntersAt, LeavesAt, BeginsAt, Stretch, Due, ToMotorway
<1>5. \A j : RoundaboutTold(f, description', route, j) => RoundaboutTold(f, description, route, j)'
  BY <1>3, <1>4 DEF RoundaboutTold, ToldAs
<1>6. \A j : MotorwayTold(description', route, j) => MotorwayTold(description, route, j)'
  BY <1>1, <1>2, <1>3, <1>4 DEF MotorwayTold
<1>7. Counted(f, description', route, node', inRoundabout', roundaboutCrossingCounter')
        => Counted(f, description, route, node, inRoundabout, roundaboutCrossingCounter)'
  BY <1>1, <1>2, <1>3, <1>4 DEF Counted
<1>8. QED
  BY <1>1, <1>5, <1>6, <1>7 DEF TellsManoeuvres

LEMMA SameSums ==
  ASSUME UNCHANGED <<network, route>>, NEW f, AddsUp(f, route)'
  PROVE  AddsUp(f, route)
<1>1. route' = route /\ ways' = ways
  BY DEF ways
<1>2. \A j : WaysOutAt(route, j)' = WaysOutAt(route, j)
  BY <1>1 DEF WaysOutAt, CanUseForward, CanUseBackward, EntryPoint
<1>3. QED
  BY <1>1, <1>2 DEF AddsUp

\* Every step of the loop tells the manoeuvres at the nodes it leaves behind.
LEMMA ManoeuvresStep ==
  ASSUME SearchInv, MadeInv, DescribedInv, TurnsInv, ManoeuvresInv, RoundaboutsGoAround(ways),
         [DescribeNext]_allVars
  PROVE  ManoeuvresInv'
<1> SUFFICES ASSUME description' # <<>>, NEW f, AddsUp(f, route)'
             PROVE  TellsManoeuvres(f, description, route, node, inRoundabout, roundaboutCrossingCounter)'
  BY DEF ManoeuvresInv
<1>1. MapInv /\ (description # <<>> => IsRoute(route) /\ route # <<>>)
  BY RouteOfSearch DEF SearchInv, DescribedInv
<1>2. CASE Search \/ UNCHANGED allVars
  <2>1. UNCHANGED describeVars /\ description # <<>>
    BY <1>2 DEF Search, allVars, describeVars
  <2>2. phase # "none" /\ pc = "done"
    BY <2>1 DEF DescribedInv
  <2>3. ~Search
    BY <2>2 DEF Search, Next, Start, TakeCheapest, SkipPath, FollowPath, CannotLoad, CloseNode, Resolve, LookingAtPath
  <2>4. UNCHANGED <<network, route, description, node, inRoundabout, roundaboutCrossingCounter>>
    BY <1>2, <2>3 DEF allVars, vars, mapVars, describeVars, loopVars
  <2>5. AddsUp(f, route)
    BY <2>4, SameSums
  <2>6. TellsManoeuvres(f, description', route, node', inRoundabout', roundaboutCrossingCounter')
    BY <2>1, <2>4, <2>5 DEF ManoeuvresInv
  <2>7. QED
    BY <2>4, <2>6, SameManoeuvres
<1>3. CASE Describe
  <2>1. /\ UNCHANGED <<network, route>> /\ route # <<>> /\ description' = NodesOf(route)
        /\ node' = 1 /\ roundaboutCrossingCounter' = 0
        /\ inRoundabout' = (route[1].way # NoWay /\ ways[route[1].way].roundabout)
    BY <1>3 DEF Describe, vars, mapVars
  <2>2. IsRoute(route) /\ Len(route) \in Nat
    BY <2>1, RouteOfSearch DEF IsRoute
  <2>3. \A j \in 1..Len(route) : description'[j].told = <<>>
    BY <1>1, <2>1, <2>2, NodesFollow
  <2>4. 1 < Len(route) /\ RoundAt(route, 1) => inRoundabout'
    <3>1. 1 < Len(route) => 1 \in OnTheWay(route)
      BY <1>1, <2>2, EntriesOfRoute
    <3>2. QED
      BY <2>1, <3>1 DEF OnTheWay, RoundAt
  <2>5. Counted(f, description', route, node', inRoundabout', roundaboutCrossingCounter')
    BY <2>1, <2>4 DEF Counted
  <2>6. TellsManoeuvres(f, description', route, node', inRoundabout', roundaboutCrossingCounter')
    BY <2>1, <2>3, <2>5 DEF TellsManoeuvres
  <2>7. QED
    BY <2>1, <2>6, SameManoeuvres
<1>4. CASE DescribeFails \/ DescribeNothing
  BY <1>4 DEF DescribeFails, DescribeNothing, DescribedInv
<1>5. CASE ShowSteps
  <2>1. UNCHANGED <<network, route, description, node, inRoundabout, roundaboutCrossingCounter>> /\ description # <<>>
    BY <1>5 DEF ShowSteps, vars, mapVars, loopVars
  <2>2. AddsUp(f, route)
    BY <2>1, SameSums
  <2>3. TellsManoeuvres(f, description', route, node', inRoundabout', roundaboutCrossingCounter')
    BY <2>1, <2>2 DEF ManoeuvresInv
  <2>4. QED
    BY <2>1, <2>3, SameManoeuvres
<1>6. ASSUME AtNode, UNCHANGED vars
      PROVE  CountInv(f)
  <2>1. UNCHANGED <<network, route>> /\ description # <<>> /\ phase = "instruct"
    BY <1>6 DEF AtNode, vars, mapVars, DescribedInv
  <2>2. AtInv
    BY <1>1, <2>1, GoAroundIsOfOneKind DEF AtInv
  <2>3. node \in 1..Len(route)
    BY <1>1, <1>6, <2>1, AtTheNode
  <2>4. AddsUp(f, route)
    BY <2>1, SameSums
  <2>5. QED
    BY <2>1, <2>2, <2>3, <2>4 DEF CountInv, ManoeuvresInv
<1>7. ASSUME UNCHANGED vars, NEW k, GoOnFrom(k), ToldBehind(f, k)
      PROVE  TellsManoeuvres(f, description, route, node, inRoundabout, roundaboutCrossingCounter)'
  <2>1. UNCHANGED <<network, route>> /\ node' = k + 1
    BY <1>7 DEF vars, mapVars, GoOnFrom
  <2>2. TellsManoeuvres(f, description', route, node', inRoundabout', roundaboutCrossingCounter')
    BY <1>7, <2>1 DEF ToldBehind
  <2>3. QED
    BY <2>1, <2>2, SameManoeuvres
<1>8. ASSUME CountInv(f), description' = description PROVE TellsHere(<<>>)
  BY <1>8 DEF CountInv, TellsManoeuvres, TellsHere
<1>9. CASE SkipNode
  <2>1. /\ AtNode /\ FirstOrLast /\ GoOnFrom(node) /\ UNCHANGED vars
        /\ UNCHANGED <<inRoundabout, roundaboutCrossingCounter>> /\ description' = description
    BY <1>9 DEF SkipNode
  <2>2. ToldBehind(f, node)
    BY <1>6, <1>8, <2>1, SkipCounts
  <2>3. QED
    BY <1>7, <2>1, <2>2
<1>10. ASSUME AtNode, UNCHANGED vars, NEW x, description' = [description EXCEPT ![node].told = <<x>>]
       PROVE  TellsHere(<<x>>)
  <2>1. AtInv /\ node \in 1..Len(route)
    BY <1>6, <1>10 DEF CountInv
  <2>2. QED
    BY <1>10, <2>1, TellIsHere
<1>11. CASE EnterRoundabout
  <2> DEFINE x == [kind |-> "roundaboutEnter"]
  <2>1. /\ AtNode /\ Between /\ GoOnFrom(node) /\ UNCHANGED vars /\ ~Roundabout(lastNode) /\ Roundabout(node)
        /\ inRoundabout' = TRUE /\ roundaboutCrossingCounter' = 0
        /\ description' = [description EXCEPT ![node].told = <<x>>]
    BY <1>11 DEF EnterRoundabout, Between, Tell
  <2>2. x.kind = "roundaboutEnter"
    OBVIOUS
  <2> HIDE DEF x
  <2>3. CountInv(f) /\ TellsHere(<<x>>)
    BY <1>6, <1>10, <2>1
  <2>4. ToldBehind(f, node)
    BY <2>1, <2>2, <2>3, EnterCounts
  <2>5. QED
    BY <1>7, <2>1, <2>4
<1>12. CASE LeaveRoundabout
  <2> DEFINE x == [kind |-> "roundaboutLeave", exits |-> roundaboutCrossingCounter']
  <2>1. /\ AtNode /\ Between /\ GoOnFrom(node) /\ UNCHANGED vars /\ Roundabout(lastNode) /\ ~Roundabout(node)
        /\ roundaboutCrossingCounter' = roundaboutCrossingCounter + Exits(node)
        /\ description' = [description EXCEPT ![node].told = <<x>>]
    BY <1>12 DEF LeaveRoundabout, Between, Tell
  <2>2. x.kind = "roundaboutLeave" /\ x.exits = roundaboutCrossingCounter + Exits(node)
    BY <2>1
  <2> DEFINE y == [kind |-> "roundaboutLeave", exits |-> roundaboutCrossingCounter + Exits(node)]
  <2>3. description' = [description EXCEPT ![node].told = <<y>>]
    BY <2>1
  <2>4. y.kind = "roundaboutLeave" /\ y.exits = roundaboutCrossingCounter + Exits(node)
    OBVIOUS
  <2> HIDE DEF x, y
  <2>5. CountInv(f) /\ TellsHere(<<y>>)
    BY <1>6, <1>10, <2>1, <2>3
  <2>6. ToldBehind(f, node)
    BY <2>1, <2>4, <2>5, LeaveCounts
  <2>7. QED
    BY <1>7, <2>1, <2>6
<1>13. CASE EnterMotorway
  <2> DEFINE x == [kind |-> "motorwayEnter"]
  <2>1. /\ AtNode /\ OnTheRoad /\ GoOnFrom(node) /\ UNCHANGED vars /\ OtherRoad(lastNode) /\ Motorway(node)
        /\ UNCHANGED <<inRoundabout, roundaboutCrossingCounter>>
        /\ description' = [description EXCEPT ![node].told = <<x>>]
    BY <1>13 DEF EnterMotorway, OnTheRoad, Between, Tell
  <2>2. x.kind = "motorwayEnter"
    OBVIOUS
  <2> HIDE DEF x
  <2>3. CountInv(f) /\ TellsHere(<<x>>)
    BY <1>6, <1>10, <2>1
  <2>4. ToldBehind(f, node)
    BY <2>1, <2>2, <2>3, MotorwayCounts
  <2>5. QED
    BY <1>7, <2>1, <2>4
<1>14. CASE LeaveMotorway
  <2> DEFINE x == [kind |-> "motorwayLeave"]
  <2>1. /\ AtNode /\ OnTheRoad /\ GoOnFrom(node) /\ UNCHANGED vars /\ Motorway(lastNode) /\ OtherRoad(node)
        /\ UNCHANGED <<inRoundabout, roundaboutCrossingCounter>>
        /\ description' = [description EXCEPT ![node].told = <<x>>]
    BY <1>14 DEF LeaveMotorway, OnTheRoad, Between, Tell
  <2>2. x.kind = "motorwayLeave"
    OBVIOUS
  <2> HIDE DEF x
  <2>3. CountInv(f) /\ TellsHere(<<x>>)
    BY <1>6, <1>10, <2>1
  <2>4. ToldBehind(f, node)
    BY <2>1, <2>2, <2>3, MotorwayCounts
  <2>5. QED
    BY <1>7, <2>1, <2>4
<1>15. CASE TakeLink
  <2>1. /\ AtNode /\ OnToLink /\ GoOnFrom(node) /\ UNCHANGED vars /\ ~Motorway(lastNode) /\ ~LeadsToMotorway
        /\ UNCHANGED <<inRoundabout, roundaboutCrossingCounter>> /\ description' = description
    BY <1>15 DEF TakeLink, OnToLink, OnTheRoad, Between
  <2>2. CountInv(f) /\ TellsHere(<<>>)
    BY <1>6, <1>8, <2>1
  <2>3. ToldBehind(f, node)
    BY <2>1, <2>2, TakeLinkCounts
  <2>4. QED
    BY <1>7, <2>1, <2>3
<1>16. CASE GoOn
  <2>1. /\ AtNode /\ SameRoad /\ GoOnFrom(node) /\ UNCHANGED vars /\ inRoundabout' = inRoundabout
        /\ roundaboutCrossingCounter' = roundaboutCrossingCounter + (IF inRoundabout THEN Exits(node) ELSE 0)
        /\ IF ~inRoundabout /\ Turns(node) THEN Tell(node, [kind |-> "turn"])
           ELSE IF NameChanges THEN Tell(node, [kind |-> "nameChanged"])
           ELSE UNCHANGED description
    BY <1>16 DEF GoOn, SameRoad, OnTheRoad, Between
  <2>2. CountInv(f)
    BY <1>6, <2>1
  <2>3. \E told : TellsHere(told) /\ (told = <<>> \/ told[1].kind \in {"turn", "nameChanged"})
    <3>1. CASE description' = description
      BY <1>8, <2>2, <3>1
    <3>2. ASSUME NEW kind \in {"turn", "nameChanged"}, Tell(node, [kind |-> kind])
          PROVE  \E told : TellsHere(told) /\ (told = <<>> \/ told[1].kind \in {"turn", "nameChanged"})
      <4> DEFINE x == [kind |-> kind]
      <4>1. x.kind = kind /\ description' = [description EXCEPT ![node].told = <<x>>]
        BY <3>2 DEF Tell
      <4> HIDE DEF x
      <4>2. TellsHere(<<x>>)
        BY <1>10, <2>1, <4>1
      <4>3. <<x>>[1].kind \in {"turn", "nameChanged"}
        BY <4>1
      <4>4. QED
        BY <4>2, <4>3
    <3>3. QED
      BY <2>1, <3>1, <3>2
  <2>4. ToldBehind(f, node)
    BY <2>1, <2>2, <2>3, SameRoadCounts
  <2>5. QED
    BY <1>7, <2>1, <2>4
<1>17. CASE ChangeMotorway \/ LeaveMotorwayByLink \/ EnterMotorwayByLink
  <2> DEFINE left(x) == [description EXCEPT ![node].told = <<x>>]
             turn    == <<[kind |-> "turn"]>>
             fits(x) == \/ Motorway(lastNode) /\ LeadsToMotorway /\ x.kind = "motorwayChange"
                        \/ Motorway(lastNode) /\ ~LeadsToMotorway /\ x.kind = "motorwayLeave"
                        \/ ~Motorway(lastNode) /\ LeadsToMotorway /\ x.kind = "motorwayEnter"
  <2>1. /\ AtNode /\ OnToLink /\ GoOnFrom(LinkEnd) /\ UNCHANGED vars
        /\ UNCHANGED <<inRoundabout, roundaboutCrossingCounter>>
    BY <1>17 DEF ChangeMotorway, LeaveMotorwayByLink, EnterMotorwayByLink, OnToLink, OnTheRoad, Between
  <2>2. /\ [kind |-> "motorwayChange"].kind = "motorwayChange"
        /\ [kind |-> "motorwayLeave"].kind = "motorwayLeave"
        /\ [kind |-> "motorwayEnter"].kind = "motorwayEnter"
    OBVIOUS
  <2>3. \E x : /\ fits(x)
               /\ description' = left(x) \/ description' = [left(x) EXCEPT ![LinkEnd].told = turn]
    <3>1. CASE ChangeMotorway
      BY <2>2, <3>1 DEF ChangeMotorway, Tell
    <3>2. CASE LeaveMotorwayByLink
      BY <2>2, <3>2 DEF LeaveMotorwayByLink
    <3>3. CASE EnterMotorwayByLink
      BY <2>2, <3>3 DEF EnterMotorwayByLink, Tell
    <3>4. QED
      BY <1>17, <3>1, <3>2, <3>3
  <2>4. PICK x : /\ fits(x)
                 /\ description' = left(x) \/ description' = [left(x) EXCEPT ![LinkEnd].told = turn]
    BY <2>3
  <2>5. CountInv(f)
    BY <1>6, <2>1
  <2>6. ToldBehind(f, LinkEnd)
    BY <2>1, <2>4, <2>5, LinksFit
  <2>7. QED
    BY <1>7, <2>1, <2>6
<1>18. QED
  BY <1>2, <1>3, <1>4, <1>5, <1>9, <1>11, <1>12, <1>13, <1>14, <1>15, <1>16, <1>17 DEF DescribeNext

\* What the property adds up at a node is what leads out there.
LEMMA WaysOutFit ==
  ASSUME MapInv, IsRoute(route), Follows(description, route), Describes(description, route),
         NEW j \in 1..Len(route) - 1
  PROVE  (IF description[j].objects = {} THEN 0 ELSE WaysOut(description[j].location)) = WaysOutAt(route, j)
<1> DEFINE p == EntryPoint(route, j)
           J == route[j].objects
<1>1. Len(route) \in Nat /\ j \in 1..Len(route)
  BY DEF IsRoute
<1>2. description[j].objects = J /\ description[j].location = p
  BY <1>1 DEF Follows, Describes
<1>3. J # {} => J = Junction(p)
  <2>1. IsStep(ways, route[j]) /\ p = StartOf(ways, route[j])
    BY EntriesOfRoute
  <2>2. QED
    BY <2>1 DEF IsStep, MeetingAt, Junction
<1> HIDE DEF p
<1>4. J # {} => WaysOut(p) = Cardinality({k \in J : ~ways[k].roundabout /\ CanUseForward(k, p)})
                               + Cardinality({k \in J : ~ways[k].roundabout /\ CanUseBackward(k, p)})
  BY <1>3 DEF WaysOut
<1>5. QED
  BY <1>2, <1>4 DEF WaysOutAt, p

\* So that the property's sums are some that the invariant speaks of.
LEMMA SumsAddUp ==
  ASSUME MapInv, IsRoute(route), Follows(description, route), Describes(description, route)
  PROVE  AddsUp(WaysOutUpTo, route)
<1> DEFINE n == Len(route)
           out(j) == IF description[j].objects = {} THEN 0 ELSE WaysOut(description[j].location)
           A(f) == [j \in 0..Len(description) |-> IF j = 0 THEN 0 ELSE f[j - 1] + out(j)]
           g == [j \in 1..n |-> [v \in Int |-> v + out(j)]]
           W == [j \in 0..n |-> IF j < n THEN Int ELSE {g[n][v] : v \in Int}]
<1>1. n \in Nat \ {0} /\ Len(description) = n
  BY LengthOfNodes DEF IsRoute
<1>2. \A j \in 1..n - 1 : out(j) = WaysOutAt(route, j) /\ out(j) \in Int
  <2>1. \A j \in 1..n - 1 : out(j) = WaysOutAt(route, j)
    BY WaysOutFit
  <2>2. \A j \in 1..n - 1 : WaysOutAt(route, j) \in Nat
    BY WaysOutAreNumbers
  <2>3. QED
    BY <2>1, <2>2
<1>3. WaysOutUpTo = CHOOSE f : f = A(f)
  BY DEF WaysOutUpTo
<1> HIDE DEF n, out
<1>4. PICK h : /\ h = [j \in 0..n |-> IF j = 0 THEN 0 ELSE g[j][h[j - 1]]]
               /\ \A j \in 0..n : h[j] \in W[j]
  <2>1. ASSUME NEW j \in 0 + 1..n, NEW v \in W[j - 1] PROVE g[j][v] \in W[j]
    <3>1. j \in 1..n /\ j - 1 \in 0..n /\ j - 1 < n /\ j \in 0..n
      BY <1>1
    <3>2. v \in Int
      BY <3>1
    <3>3. CASE j = n
      BY <3>1, <3>2, <3>3
    <3>4. CASE j # n
      <4>1. j \in 1..n - 1 /\ j < n
        BY <1>1, <3>1, <3>4
      <4>2. out(j) \in Int
        BY <1>2, <4>1
      <4>3. g[j][v] = v + out(j)
        BY <3>1, <3>2
      <4>4. v + out(j) \in Int
        BY <3>2, <4>2
      <4>5. W[j] = Int
        BY <3>1, <4>1
      <4>6. QED
        BY <4>3, <4>4, <4>5
    <3>5. QED
      BY <3>3, <3>4
  <2>2. 0 \in W[0]
    BY <1>1
  <2> HIDE DEF W, g
  <2>3. StaysIn(W, 0, n, 0, g)
    BY <2>1, <2>2 DEF StaysIn
  <2>4. 0 \in Int /\ n \in Int /\ 0 <= n
    BY <1>1
  <2>5. QED
    BY <2>3, <2>4, Recursion
<1>5. h = A(h)
  <2>1. ASSUME NEW j \in 0..n, j # 0 PROVE g[j][h[j - 1]] = h[j - 1] + out(j)
    <3>1. j \in 1..n /\ j - 1 \in 0..n /\ j - 1 < n
      BY <1>1, <2>1
    <3>2. h[j - 1] \in Int
      BY <1>4, <3>1
    <3>3. QED
      BY <3>1, <3>2
  <2> HIDE DEF g, W
  <2>2. QED
    BY <1>1, <1>4, <2>1
<1>6. WaysOutUpTo = A(WaysOutUpTo)
  <2> HIDE DEF A
  <2>1. QED
    BY <1>3, <1>5
<1> DEFINE F == WaysOutUpTo
<1>7. F[0] = 0 /\ \A j \in 1..n : F[j] = F[j - 1] + out(j)
  <2>1. F = A(F)
    BY <1>6
  <2> HIDE DEF F
  <2>2. 0 \in 0..n /\ \A j \in 1..n : j \in 0..n /\ j # 0
    BY <1>1
  <2>3. QED
    BY <1>1, <2>1, <2>2
<1> HIDE DEF F
<1>8. \A j \in 0..n - 1 : F[j] \in Int
  <2> DEFINE S == {j \in 0..n - 1 : F[j] \in Int}
  <2>1. ASSUME NEW j \in 0 + 1..n - 1, j - 1 \in S PROVE j \in S
    <3>1. j \in 1..n /\ j \in 1..n - 1 /\ j \in 0..n - 1
      BY <1>1
    <3>2. F[j] = F[j - 1] + out(j) /\ out(j) \in Int /\ F[j - 1] \in Int
      BY <1>2, <1>7, <2>1, <3>1
    <3>3. QED
      BY <3>1, <3>2
  <2>2. 0 \in S
    BY <1>1, <1>7
  <2> HIDE DEF S
  <2>3. Reaches(S, 0, n - 1) /\ 0 \in Int /\ n - 1 \in Int
    BY <1>1, <2>1, <2>2 DEF Reaches
  <2>4. \A j \in 0..n - 1 : j \in S
    BY <2>3, IntervalInduction
  <2>5. QED
    BY <2>4 DEF S
<1>9. \A j \in 1..n - 1 : F[j] = F[j - 1] + WaysOutAt(route, j)
  <2>1. \A j \in 1..n - 1 : j \in 1..n
    BY <1>1
  <2>2. QED
    BY <1>2, <1>7, <2>1
<1>10. AddsUp(F, route)
  BY <1>8, <1>9 DEF AddsUp, n
<1>11. QED
  BY <1>10 DEF F

\* The node at which a roundabout was entered is where it begins on the route.
LEMMA EntersWhereItBegins ==
  ASSUME NEW j \in Nat, j >= 2, Roundabout(j - 1)
  PROVE  /\ EnteredAt(j) \in 1..j - 1
         /\ \A k \in EnteredAt(j)..j - 1 : Roundabout(k)
         /\ EnteredAt(j) > 1 => ~Roundabout(EnteredAt(j) - 1)
<1> DEFINE S == {m \in 1..j - 1 : \A k \in m..j - 1 : Roundabout(k)}
           Begins(m) == (\A k \in m..j - 1 : Roundabout(k)) /\ (m > 1 => ~Roundabout(m - 1))
<1>1. S \in SUBSET Nat /\ S # {}
  <2>1. j - 1 \in 1..j - 1 /\ \A k \in j - 1..j - 1 : k = j - 1
    OBVIOUS
  <2>2. j - 1 \in S
    BY <2>1
  <2>3. QED
    BY <2>2
<1>2. PICK m \in S : \A l \in S : m <= l
  <2> HIDE DEF S
  <2>1. QED
    BY <1>1, LeastNat
<1>3. Begins(m)
  <2>1. ASSUME m > 1, Roundabout(m - 1) PROVE FALSE
    <3>1. m - 1 \in 1..j - 1 /\ \A k \in m - 1..j - 1 : k = m - 1 \/ k \in m..j - 1
      BY <2>1
    <3>2. m - 1 \in S
      BY <2>1, <3>1
    <3>3. QED
      BY <1>2, <3>2
  <2>2. QED
    BY <2>1
<1>4. EnteredAt(j) = CHOOSE l \in 1..j - 1 : Begins(l)
  BY DEF EnteredAt
<1>5. \E l \in 1..j - 1 : Begins(l)
  BY <1>3
<1> HIDE DEF Begins
<1>6. EnteredAt(j) \in 1..j - 1 /\ Begins(EnteredAt(j))
  BY <1>4, <1>5
<1>7. QED
  BY <1>6 DEF Begins

\* When the loop has come to the end, all manoeuvres are told.
LEMMA ManoeuvresFit ==
  ASSUME SearchInv, MadeInv, DescribedInv, TurnsInv, ManoeuvresInv
  PROVE  ManoeuvresAreTold
<1> SUFFICES ASSUME phase = "told", description # <<>>
             PROVE  RoundaboutsAreTold /\ MotorwaysAreTold
  BY DEF ManoeuvresAreTold
<1> DEFINE F == WaysOutUpTo
<1>1. /\ MapInv /\ IsRoute(route) /\ Describes(description, route) /\ Follows(description, route)
      /\ node > Len(route) /\ node \in 1..Len(route) + 1
  <2>1. MapInv /\ IsRoute(route) /\ Describes(description, route)
    BY RouteOfSearch DEF DescribedInv, SearchInv
  <2>2. /\ Follows(description, route)
        /\ node > Len(route) /\ node \in 1..Len(route) + 1
    BY DEF TurnsInv, TellsTurns
  <2>3. QED
    BY <2>1, <2>2
<1>2. /\ Len(description) = Len(route) /\ Len(route) \in Nat \ {0}
      /\ \A j \in 1..Len(route) : HasPath(j) <=> j < Len(route)
      /\ \A k \in 1..Len(route) - 1 : /\ Link(k) <=> LinkAt(route, k)
                                      /\ Roundabout(k) <=> RoundAt(route, k)
                                      /\ Motorway(k) <=> MotorwayAt(route, k)
  BY <1>1, AtTheNode
<1>3. TellsManoeuvres(F, description, route, node, inRoundabout, roundaboutCrossingCounter)
  <2>1. AddsUp(F, route)
    BY <1>1, SumsAddUp
  <2> HIDE DEF F
  <2>2. QED
    BY <2>1 DEF ManoeuvresInv
<1>4. \A j \in 1..Len(route) - 1 : ~LeftOut(j) => ~PassedOver(description, route, j)
  BY <1>1, PassedOverIsLeftOut
<1>5. \A j, kind : Told(j, kind) <=> ToldAs(description, j, kind)
  BY DEF Told, ToldAs
<1>6. \A j \in 2..Len(route) - 1 : RoundaboutTold(F, description, route, j) /\ MotorwayTold(description, route, j)
  BY <1>1, <1>2, <1>3 DEF TellsManoeuvres
<1>7. RoundaboutsAreTold
  <2> SUFFICES ASSUME NEW j \in 2..Len(route) - 1
               PROVE  /\ Told(j, "roundaboutEnter") => Enters(j)
                      /\ Told(j, "roundaboutLeave") => Leaves(j)
                      /\ Enters(j) /\ ~LeftOut(j) => Told(j, "roundaboutEnter")
                      /\ Leaves(j) /\ ~LeftOut(j) => Told(j, "roundaboutLeave")
                      /\ Leaves(j) /\ ~LeftOut(j) /\ ~LeftOut(EnteredAt(j)) =>
                           description[j].told[1].exits = F[j] - F[EnteredAt(j)]
    BY <1>2 DEF RoundaboutsAreTold, Nodes
  <2> HIDE DEF F
  <2>1. j - 1 \in 1..Len(route) - 1 /\ j \in 1..Len(route) - 1 /\ j \in Nat /\ j >= 2
    BY <1>2
  <2>2. (Enters(j) <=> EntersAt(route, j)) /\ (Leaves(j) <=> LeavesAt(route, j))
    BY <1>2, <2>1 DEF Enters, Leaves, EntersAt, LeavesAt
  <2>3. ~LeftOut(j) => ~PassedOver(description, route, j)
    BY <1>4, <2>1
  <2>4. RoundaboutTold(F, description, route, j)
    BY <1>6
  <2>5. ASSUME Leaves(j), ~LeftOut(j), ~LeftOut(EnteredAt(j))
        PROVE  description[j].told[1].exits = F[j] - F[EnteredAt(j)]
    <3> DEFINE m == EnteredAt(j)
    <3>1. /\ m \in 1..j - 1 /\ (\A k \in m..j - 1 : Roundabout(k)) /\ (m > 1 => ~Roundabout(m - 1))
      BY <2>1, <2>5, EntersWhereItBegins DEF Leaves
    <3>2. ~LeftOut(m)
      BY <2>5
    <3> HIDE DEF m
    <3>3. /\ m \in 1..Len(route) - 1 /\ (\A k \in m..j - 1 : k \in 1..Len(route) - 1)
          /\ (m > 1 => m - 1 \in 1..Len(route) - 1)
      BY <1>2, <2>1, <3>1
    <3>4. BeginsAt(route, m, j - 1)
      BY <1>2, <3>1, <3>3 DEF BeginsAt
    <3>5. ~PassedOver(description, route, m)
      BY <1>4, <3>2, <3>3
    <3>6. description[j].told[1].exits = F[j] - F[m]
      BY <2>2, <2>3, <2>4, <2>5, <3>1, <3>4, <3>5 DEF RoundaboutTold
    <3>7. QED
      BY <3>6 DEF m
  <2>6. QED
    BY <1>5, <2>2, <2>3, <2>4, <2>5 DEF RoundaboutTold
<1>8. MotorwaysAreTold
  <2> SUFFICES ASSUME NEW a \in 1..Len(route) - 1, NEW b \in a + 1..Len(route),
                      ~Link(a), \A k \in a + 1..b - 1 : Link(k), HasPath(b) => ~Link(b),
                      b > a + 1 \/ HasPath(b), \A k \in a..b - 1 : ~Roundabout(k),
                      b = a + 1 => ~Roundabout(b)
               PROVE  /\ {kind \in MotorwayKinds : Told(a + 1, kind)} = Manoeuvre(a, b)
                      /\ \A k \in a + 2..b - 1, kind \in MotorwayKinds : ~Told(k, kind)
    BY <1>2 DEF MotorwaysAreTold
  <2>1. /\ b \in 1..Len(route) /\ (b < Len(route) => b \in 1..Len(route) - 1)
        /\ \A k \in a..b - 1 : k \in 1..Len(route) - 1
    BY <1>2
  <2>2. HasPath(b) <=> b < Len(route)
    BY <1>2, <2>1
  <2>3. Stretch(route, a, b)
    <3>1. /\ ~LinkAt(route, a)
          /\ \A k \in a + 1..b - 1 : k \in a..b - 1 /\ LinkAt(route, k)
          /\ \A k \in a..b - 1 : ~RoundAt(route, k)
      BY <1>2, <2>1
    <3>2. b < Len(route) => ~LinkAt(route, b)
      BY <1>2, <2>1, <2>2
    <3>3. b = a + 1 => ~RoundAt(route, b)
      BY <1>2, <2>1, <2>2
    <3>4. QED
      BY <2>2, <3>1, <3>2, <3>3 DEF Stretch
  <2>4. a + 1 \in 2..Len(route) - 1 /\ (a + 1) - 1 = a /\ b \in (a + 1)..Len(route)
    BY <1>2, <2>2
  <2>5. KindsTold(description, a + 1) = Due(route, a, b)
    BY <1>6, <2>3, <2>4 DEF MotorwayTold
  <2>6. Due(route, a, b) = Manoeuvre(a, b)
    <3>1. Motorway(a) <=> MotorwayAt(route, a)
      BY <1>2
    <3>2. HasPath(b) /\ Motorway(b) <=> ToMotorway(route, b)
      BY <1>2, <2>1, <2>2 DEF ToMotorway
    <3>3. QED
      BY <3>1, <3>2 DEF Due, Manoeuvre
  <2>7. ASSUME NEW k \in a + 2..b - 1, NEW kind \in MotorwayKinds PROVE ~Told(k, kind)
    <3>1. k \in 2..Len(route) - 1 /\ k - 1 \in a + 1..b - 1 /\ k - 1 \in a..b - 1
      BY <1>2, <2>1
    <3>2. LinkAt(route, k - 1)
      BY <1>2, <2>1, <3>1
    <3>3. KindsTold(description, k) = {}
      BY <1>6, <3>1, <3>2 DEF MotorwayTold
    <3>4. QED
      BY <1>5, <3>3 DEF KindsTold
  <2>8. {kind \in MotorwayKinds : Told(a + 1, kind)} = KindsTold(description, a + 1)
    BY <1>5 DEF KindsTold
  <2>9. QED
    BY <2>5, <2>6, <2>7, <2>8
<1>9. QED
  BY <1>7, <1>8

\* Whatever the ways, their names and their numbers of points: every roundabout is told where
\* it is entered and left, with the exit to take, and every change between streets and
\* motorways once, where it is to be done, if roundabouts lead around.
THEOREM ManoeuvresAreAllTold ==
  ASSUME \A n \in Networks : TurnsCanBeExcluded(n) /\ RoundaboutsGoAround(n.ways)
  PROVE  DescribeSpec => []ManoeuvresAreTold
<1> DEFINE Inv == SearchInv /\ RouteInv /\ MadeInv /\ DescribedInv /\ TurnsInv /\ ManoeuvresInv
<1>1. DescribeInit => Inv
  <2> SUFFICES ASSUME DescribeInit PROVE Inv
    OBVIOUS
  <2>1. Init /\ phase = "none" /\ description = <<>> /\ drawn = <<>>
    BY DEF DescribeInit
  <2>2. MadeInv
    BY <2>1 DEF Init, MadeInv, Found
  <2>3. QED
    BY <2>1, <2>2, SearchInit DEF DescribedInv, TurnsInv, ManoeuvresInv
<1>2. Inv /\ [DescribeNext]_allVars => Inv'
  <2>1. SearchInv => TurnsCanBeExcluded(network) /\ RoundaboutsGoAround(ways)
    BY DEF SearchInv, MapInv, ways
  <2>2. RoundaboutsGoAround(ways) => RoundaboutsAreOfOneKind(ways)
    BY GoAroundIsOfOneKind
  <2>3. QED
    BY <2>1, <2>2, SearchIsLeftAlone, SearchStep, MadeStep, DescribedStep, TurnsStep, ManoeuvresStep
<1>3. Inv => ManoeuvresAreTold
  BY ManoeuvresFit
<1>4. QED
  BY <1>1, <1>2, <1>3, PTL DEF DescribeSpec
==============================================================================
