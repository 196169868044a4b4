------------------------------ MODULE RouteSearch ------------------------------
(***************************************************************************)
(* RoutingService::CalculateRoute from one way to another: the A* search   *)
(* over the route nodes of the graph and the list of steps along the ways  *)
(* that is made from it.                                                   *)
(*                                                                         *)
(* The search keeps the open nodes in a set sorted by cost (openList) and  *)
(* by their file offset (openMap), and those it is through with in         *)
(* closeMap.  One iteration over a path of the current node is one step.   *)
(* Costs are those of a profile: a way's factor times the distance, and    *)
(* EstimateFactor for the distance still to go.                            *)
(***************************************************************************)
EXTENDS RouteGraph

CONSTANTS Networks,        (* the ways and restrictions of the map         *)
          EstimateFactor   (* the lowest cost a profile expects            *)

ASSUME EstimateAssumption == EstimateFactor \in Nat

ASSUME NetworksAssumption ==
  \A n \in Networks :
    /\ n.ways \in Seq({n.ways[k] : k \in DOMAIN n.ways})
    /\ \A k \in DOMAIN n.ways :
         LET way == n.ways[k]
         IN  /\ way.points \in Seq(Points)
             /\ {way.forward, way.backward, way.others, way.hasAccess, way.area} \subseteq BOOLEAN
             /\ way.factor \in Nat
    /\ n.restrictions \in Seq([allow : BOOLEAN, via : Points, from : Nat, to : Nat])

VARIABLES
  network, graph,          (* the files of ways and of route nodes         *)
  from, to,                (* where to start and to end: a way and the     *)
                           (* index of one of its points                   *)
  pc,                      (* start, take, paths, resolve, done            *)
  targets,                 (* the route nodes next to the target           *)
  openList, openMap, closeMap,
  current,                 (* the node whose paths are looked at           *)
  i,                       (* the next of them                             *)
  route,                   (* the entries of RouteData                     *)
  result                   (* what CalculateRoute returns; "none" before   *)

ways == network.ways

mapVars    == <<network, graph, from, to>>
searchVars == <<targets, openList, openMap, closeMap, current, i>>
vars       == <<mapVars, pc, searchVars, route, result>>

PointAt(place) == ways[place.way].points[place.index]

\* The offset of no route node: a node the search started at has no predecessor.
NoNode == 0

OverallCost(n) == n.currentCost + n.estimateCost

\* RNodeCostCompare: by cost, then by file offset.
Cheaper(a, b) ==
  \/ OverallCost(a) < OverallCost(b)
  \/ OverallCost(a) = OverallCost(b) /\ a.node < b.node

EstimateCost(p) == EstimateFactor * Distance[p][PointAt(to)]
PathCost(path)  == ways[path.way].factor * path.distance

NoMap == [p \in {} |-> p]
Put(map, p, n) == [q \in DOMAIN map \union {p} |-> IF q = p THEN n ELSE map[q]]

------------------------------------------------------------------------------
(* Start and target                                                        *)

\* The next route node along the way of a place, the place itself included
\* after it, and before it; {} if the vehicle may not go there.
NodeAfter(place, usable) ==
  LET S == {j \in DOMAIN ways[place.way].points :
              /\ usable /\ j >= place.index
              /\ ways[place.way].points[j] \in DOMAIN graph}
  IN  {ways[place.way].points[j] : j \in {k \in S : \A l \in S : k <= l}}

NodeBefore(place, usable) ==
  LET S == {j \in DOMAIN ways[place.way].points :
              /\ usable /\ j < place.index
              /\ ways[place.way].points[j] \in DOMAIN graph}
  IN  {ways[place.way].points[j] : j \in {k \in S : \A l \in S : k >= l}}

Forward(place)  == ways[place.way].forward
Backward(place) == ways[place.way].backward

\* GetTargetNodes: the place itself, or where a route must come from.
TargetNodes ==
  IF PointAt(to) \in DOMAIN graph THEN {PointAt(to)}
  ELSE NodeBefore(to, Forward(to)) \union NodeAfter(to, Backward(to))

\* GetStartNodes, the estimate being made from the start for both of them.
StartNode(p) ==
  [node |-> p, prev |-> NoNode, object |-> from.way,
   currentCost  |-> ways[from.way].factor * Distance[PointAt(from)][p],
   estimateCost |-> EstimateCost(PointAt(from)), access |-> TRUE]

StartNodes ==
  IF PointAt(from) \in DOMAIN graph THEN {StartNode(PointAt(from))}
  ELSE {StartNode(p) : p \in NodeAfter(from, Forward(from)) \union NodeBefore(from, Backward(from))}

Start ==
  /\ pc = "start"
  /\ targets' = TargetNodes
  /\ IF TargetNodes = {} \/ StartNodes = {}
       THEN /\ pc' = "done" /\ result' = "false"
            /\ UNCHANGED <<openList, openMap>>
       ELSE /\ pc' = "take" /\ UNCHANGED result
            /\ openList' = StartNodes
            /\ openMap' = [p \in {n.node : n \in StartNodes} |-> StartNode(p)]
  /\ UNCHANGED <<mapVars, closeMap, current, i, route>>

------------------------------------------------------------------------------
(* The search                                                              *)

\* Take the entry with the lowest cost.
TakeCheapest ==
  /\ pc = "take"
  /\ \E n \in openList :
       /\ \A o \in openList \ {n} : Cheaper(n, o)
       /\ current' = n
       /\ openList' = openList \ {n}
       /\ openMap' = [p \in DOMAIN openMap \ {n.node} |-> openMap[p]]
  /\ i' = 1
  /\ pc' = "paths"
  /\ UNCHANGED <<mapVars, targets, closeMap, route, result>>

NodePaths == graph[current.node].paths
ThisPath  == NodePaths[i]

TurnExcluded == [source |-> current.object, targetIndex |-> i] \in graph[current.node].excludes

\* Mutant: turns are not looked at.
SkippedButForTurns ==
  \/ ThisPath.to = current.prev
  \/ ~current.access /\ ThisPath.hasAccess
  \/ ~ThisPath.usable
  \/ ThisPath.to \in DOMAIN closeMap

Skipped ==
  \/ ThisPath.to = current.prev
  \/ ~current.access /\ ThisPath.hasAccess
  \/ ~ThisPath.usable
  \/ ThisPath.to \in DOMAIN closeMap
  \/ TurnExcluded

NextCost == current.currentCost + PathCost(ThisPath)

\* Mutant: the first way to a node is kept.
AnyExists == ThisPath.to \in DOMAIN openMap

CheaperExists ==
  ThisPath.to \in DOMAIN openMap /\ openMap[ThisPath.to].currentCost <= NextCost

LookingAtPath == pc = "paths" /\ i <= Len(NodePaths)

\* Mutant: continue without counting.
SkipPathAgain ==
  /\ LookingAtPath
  /\ Skipped \/ CheaperExists
  /\ UNCHANGED vars

SkipPath ==
  /\ LookingAtPath
  /\ Skipped \/ CheaperExists
  /\ i' = i + 1
  /\ UNCHANGED <<mapVars, pc, targets, openList, openMap, closeMap, current, route, result>>

\* Insert the node at the end of the path, or update it if it is there.
FollowPath ==
  /\ LookingAtPath
  /\ ~Skipped /\ ~CheaperExists
  /\ LET p   == ThisPath.to
         old == IF p \in DOMAIN openMap THEN {openMap[p]} ELSE {}
         new == [node |-> p, prev |-> current.node, object |-> ThisPath.way,
                 currentCost |-> NextCost, estimateCost |-> EstimateCost(p),
                 access |-> ThisPath.hasAccess]
     IN  /\ openList' = (openList \ old) \union {new}
         /\ openMap' = Put(openMap, p, new)
  /\ i' = i + 1
  /\ UNCHANGED <<mapVars, pc, targets, closeMap, current, route, result>>

\* A new node has to be read from the file of route nodes.
CannotLoad ==
  /\ LookingAtPath
  /\ ~Skipped /\ ~CheaperExists
  /\ ThisPath.to \notin DOMAIN openMap
  /\ pc' = "done" /\ result' = "false"
  /\ UNCHANGED <<mapVars, searchVars, route>>

\* Close the node; go on unless it is a target or nothing is left.
CloseNode ==
  /\ pc = "paths" /\ i > Len(NodePaths)
  /\ closeMap' = Put(closeMap, current.node, current)
  /\ pc' = IF openList # {} /\ current.node \notin targets THEN "take" ELSE "resolve"
  /\ UNCHANGED <<mapVars, targets, openList, openMap, current, i, route, result>>

------------------------------------------------------------------------------
(* The route                                                               *)

\* ResolveRNodeChainToList: the nodes that led to one that is closed.
ChainTo[p \in DOMAIN closeMap] ==
  IF closeMap[p].prev = NoNode THEN <<closeMap[p]>>
  ELSE Append(ChainTo[closeMap[p].prev], closeMap[p])

Chain == ChainTo[current.node]

\* ResolveRouteDataJunctions: the ways that meet at a point that has an id.
Junction(p) == IF p \in Intersections(ways) THEN WaysAt(ways, p) ELSE {}

\* A step along way k from index a to index b; only the first of a part has its id.
Step(k, a, b, first) ==
  [way |-> k, at |-> a, next |-> b, objects |-> IF first THEN Junction(ways[k].points[a]) ELSE {}]

\* Mutant: around a way without the step over its end.
AddNodesWithoutEnd(k, s, t) ==
  LET n     == Len(ways[k].points)
      At(j) == IF s < t THEN s + j ELSE s - j
  IN  IF s < t \/ s = t + 1 \/ ways[k].backward
        THEN [j \in 1..(IF s < t THEN t - s ELSE s - t) |-> Step(k, At(j - 1), At(j), j = 1)]
        ELSE [j \in 1..n - s |-> Step(k, s + j - 1, s + j, j = 1)]

\* Mutant: backwards along any way over its end.
AddNodesAround(k, s, t) ==
  LET n     == Len(ways[k].points)
      again == IF s = n /\ t = 1 THEN n ELSE 0
      At(j) == IF s < t THEN s + j ELSE IF s = t + 1 THEN t ELSE ((s + j - 1) % n) + 1
  IN  [j \in 1..(IF s < t THEN t - s ELSE IF s = t + 1 THEN 1 ELSE n - s + t + again) |->
         Step(k, IF j = 1 THEN s ELSE At(j - 1), At(j), j = 1)]

\* Mutant: backwards along ways that lead in one direction only, too.
AddNodesBack(k, s, t) ==
  LET At(j) == IF s < t THEN s + j ELSE s - j
  IN  [j \in 1..(IF s < t THEN t - s ELSE s - t) |-> Step(k, At(j - 1), At(j), j = 1)]

\* AddNodes: the entries along a way of n points from index s to index t.
AddNodes(k, s, t) ==
  LET n      == Len(ways[k].points)
      oneway == ~ways[k].backward /\ ~ways[k].area
      ahead  == s < t
      around == ~ahead /\ s # t + 1 /\ oneway
      \* From the last index to the first it goes on until it is there again.
      again  == IF s = n /\ t = 1 THEN n ELSE 0
      count  == IF ahead THEN t - s ELSE IF around THEN n - s + t + again ELSE s - t
      At(j)  == IF ahead THEN s + j ELSE IF around THEN ((s + j - 1) % n) + 1 ELSE s - j
  IN  [j \in 1..count |-> Step(k, At(j - 1), At(j), j = 1)]

\* The last entry has no way: it goes nowhere.
NoWay   == 0
Closing == [way |-> NoWay, at |-> to.index, next |-> 0, objects |-> {}]

\* ResolveRNodesToRouteData
Entries(nodes) ==
  LET last == nodes[Len(nodes)].node
      between[j \in 1..Len(nodes)] ==
        IF j = 1
          THEN IF PointAt(from) = nodes[1].node THEN <<>>
               ELSE AddNodes(from.way, from.index, IndexIn(ways[from.way], nodes[1].node))
          ELSE LET way == ways[nodes[j].object]
               IN  between[j - 1] \o AddNodes(nodes[j].object, IndexIn(way, nodes[j - 1].node),
                                              IndexIn(way, nodes[j].node))
      end  == IndexIn(ways[to.way], last)
  IN  Append(between[Len(nodes)] \o (IF end = to.index THEN <<>> ELSE AddNodes(to.way, end, to.index)),
             Closing)

\* Without a route the answer is TRUE and the route stays empty.
Resolve ==
  /\ pc = "resolve"
  /\ route' = IF current.node \in targets THEN Entries(Chain) ELSE <<>>
  /\ pc' = "done" /\ result' = "true"
  /\ UNCHANGED <<mapVars, searchVars>>

------------------------------------------------------------------------------

\* GetClosestRoutableNode: a point, on the first of the ways that lead through it.
Place(w, p) ==
  LET k == CHOOSE k \in WaysAt(w, p) : \A l \in WaysAt(w, p) : k <= l
  IN  [way |-> k, index |-> IndexIn(w[k], p)]

OnAWay(w) == {p \in Points : WaysAt(w, p) # {}}

Init ==
  /\ network \in Networks
  /\ graph = RouteGraph(network.ways, network.restrictions)
  /\ \E p, q \in OnAWay(ways) : from = Place(ways, p) /\ to = Place(ways, q)
  /\ pc = "start"
  /\ targets = {} /\ openList = {} /\ openMap = NoMap /\ closeMap = NoMap
  /\ current = [node |-> NoNode] /\ i = 1
  /\ route = <<>> /\ result = "none"

Next == Start \/ TakeCheapest \/ SkipPath \/ FollowPath \/ CannotLoad \/ CloseNode \/ Resolve

Spec == Init /\ [][Next]_vars

------------------------------------------------------------------------------
(* Properties                                                              *)

Found    == pc = "done" /\ result = "true" /\ current.node \in targets
NotFound == pc = "done" /\ result = "true" /\ current.node \notin targets

\* May a vehicle that came to a go on to b?
MayGoOn(a, b) ==
  /\ b.node # a.prev
  /\ a.access \/ ~ways[b.object].hasAccess
  /\ \/ a.object = b.object
     \/ CanTurn(network.restrictions, a.node, a.object, b.object)
  /\ \E k \in DOMAIN graph[a.node].paths :
       LET path == graph[a.node].paths[k]
       IN  /\ path.to = b.node /\ path.way = b.object /\ path.usable
           /\ b.currentCost = a.currentCost + PathCost(path)

\* From one index of a way to another in a direction in which it may be used, over its
\* end where it may be used in no other.
InDirection(way, a, b) ==
  \/ way.area /\ b - a \in {-1, 1}
  \/ way.forward /\ b = a + 1
  \/ way.backward /\ b = a - 1
  \/ way.forward /\ ~way.backward /\ a = Len(way.points) /\ b = 1

\* The points between which AddNodes is asked for the entries along a way.
SearchStops == DOMAIN graph \union {PointAt(from), PointAt(to)}

\* Two indices of a stretch of a way that comes back to where it begins.
OnLoop(way, a, b) ==
  \E k, l \in DOMAIN way.points : /\ k < l /\ way.points[k] = way.points[l]
                                 /\ {a, b} \subseteq k..l

\* The exception: of a point to which a way comes twice the first index is taken.  So
\* the entries of a path around a loop may go the other way around: back to a stop that
\* is the neighbour, and ahead on a way that may be used backward.
WrongWay(way, a, b) ==
  /\ OnLoop(way, a, b)
  /\ \/ b = a - 1 /\ way.forward /\ {way.points[a], way.points[b]} \subseteq SearchStops
     \/ b = a + 1 /\ way.backward

\* The entries made of the search lead step by step from the place asked for to the
\* target, in the directions of the ways but for the exception.
Connects ==
  LET n       == Len(route) - 1
      At(j)   == ways[route[j].way].points[route[j].at]
      Goes(j) == ways[route[j].way].points[route[j].next]
  IN  /\ IF n = 0 THEN PointAt(from) = PointAt(to)
         ELSE At(1) = PointAt(from) /\ Goes(n) = PointAt(to)
      /\ \A j \in 1..n - 1 : Goes(j) = At(j + 1)
      /\ \A j \in 1..n : LET way == ways[route[j].way]
                        IN  \/ InDirection(way, route[j].at, route[j].next)
                            \/ WrongWay(way, route[j].at, route[j].next)

\* A forbidden turn leads into a way that goes on in one direction only: of several
\* paths along it FillRoutePathExcludes excludes the first, and those around areas
\* never.
TurnsCanBeExcluded(n) ==
  \A p \in RouteNodes(n.ways) : \A f, t \in WaysAt(n.ways, p) :
    f # t /\ ~CanTurn(n.restrictions, p, f, t) =>
      /\ ~n.ways[f].area /\ ~n.ways[t].area
      /\ \A k, l \in DOMAIN Paths(n.ways, p) :
           Paths(n.ways, p)[k].way = t /\ Paths(n.ways, p)[l].way = t => k = l

\* A way to be used in one direction only that comes to a route node twice.
TouchesItself(way) ==
  /\ ~way.backward /\ ~way.area
  /\ \E k, l \in DOMAIN way.points : /\ k < l /\ way.points[k] = way.points[l]
                                    /\ way.points[k] \in DOMAIN graph

\* Where AddNodes goes on from the end of a way to its beginning, "we assume that the way
\* is either an area or is a roundabound.  TODO: proof this": it is closed, so that the
\* entry leads nowhere, or it is the exception, a one-way street that comes to a route node
\* twice - for every route, wherever on the way it begins and ends.
AroundClosedWays ==
  Found => \A j \in 1..Len(route) - 1 :
             LET way == ways[route[j].way]
             IN  \/ route[j].next - route[j].at \in {-1, 1}
                 \/ IsCircular(way) \/ TouchesItself(way)

\* A route starts next to the place asked for, ends next to the target, and takes
\* no turn that the map's restrictions forbid, no way against its direction and
\* none to which access is not restricted after one to which it is - although
\* nodes get a new predecessor whenever a cheaper way to them is found.  Its entries
\* lead point by point from the one place to the other, in the direction of the ways
\* too, but where a path around a loop is taken for one the other way around.
RouteIsLegal ==
  Found => /\ Chain[1] \in StartNodes
           /\ Chain[Len(Chain)].node \in targets
           /\ \A j \in 1..Len(Chain) - 1 : MayGoOn(Chain[j], Chain[j + 1])
           /\ Connects

\* The reference: the lowest cost of every node that can be reached, by as many
\* rounds as there are nodes.
Lowest ==
  LET Cheapest(S) == {x \in S : \A y \in S : y.node = x.node => x.cost <= y.cost}
      Usable(p)   == {graph[p].paths[k] : k \in {l \in DOMAIN graph[p].paths : graph[p].paths[l].usable}}
      round[n \in 0..Cardinality(Points)] ==
        IF n = 0 THEN {[node |-> s.node, cost |-> s.currentCost] : s \in StartNodes}
        ELSE LET S == round[n - 1]
             IN  Cheapest(S \union UNION {{[node |-> path.to, cost |-> x.cost + PathCost(path)] :
                                             path \in Usable(x.node)} : x \in S})
  IN  round[Cardinality(Points)]

\* No restriction of turns or access, and no way cheaper than the profile expects.
Unrestricted ==
  /\ network.restrictions = <<>>
  /\ \A k \in DOMAIN ways : ways[k].hasAccess /\ ways[k].factor >= EstimateFactor

\* On such a map the route found, to the target as the crow flies, costs more than the
\* cheapest at most by twice what it costs to get to a first route node: the estimate
\* of the start nodes is that of the start, which may be too high or too low by that
\* much.  From a route node the route is the cheapest.  "No route found!" is said only
\* when no target can be reached.
FindsCheapest ==
  Unrestricted =>
    /\ Found => \A x \in Lowest, s \in StartNodes :
         (x.node \in targets /\ \A o \in StartNodes : o.currentCost <= s.currentCost) =>
           current.currentCost + EstimateCost(current.node)
             <= x.cost + EstimateCost(x.node) + 2 * s.currentCost
    /\ NotFound => \A x \in Lowest : x.node \notin targets

==============================================================================
