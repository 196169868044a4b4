--------------------------- MODULE RouteDescription ---------------------------
(***************************************************************************)
(* The description of a route: after CalculateRoute the program turns the  *)
(* entries of RouteData into the nodes of a RouteDescription, which the    *)
(* postprocessors of DBThread annotate one after the other - distances,    *)
(* names, crossings, directions and at last the instructions - and which   *)
(* RoutingModel turns into the steps shown to the driver.                  *)
(*                                                                         *)
(* One iteration of InstructionPostprocessor over a node is one step, all  *)
(* that comes before it is the step Describe.                              *)
(***************************************************************************)
EXTENDS RouteSearch

CONSTANTS Bearing,              (* from a point to another, in degrees     *)
          CurveMaxNodeDistance, (* how far apart the nodes of a curve are, *)
          CurveMaxDistance      (* and how long it may be                  *)

ASSUME BearingAssumption == Bearing \in [Points -> [Points -> -180..180]]

VARIABLES
  phase,                    (* none, instruct, told, failed, crashed       *)
  description,              (* the nodes of the RouteDescription           *)
  node, lastNode,           (* the iterators of InstructionPostprocessor   *)
  inRoundabout, roundaboutCrossingCounter,
  steps,                    (* route.routeSteps                            *)
  drawn                     (* <<>>, or <<the way on the map>>             *)

loopVars     == <<node, lastNode, inRoundabout, roundaboutCrossingCounter>>
describeVars == <<phase, description, loopVars, steps, drawn>>

NoPoint == 0
NoName  == [name |-> "", ref |-> ""]

\* No iterator: end() of the list.
NoIndex == 0

EntryPoint(r, j) == ways[r[j].way].points[r[j].at]
OnTheWay(r)      == {j \in DOMAIN r : r[j].way # NoWay}

------------------------------------------------------------------------------
(* DistanceAndTimePostprocessor                                            *)

\* Mutant: distances are not added up.
NotAddedUp(r) ==
  [j \in DOMAIN r |->
     IF r[j].way = NoWay \/ j = 1 THEN [location |-> NoPoint, distance |-> 0, time |-> 0]
     ELSE [location |-> EntryPoint(r, j), time |-> 0,
           distance |-> Distance[EntryPoint(r, j - 1)][EntryPoint(r, j)]]]

\* The last node has no way: it stays where the node before it is, and the way
\* there is not counted.  The time to a node is that along the way from it.
DistanceAndTime(r) ==
  LET at[j \in OnTheWay(r)] ==
        LET delta == Distance[EntryPoint(r, j - 1)][EntryPoint(r, j)]
        IN  IF j = 1 THEN [location |-> EntryPoint(r, 1), distance |-> 0, time |-> 0]
            ELSE [location |-> EntryPoint(r, j),
                  distance |-> at[j - 1].distance + delta,
                  time     |-> at[j - 1].time + ways[r[j].way].factor * delta]
  IN  [j \in DOMAIN r |->
         IF r[j].way # NoWay THEN at[j]
         ELSE IF j = 1 THEN [location |-> NoPoint, distance |-> 0, time |-> 0] ELSE at[j - 1]]

------------------------------------------------------------------------------
(* WayNamePostprocessor                                                    *)

NameOf(k) == [name |-> ways[k].name, ref |-> ways[k].ref]

\* A bridge with a name of its own keeps the name of the road that leads over it.
WayNames(r) ==
  LET name[j \in OnTheWay(r)] ==
        LET own  == NameOf(r[j].way)
            last == name[j - 1]
        IN  IF ways[r[j].way].bridge /\ j > 1 /\ last.ref = own.ref /\ last.name # own.name
              THEN last ELSE own
  IN  name

------------------------------------------------------------------------------
(* CrossingWaysPostprocessor                                               *)

\* CanUseForward, CanUseBackward: by the first occurrence of the point.
CanUseForward(k, p)  == ways[k].forward  /\ IndexIn(ways[k], p) # Len(ways[k].points)
CanUseBackward(k, p) == ways[k].backward /\ IndexIn(ways[k], p) # 1

\* Junctions are the nodes that other ways cross, but the first and the last.
Junctions(r) == {j \in OnTheWay(r) : j > 1 /\ r[j].objects # {}}

\* The ways in every direction but that back to the node before.
ExitCount(r, j) ==
  LET p    == EntryPoint(r, j)
      last == r[j - 1]
      here == IndexIn(ways[last.way], p)
      IsForwardPath  == last.at > here
      IsBackwardPath == last.at < here
  IN  Cardinality({k \in r[j].objects :
                     /\ CanUseForward(k, p)
                     /\ last.way # k \/ ways[k].roundabout \/ ~IsForwardPath})
      + Cardinality({k \in r[j].objects :
                     /\ CanUseBackward(k, p)
                     /\ last.way # k \/ ~IsBackwardPath})

IsStartOrEnd(k, p) == p \in {ways[k].points[1], ways[k].points[Len(ways[k].points)]}

\* The ways that cross the route, by which the junction is described.
CrossingWays(r, j) ==
  LET origin == r[j - 1].way
      target == r[j].way
  IN  {k \in r[j].objects : /\ k \in {origin, target} => ~IsStartOrEnd(k, EntryPoint(r, j))
                            /\ origin = target => k # origin}

------------------------------------------------------------------------------
(* DirectionPostprocessor                                                  *)

NormalizeRelativeAngle(a) == IF a > 180 THEN a - 360 ELSE IF a < -180 THEN a + 360 ELSE a

Abs(a) == IF a < 0 THEN -a ELSE a

\* Of a point to itself both are what the formula gives.
BearingInitial(p, q) == IF p = q THEN 0 ELSE Bearing[p][q]
BearingFinal(p, q)   == IF p = q THEN -180 ELSE Bearing[p][q]

\* The turn of the edge before node k - 1 into that to node k.
Bend(r, k) ==
  NormalizeRelativeAngle(BearingInitial(EntryPoint(r, k - 1), EntryPoint(r, k))
                           - BearingInitial(EntryPoint(r, k - 2), EntryPoint(r, k - 1)))

\* The nodes after node j along which the road keeps on bending the same way.
CurveGoesOnTo(r, d, j, turn, k) ==
  /\ d[k].distance - d[k - 1].distance <= CurveMaxNodeDistance
  /\ d[k].distance - d[j].distance <= CurveMaxDistance
  /\ Abs(Bend(r, k)) >= 5
  /\ turn > 0 => Bend(r, k) > 0
  /\ turn < 0 => Bend(r, k) < 0

CurveEnd(r, d, j, turn) ==
  LET ends == {k \in j + 1..Len(r) : \A l \in j + 2..k : l \in OnTheWay(r) /\ CurveGoesOnTo(r, d, j, turn, l)}
  IN  CHOOSE k \in ends : \A l \in ends : l <= k

\* ConvertAngleToMove, without its side.
Move(angle) ==
  IF Abs(angle) <= 10 THEN "straightOn"
  ELSE IF Abs(angle) <= 45 THEN "slightly"
  ELSE IF Abs(angle) <= 120 THEN "turn" ELSE "sharp"

HasDirection(r, j) == j > 1 /\ j + 1 \in OnTheWay(r)

Direction(r, d, j) ==
  LET in    == BearingFinal(EntryPoint(r, j - 1), EntryPoint(r, j))
      turn  == NormalizeRelativeAngle(BearingInitial(EntryPoint(r, j), EntryPoint(r, j + 1)) - in)
      end   == CurveEnd(r, d, j, turn)
      curve == IF Abs(turn) >= 5 /\ Abs(turn) <= 10 /\ end > j + 1
                 THEN NormalizeRelativeAngle(BearingInitial(EntryPoint(r, end - 1), EntryPoint(r, end)) - in)
                 ELSE turn
  IN  [turn |-> turn, curve |-> curve]

------------------------------------------------------------------------------
(* PostprocessRouteDescription                                             *)

NodesOf(r) ==
  LET d == DistanceAndTime(r)
      n == WayNames(r)
  IN  [j \in DOMAIN r |->
         [way       |-> r[j].way,
          objects   |-> r[j].objects,
          location  |-> d[j].location, distance |-> d[j].distance, time |-> d[j].time,
          name      |-> IF r[j].way = NoWay THEN NoName ELSE n[j],
          crossing  |-> IF j \notin Junctions(r) THEN <<>>
                        ELSE <<[exits |-> ExitCount(r, j), ways |-> CrossingWays(r, j)]>>,
          direction |-> IF HasDirection(r, j) THEN <<Direction(r, d, j)>> ELSE <<>>,
          told      |-> <<>>]]

HasPath(j)    == description[j].way # NoWay
Roundabout(j) == HasPath(j) /\ ways[description[j].way].roundabout
Motorway(j)   == ways[description[j].way].type = "motorway"
Link(j)       == ways[description[j].way].type = "link"

------------------------------------------------------------------------------
(* RoutingListModel::setStartAndTarget: the way on the map                 *)

\* Mutant: only where the entries lead to.
TargetsOfEntries(r) ==
  [j \in 1..Cardinality(OnTheWay(r)) |-> ways[r[j].way].points[r[j].next]]

\* TransformRouteDataToWay: where the first entry begins, and where each leads to.
TransformRouteDataToWay(r) ==
  LET way[j \in 0..Len(r)] ==
        IF j = 0 THEN IF r = <<>> \/ r[1].way = NoWay THEN <<>> ELSE <<EntryPoint(r, 1)>>
        ELSE IF r[j].way = NoWay THEN way[j - 1]
        ELSE Append(way[j - 1], ways[r[j].way].points[r[j].next])
  IN  way[Len(r)]

\* A way or an area that cannot be read leaves the route of before on the map.
Draw == drawn' \in {drawn, <<TransformRouteDataToWay(route)>>}

------------------------------------------------------------------------------

\* All postprocessors up to the initial state of the last.
Describe ==
  /\ phase = "none" /\ pc = "done" /\ route # <<>>
  /\ description' = NodesOf(route)
  /\ phase' = "instruct"
  /\ node' = 1 /\ lastNode' = NoIndex
  /\ inRoundabout' = (route[1].way # NoWay /\ ways[route[1].way].roundabout)
  /\ roundaboutCrossingCounter' = 0
  /\ UNCHANGED <<vars, steps, drawn>>

\* A postprocessor cannot read an object: nobody looks at the result.
DescribeFails ==
  /\ phase = "none" /\ pc = "done" /\ route # <<>>
  /\ phase' = "failed"
  /\ Draw
  /\ UNCHANGED <<vars, description, loopVars, steps>>

\* Without a route the first node of an empty list is looked at.
DescribeNothing ==
  /\ phase = "none" /\ pc = "done" /\ result = "true" /\ route = <<>>
  /\ (phase' = "told" /\ Draw) \/ (phase' = "crashed" /\ UNCHANGED drawn)
  /\ UNCHANGED <<vars, description, loopVars, steps>>

------------------------------------------------------------------------------
(* InstructionPostprocessor                                                *)

Tell(j, instruction) == description' = [description EXCEPT ![j].told = <<instruction>>]

\* lastNode=j; node=j+1
GoOnFrom(j) == lastNode' = j /\ node' = j + 1

AtNode      == phase = "instruct" /\ node <= Len(description)
FirstOrLast == ~(lastNode # NoIndex /\ HasPath(lastNode) /\ HasPath(node))
Between     == AtNode /\ ~FirstOrLast

SkipNode ==
  /\ AtNode /\ FirstOrLast
  /\ GoOnFrom(node)
  /\ UNCHANGED <<vars, phase, description, inRoundabout, roundaboutCrossingCounter, steps, drawn>>

\* Mutant: the counter is not reset.
EnterRoundaboutAgain ==
  /\ Between /\ ~Roundabout(lastNode) /\ Roundabout(node)
  /\ inRoundabout' = TRUE
  /\ Tell(node, [kind |-> "roundaboutEnter"])
  /\ GoOnFrom(node)
  /\ UNCHANGED <<vars, phase, roundaboutCrossingCounter, steps, drawn>>

EnterRoundabout ==
  /\ Between /\ ~Roundabout(lastNode) /\ Roundabout(node)
  /\ inRoundabout' = TRUE
  /\ roundaboutCrossingCounter' = 0
  /\ Tell(node, [kind |-> "roundaboutEnter"])
  /\ GoOnFrom(node)
  /\ UNCHANGED <<vars, phase, steps, drawn>>

\* HandleRoundaboutNode: one of the exits of a crossing goes on around.
Exits(j) ==
  IF description[j].crossing # <<>> /\ description[j].crossing[1].exits > 1
    THEN description[j].crossing[1].exits - 1 ELSE 0

LeaveRoundabout ==
  /\ Between /\ Roundabout(lastNode) /\ ~Roundabout(node)
  /\ roundaboutCrossingCounter' = roundaboutCrossingCounter + Exits(node)
  /\ Tell(node, [kind |-> "roundaboutLeave", exits |-> roundaboutCrossingCounter'])
  /\ inRoundabout' = FALSE
  /\ GoOnFrom(node)
  /\ UNCHANGED <<vars, phase, steps, drawn>>

\* Neither on to a roundabout nor off it.
OnTheRoad == Between /\ (Roundabout(lastNode) <=> Roundabout(node))
OtherRoad(j) == ~Motorway(j) /\ ~Link(j)

EnterMotorway ==
  /\ OnTheRoad /\ OtherRoad(lastNode) /\ Motorway(node)
  /\ Tell(node, [kind |-> "motorwayEnter"])
  /\ GoOnFrom(node)
  /\ UNCHANGED <<vars, phase, inRoundabout, roundaboutCrossingCounter, steps, drawn>>

LeaveMotorway ==
  /\ OnTheRoad /\ Motorway(lastNode) /\ OtherRoad(node)
  /\ Tell(node, [kind |-> "motorwayLeave"])
  /\ GoOnFrom(node)
  /\ UNCHANGED <<vars, phase, inRoundabout, roundaboutCrossingCounter, steps, drawn>>

\* Mutant: only junctions of three ways are looked at.
TurnsAtThree(j) ==
  /\ Cardinality(description[j].objects) > 2
  /\ description[j].direction # <<>>
  /\ IF description[j - 1].name = description[j].name
       THEN Move(description[j].direction[1].curve) \notin {"slightly", "straightOn"}
       ELSE Move(description[j].direction[1].curve) # "straightOn"

\* HandleDirectionChange
Turns(j) ==
  /\ Cardinality(description[j].objects) > 1
  /\ description[j].direction # <<>>
  /\ IF description[j - 1].name = description[j].name
       THEN Move(description[j].direction[1].curve) \notin {"slightly", "straightOn"}
       ELSE Move(description[j].direction[1].curve) # "straightOn"

\* Mutant: a link has one node.
NextNode == node + 1

\* The first node after the links that begin at the current one.
LinkEnd ==
  LET ends == {k \in node + 1..Len(description) : ~HasPath(k) \/ ~Link(k)}
  IN  CHOOSE k \in ends : \A l \in ends : k <= l

OnToLink       == OnTheRoad /\ ~Link(lastNode) /\ Link(node)
LeadsToMotorway == HasPath(LinkEnd) /\ Motorway(LinkEnd)

\* The nodes along the links are left out.
ChangeMotorway ==
  /\ OnToLink /\ Motorway(lastNode) /\ LeadsToMotorway
  /\ Tell(node, [kind |-> "motorwayChange"])
  /\ GoOnFrom(LinkEnd)
  /\ UNCHANGED <<vars, phase, inRoundabout, roundaboutCrossingCounter, steps, drawn>>

LeaveMotorwayByLink ==
  /\ OnToLink /\ Motorway(lastNode) /\ ~LeadsToMotorway
  /\ LET left == [description EXCEPT ![node].told = <<[kind |-> "motorwayLeave"]>>]
     IN  description' = IF Turns(LinkEnd) THEN [left EXCEPT ![LinkEnd].told = <<[kind |-> "turn"]>>]
                        ELSE left
  /\ GoOnFrom(LinkEnd)
  /\ UNCHANGED <<vars, phase, inRoundabout, roundaboutCrossingCounter, steps, drawn>>

EnterMotorwayByLink ==
  /\ OnToLink /\ ~Motorway(lastNode) /\ LeadsToMotorway
  /\ Tell(node, [kind |-> "motorwayEnter"])
  /\ GoOnFrom(LinkEnd)
  /\ UNCHANGED <<vars, phase, inRoundabout, roundaboutCrossingCounter, steps, drawn>>

TakeLink ==
  /\ OnToLink /\ ~Motorway(lastNode) /\ ~LeadsToMotorway
  /\ GoOnFrom(node)
  /\ UNCHANGED <<vars, phase, description, inRoundabout, roundaboutCrossingCounter, steps, drawn>>

\* HandleNameChange: a name or a reference that is missing is no change.
NameChanges ==
  LET last == description[lastNode].name
      next == description[node].name
  IN  /\ last # next
      /\ last.ref = next.ref => (last.name = "" <=> next.name = "")
      /\ last.name # "" => last.name # next.name

\* The same kind of road goes on, or a link comes to its end.
SameRoad ==
  /\ OnTheRoad
  /\ OtherRoad(lastNode) => OtherRoad(node)
  /\ Motorway(lastNode) => Motorway(node)

GoOn ==
  /\ SameRoad
  /\ roundaboutCrossingCounter' = roundaboutCrossingCounter + (IF inRoundabout THEN Exits(node) ELSE 0)
  /\ IF ~inRoundabout /\ Turns(node) THEN Tell(node, [kind |-> "turn"])
     ELSE IF NameChanges THEN Tell(node, [kind |-> "nameChanged"])
     ELSE UNCHANGED description
  /\ GoOnFrom(node)
  /\ UNCHANGED <<vars, phase, inRoundabout, steps, drawn>>

------------------------------------------------------------------------------
(* RoutingListModel::setStartAndTarget: the steps                          *)

\* DumpStartDescription
StartSteps(name) == <<"start">> \o (IF name # NoName THEN <<"along">> ELSE <<>>)

\* The other Dump functions: the step a node is shown as.
Shown(d, j) ==
  IF j = 1 THEN StartSteps(d[1].name)
  ELSE IF j = Len(d) THEN <<"target">>
  ELSE [m \in DOMAIN d[j].told |-> d[j].told[m].kind]

\* Mutant: the place is set in the last step.
StepsPlacedLast(d) ==
  LET upTo[j \in 0..Len(d)] ==
        IF j = 0 THEN <<>>
        ELSE LET new == Shown(d, j)
             IN  upTo[j - 1] \o [m \in DOMAIN new |->
                    [kind |-> new[m], node |-> IF m = Len(new) THEN j ELSE NoIndex,
                     coord |-> IF m = Len(new) THEN d[j].location ELSE NoPoint]]
  IN  upTo[Len(d)]

\* Only the first step of a node gets its place, time and distance.
StepsOf(d) ==
  LET upTo[j \in 0..Len(d)] ==
        IF j = 0 THEN <<>>
        ELSE LET new == Shown(d, j)
             IN  upTo[j - 1] \o [m \in DOMAIN new |->
                    [kind |-> new[m], node |-> IF m = 1 THEN j ELSE NoIndex,
                     coord |-> IF m = 1 THEN d[j].location ELSE NoPoint]]
  IN  upTo[Len(d)]

ShowSteps ==
  /\ phase = "instruct" /\ node > Len(description)
  /\ steps' = StepsOf(description)
  /\ phase' = "told"
  /\ Draw
  /\ UNCHANGED <<vars, description, loopVars>>

------------------------------------------------------------------------------

DescribeInit ==
  /\ Init
  /\ phase = "none" /\ description = <<>> /\ steps = <<>> /\ drawn = <<>>
  /\ node = NoIndex /\ lastNode = NoIndex
  /\ inRoundabout = FALSE /\ roundaboutCrossingCounter = 0

Search == Next /\ UNCHANGED describeVars

DescribeNext ==
  \/ Search
  \/ Describe \/ DescribeFails \/ DescribeNothing
  \/ SkipNode \/ EnterRoundabout \/ LeaveRoundabout
  \/ EnterMotorway \/ LeaveMotorway
  \/ ChangeMotorway \/ LeaveMotorwayByLink \/ EnterMotorwayByLink \/ TakeLink
  \/ GoOn \/ ShowSteps

allVars == <<vars, describeVars>>

DescribeSpec == DescribeInit /\ [][DescribeNext]_allVars /\ WF_allVars(DescribeNext)

------------------------------------------------------------------------------
(* Properties                                                              *)

Told(j, kind) == description[j].told # <<>> /\ description[j].told[1].kind = kind
Nodes         == 2..Len(description) - 1

\* The end of links that are told as one manoeuvre, and what lies before it on them:
\* nothing there is looked at again, but for the turn at the end after a motorway.
LinksBefore(j) ==
  {s \in 2..j - 1 : /\ ~Link(s - 1) /\ \A k \in s..j - 1 : Link(k)
                    /\ Told(s, "motorwayEnter") \/ Told(s, "motorwayLeave") \/ Told(s, "motorwayChange")}
LeftOut(j) == LinksBefore(j) # {}

Enters(j) == ~Roundabout(j - 1) /\ Roundabout(j)
Leaves(j) == Roundabout(j - 1) /\ ~Roundabout(j)

\* Where the roundabout that is left at node j was entered; 1 if the route begins in it.
EnteredAt(j) == CHOOSE m \in 1..j - 1 : /\ \A k \in m..j - 1 : Roundabout(k)
                                        /\ m > 1 => ~Roundabout(m - 1)

\* The ways that lead out of the roundabout at a point.
WaysOut(p) ==
  Cardinality({k \in Junction(p) : ~ways[k].roundabout /\ CanUseForward(k, p)})
    + Cardinality({k \in Junction(p) : ~ways[k].roundabout /\ CanUseBackward(k, p)})

\* Those at all crossings up to a node.
WaysOutUpTo[j \in 0..Len(description)] ==
  IF j = 0 THEN 0
  ELSE WaysOutUpTo[j - 1] + (IF description[j].objects = {} THEN 0 ELSE WaysOut(description[j].location))

Meet(roads, k, l) ==
  \E a \in DOMAIN roads[k].points, b \in DOMAIN roads[l].points : roads[k].points[a] = roads[l].points[b]

\* Ways of a roundabout that meet are all links or none is.  Where the others lead on to
\* links from which a motorway leaves, the program does not see that it left.
RoundaboutsAreOfOneKind(roads) ==
  \A k, l \in DOMAIN roads :
    roads[k].roundabout /\ roads[l].roundabout /\ Meet(roads, k, l) =>
      (roads[k].type = "link" <=> roads[l].type = "link")

\* Roundabouts are of one type and one way, and from every crossing on them one of their
\* ways leads on: that is the exit that is not counted.
RoundaboutsGoAround(roads) ==
  LET Onwards(p) == {k \in WaysAt(roads, p) : /\ roads[k].roundabout /\ roads[k].forward
                                              /\ IndexIn(roads[k], p) # Len(roads[k].points)}
  IN  \A k \in DOMAIN roads :
        roads[k].roundabout =>
          /\ ~roads[k].backward
          /\ \A p \in PointsOf(roads[k]) : Cardinality(Onwards(p)) = 1
          /\ \A l \in DOMAIN roads : roads[l].roundabout /\ Meet(roads, k, l) => roads[k].type = roads[l].type

\* The first part of ManoeuvresAreTold.
\* Every roundabout is told where it is entered and where it is left, and nowhere
\* else, and the exit to take is the number of the ways out of it that the driver
\* has passed, the one taken included - wherever its ways begin and end, and
\* whatever roundabouts came before.  But where the link that leads off a motorway
\* ends in a roundabout, it is not told to enter it, and the number is wrong.
RoundaboutsAreTold ==
  \A j \in Nodes :
    /\ Told(j, "roundaboutEnter") => Enters(j)
    /\ Told(j, "roundaboutLeave") => Leaves(j)
    /\ Enters(j) /\ ~LeftOut(j) => Told(j, "roundaboutEnter")
    /\ Leaves(j) /\ ~LeftOut(j) => Told(j, "roundaboutLeave")
    /\ Leaves(j) /\ ~LeftOut(j) /\ ~LeftOut(EnteredAt(j)) =>
         description[j].told[1].exits = WaysOutUpTo[j] - WaysOutUpTo[EnteredAt(j)]

\* The reference: what a driver has to be told between node a of the route and the
\* next one, b, that is not on a link.
Manoeuvre(a, b) ==
  IF Motorway(a) /\ ~(HasPath(b) /\ Motorway(b)) THEN {"motorwayLeave"}
  ELSE IF ~Motorway(a) /\ HasPath(b) /\ Motorway(b) THEN {"motorwayEnter"}
  ELSE IF Motorway(a) /\ b > a + 1 THEN {"motorwayChange"}
  ELSE {}

MotorwayKinds == {"motorwayEnter", "motorwayLeave", "motorwayChange"}

\* The second part of ManoeuvresAreTold.
\* Where a motorway is entered, left or changed for another over links, that is told
\* once, at the first node that is not on the road before, however many links there
\* are; it is not told where links lead from street to street.  A route that
\* begins on a link enters its motorway untold, and a roundabout hides the change
\* of road at it.
MotorwaysAreTold ==
  \A a \in 1..Len(description) - 1 : \A b \in a + 1..Len(description) :
    (/\ ~Link(a) /\ \A k \in a + 1..b - 1 : Link(k)
     /\ HasPath(b) => ~Link(b)
     /\ b > a + 1 \/ HasPath(b)
     /\ \A k \in a..b - 1 : ~Roundabout(k)
     /\ b = a + 1 => ~Roundabout(b)) =>
      /\ {kind \in MotorwayKinds : Told(a + 1, kind)} = Manoeuvre(a, b)
      /\ \A k \in a + 2..b - 1, kind \in MotorwayKinds : ~Told(k, kind)

\* What the driver has to do at roundabouts and on motorways is told, once and where it is
\* to be done, with the right exit, and what is told is what the route does.
ManoeuvresAreTold == phase = "told" /\ description # <<>> => RoundaboutsAreTold /\ MotorwaysAreTold

\* The turn a driver makes at node j, if it comes from another point.
TurnAt(j) ==
  LET p == description[j - 1].location
      q == description[j].location
  IN  NormalizeRelativeAngle(Bearing[q][description[j + 1].location] - Bearing[p][q])

\* A driver who keeps straight on where nothing is told stays on the route: whatever
\* the ways, their names and their numbers of points, at every junction where
\* the route turns off something is told, and a turn is told only at a junction
\* where the road does not go straight on.  But the last junction before the target
\* has no direction; one at which a closed way begins and ends has that of a point to
\* itself; and a turn from a street on to a link that leads to another street is not
\* told.
TurnsAreTold ==
  phase = "told" /\ description # <<>> =>
    \A j \in 2..Len(description) - 2 :
      LET p == description[j - 1].location
          q == description[j].location
          r == description[j + 1].location
      IN  p # q /\ q # r =>
            /\ (/\ Cardinality(description[j].objects) > 1 /\ Abs(TurnAt(j)) > 45
                /\ ~(Roundabout(j - 1) /\ Roundabout(j)) /\ ~LeftOut(j)
                /\ Link(j) => Link(j - 1)) => description[j].told # <<>>
            /\ Told(j, "turn") => description[j].objects # {} /\ Abs(TurnAt(j)) >= 5

\* The first part of DescriptionFitsRoute.
\* The way on the map leads from the start to the target along ways, without a gap,
\* and has a point for every node; over the end of a closed way it has the same point
\* twice, and over that of a one-way street that touches itself it leads across country.
RouteIsDrawn ==
  drawn # <<>> /\ route # <<>> =>
    LET way == drawn[1]
    IN  IF Len(route) = 1 THEN way = <<>> /\ PointAt(from) = PointAt(to)
        ELSE /\ Len(way) = Len(route)
             /\ way[1] = PointAt(from) /\ way[Len(way)] = PointAt(to)
             /\ \A j \in DOMAIN description : j < Len(way) => description[j].location = way[j]
             /\ \A j \in 2..Len(way) :
                  \E k \in DOMAIN ways :
                    LET n == Len(ways[k].points)
                    IN  \/ \E m \in 2..n : {ways[k].points[m - 1], ways[k].points[m]} = {way[j - 1], way[j]}
                        \/ way[j - 1] = way[j] /\ way[j] = ways[k].points[1] /\ way[j] = ways[k].points[n]
                        \/ /\ TouchesItself(ways[k])
                           /\ way[j - 1] = ways[k].points[n] /\ way[j] = ways[k].points[1]

\* The second part of DescriptionFitsRoute.
\* Every node but the last has the place and the distance from the start that the
\* steps before it lead to, and every node with something to tell has one step,
\* in the order of the route, at the place of the node.  The last node has the place
\* and the distance of the one before.
StepsFitRoute ==
  phase = "told" /\ description # <<>> =>
    LET n       == Len(description)
        From(j) == ways[route[j].way].points[route[j].at]
        Goes(j) == ways[route[j].way].points[route[j].next]
        shown   == {m \in DOMAIN steps : steps[m].node # NoIndex}
    IN  /\ \A j \in 1..n - 1 :
             /\ description[j].location = From(j)
             /\ description[j].distance
                  = IF j = 1 THEN 0 ELSE description[j - 1].distance + Distance[From(j - 1)][Goes(j - 1)]
        /\ \A m \in shown : steps[m].coord = description[steps[m].node].location
        /\ \A m \in shown : steps[m].node = 1 => steps[m].kind = "start"
        /\ \A m, k \in shown : m < k => steps[m].node < steps[k].node
        /\ {steps[m].node : m \in shown} = {1, n} \union {j \in Nodes : description[j].told # <<>>}
        /\ \A m \in shown : steps[m].node \in Nodes => Told(steps[m].node, steps[m].kind)

\* What the driver sees on the map, reads in the list and is told at the nodes is one
\* and the same route, the one that was calculated.
DescriptionFitsRoute == RouteIsDrawn /\ StepsFitRoute

\* The search ends on every map, and so does the description of what it found.
Ends == <>(pc = "done" /\ (result = "false" \/ phase \in {"told", "failed", "crashed"}))

==============================================================================
