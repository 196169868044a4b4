------------------------------- MODULE Guidance -------------------------------
(***************************************************************************)
(* Guiding along a route: the position updates and buttons of main.qml,    *)
(* the RoutingListModel they ask, and the router of DBThread.              *)
(*                                                                         *)
(* All of it runs in the GUI thread; the handler of a position update is   *)
(* one step.  What happens in between: the user drives elsewhere, opens    *)
(* and closes dialogs, asks for routes, changes the vehicle or the map; a  *)
(* timer expires; renderings begin and end.                                *)
(*                                                                         *)
(* A route is named by what it was calculated from.  Where it leads and    *)
(* for which vehicles a map can be routed are parameters.                  *)
(***************************************************************************)
EXTENDS Naturals, Sequences

CONSTANTS
  Places, Maps, Vehicles,
  NoPlace, NoMap, NoRoute, NoRouter,
  Path(_, _, _, _),  (* map, vehicle, from, to -> places passed, or <<>>   *)
  OnRoad(_, _),      (* map, place -> is there a road nearby?              *)
  RouterOpens(_, _), (* map, vehicle -> can the graph be opened?           *)
  GarbageIsNear,     (* may a value that was never set look near?          *)
  AwayLimit,         (* updates off the route that are let pass (10)       *)
  MaxMoves,          (* bound: changes of the position                     *)
  MaxClicks,         (* bound: dialogs opened and routes asked for         *)
  MaxGestures        (* bound: gestures that start a rendering             *)

ASSUME GuidanceAssumption ==
  /\ NoPlace \notin Places /\ NoMap \notin Maps
  /\ GarbageIsNear \in SUBSET BOOLEAN /\ GarbageIsNear # {}
  /\ AwayLimit \in Nat /\ MaxMoves \in Nat /\ MaxClicks \in Nat /\ MaxGestures \in Nat
  /\ \A m \in Maps : \A v \in Vehicles : RouterOpens(m, v) \in BOOLEAN

Route  == [map : Maps, vehicle : Vehicles, from : Places, to : Places]
Router == [map : Maps, vehicle : Vehicles, open : BOOLEAN]

ASSUME NoRouteAssumption == NoRoute \notin Route /\ NoRouter \notin Router

VARIABLES
  position,            (* where the user is                                *)
  openMap,             (* the map the database is open for                 *)
  router,              (* the router, and the map it was opened for        *)
  vehicle,             (* the setting routing/vehicle                      *)
  routeData,           (* the route of the RoutingListModel,               *)
  routeSteps,          (* ... its instructions                             *)
  poiWays,             (* ... and the one drawn on the map                 *)
  routeFromLoc, routeToLoc,
  awayCounter,         (* updates in a row that were off the route         *)
  message,             (* reCalculatingMessage is visible                  *)
  allowRecalculation,
  timer,               (* stopRecalculationTimer is running                *)
  processUpdateEvents,
  dialog,              (* the dialog that is open                          *)
  rendering,           (* map.isRendering()                                *)
  masked,              (* history: the last update was near by garbage only *)
  alive,
  moves, clicks, gestures

mapVars    == <<openMap, router, vehicle>>
routeVars  == <<routeData, routeSteps, poiWays>>
targetVars == <<routeFromLoc, routeToLoc>>
awayVars   == <<awayCounter, message, allowRecalculation, timer, masked>>
windowVars == <<processUpdateEvents, dialog>>
counters   == <<moves, clicks, gestures>>
vars == <<position, mapVars, routeVars, targetVars, awayVars, windowVars, rendering, alive,
          counters>>

TypeOK ==
  /\ position \in Places
  /\ openMap \in Maps \union {NoMap}
  /\ router \in Router \union {NoRouter}
  /\ vehicle \in Vehicles
  /\ routeData \in Route \union {NoRoute}
  /\ routeSteps \in Route \union {NoRoute}
  /\ poiWays \in Route \union {NoRoute}
  /\ routeFromLoc \in Places \union {NoPlace}
  /\ routeToLoc \in Places \union {NoPlace}
  /\ awayCounter \in 0..AwayLimit
  /\ message \in BOOLEAN /\ allowRecalculation \in BOOLEAN /\ timer \in BOOLEAN
  /\ processUpdateEvents \in BOOLEAN
  /\ dialog \in {"none", "routing", "download", "other"}
  /\ rendering \in BOOLEAN /\ masked \in BOOLEAN /\ alive \in BOOLEAN
  /\ moves \in 0..MaxMoves /\ clicks \in 0..MaxClicks /\ gestures \in 0..MaxGestures

Init ==
  /\ position \in Places /\ openMap \in Maps /\ vehicle \in Vehicles
  /\ router = NoRouter
  /\ routeData = NoRoute /\ routeSteps = NoRoute /\ poiWays = NoRoute
  /\ routeFromLoc = NoPlace /\ routeToLoc = NoPlace
  /\ awayCounter = 0
  /\ message = FALSE /\ allowRecalculation = TRUE /\ timer = FALSE
  /\ processUpdateEvents = TRUE /\ dialog = "none"
  /\ rendering = FALSE /\ masked = FALSE /\ alive = TRUE
  /\ moves = 0 /\ clicks = 0 /\ gestures = 0

------------------------------------------------------------------------------
(* DBThread                                                                *)

\* AssureRouter(): a router for the vehicle.  One that could not be opened, or
\* has been closed with its database, is still one.
Assured ==
  IF openMap = NoMap THEN [ok |-> FALSE, router |-> router]
  ELSE IF router # NoRouter /\ router.vehicle = vehicle THEN [ok |-> TRUE, router |-> router]
  ELSE LET opens == RouterOpens(openMap, vehicle)
       IN  [ok |-> opens, router |-> [map |-> openMap, vehicle |-> vehicle, open |-> opens]]

\* CalculateRoute() answers TRUE, with or without a route.
Answered(from, to) ==
  /\ Assured.ok /\ Assured.router.open
  /\ OnRoad(openMap, from) /\ OnRoad(openMap, to)

\* RoutingService asks the graph for the target first, and IndexedDataFile::Get()
\* asserts that the file is open.
Aborts(to) == openMap # NoMap /\ ~Assured.router.open /\ OnRoad(openMap, to)

HasRoute(from, to) == Path(openMap, vehicle, from, to) # <<>>

\* Mutant: Finalize() leaves the router open.
RouterLeftOpen == router

\* Finalize(): the router is closed with the database.
RouterClosed ==
  IF router = NoRouter THEN router ELSE [router EXCEPT !.open = FALSE]

------------------------------------------------------------------------------
(* RoutingListModel                                                        *)

\* Mutant: the route before is only taken off the map when there is a new one.
CalculatedUndrawn(state, from, to) ==
  LET route == [map |-> openMap, vehicle |-> vehicle, from |-> from, to |-> to]
      found == IF HasRoute(from, to) THEN route ELSE NoRoute
  IN  IF Answered(from, to)
      THEN [data |-> found, steps |-> found, drawn |-> state.drawn]
      ELSE [data |-> IF openMap = NoMap THEN state.data ELSE NoRoute, steps |-> NoRoute,
            drawn |-> state.drawn]

\* setStartAndTarget(), on the state [data, steps, drawn] of the model and the
\* map: the instructions are dropped first, and an error leaves it at that.  It
\* needs a router three times: one that was not opened the first time is taken
\* for one the second time, and the route is emptied, whatever becomes of it.
Calculated(state, from, to) ==
  LET route == [map |-> openMap, vehicle |-> vehicle, from |-> from, to |-> to]
      found == IF HasRoute(from, to) THEN route ELSE NoRoute
  IN  IF Answered(from, to)
      THEN [data |-> found, steps |-> found, drawn |-> found]
      ELSE [data |-> IF openMap = NoMap THEN state.data ELSE NoRoute, steps |-> NoRoute,
            drawn |-> state.drawn]

State == [data |-> routeData, steps |-> routeSteps, drawn |-> poiWays]

\* The new route is drawn, which takes a rendering.
ShowRoute(state) ==
  /\ routeData' = state.data /\ routeSteps' = state.steps /\ poiWays' = state.drawn
  /\ rendering' = (rendering \/ state.drawn # poiWays)

\* The points of the route as getNext() finds them on the map that is open.
\* Those of a route on another map are what is in the files at its offsets.
OnTheRoute ==
  IF ~Assured.ok THEN {FALSE}
  ELSE IF routeData.map # openMap THEN BOOLEAN
  ELSE LET path == Path(routeData.map, routeData.vehicle, routeData.from, routeData.to)
       IN  {\E i \in DOMAIN path : path[i] = position}

\* Mutant: the counter starts again before the user is told.
GetNextSilent(away) ==
  IF routeSteps = NoRoute
  THEN away = FALSE /\ masked' = FALSE /\ UNCHANGED awayCounter
  ELSE \E near \in OnTheRoute : \E garbage \in IF Assured.ok THEN GarbageIsNear ELSE {FALSE} :
         /\ away = (~near /\ ~garbage /\ awayCounter > AwayLimit)
         /\ awayCounter' = IF near \/ garbage \/ awayCounter = AwayLimit THEN 0
                           ELSE awayCounter + 1
         /\ masked' = (garbage /\ ~near)

\* getNext(): is this update the one too many off the route?  The first of the
\* points is compared with one that does not exist.
GetNext(away) ==
  IF routeSteps = NoRoute
  THEN away = FALSE /\ masked' = FALSE /\ UNCHANGED awayCounter
  ELSE \E near \in OnTheRoute : \E garbage \in IF Assured.ok THEN GarbageIsNear ELSE {FALSE} :
         /\ away = (~near /\ ~garbage /\ awayCounter = AwayLimit)
         /\ awayCounter' = IF near \/ garbage \/ awayCounter = AwayLimit THEN 0
                           ELSE awayCounter + 1
         /\ masked' = (garbage /\ ~near)

------------------------------------------------------------------------------
(* main.qml                                                                *)

\* Mutant: the place the old route began at is forgotten.
RecalculateForgetting ==
  LET from == position
      new  == Calculated(State, from, routeToLoc)
  IN  /\ routeFromLoc' = from
      /\ ShowRoute(new)
      /\ UNCHANGED alive

\* A route from where the user is; if there is none, the one before again.
\* There may be no place that one began at.
Recalculate ==
  LET new == Calculated(State, position, routeToLoc)
  IN  IF routeToLoc = NoPlace
      THEN routeFromLoc' = position /\ UNCHANGED <<routeVars, rendering, alive>>
      ELSE IF Aborts(routeToLoc)
      THEN alive' = FALSE /\ ShowRoute(new) /\ UNCHANGED routeFromLoc
      ELSE IF new.steps # NoRoute
      THEN routeFromLoc' = position /\ ShowRoute(new) /\ UNCHANGED alive
      ELSE IF routeFromLoc = NoPlace
      THEN alive' = FALSE /\ UNCHANGED <<routeFromLoc, routeVars, rendering>>
      ELSE ShowRoute(Calculated(new, routeFromLoc, routeToLoc)) /\ UNCHANGED <<routeFromLoc, alive>>

\* After a recalculation the next one has to wait for the timer.
Recalculated ==
  /\ message' = FALSE /\ allowRecalculation' = FALSE
  /\ timer' = TRUE

\* The message has been seen, and nothing is being drawn.
Due == message /\ allowRecalculation /\ ~rendering

\* onPositionChanged: guides on; or shows the message, and recalculates at the
\* next update for which no rendering is under way.
PositionUpdate ==
  /\ alive /\ processUpdateEvents
  /\ \E away \in BOOLEAN :
       /\ GetNext(away)
       /\ \/ /\ ~away /\ ~message
             /\ rendering' \in {rendering, TRUE}
             /\ UNCHANGED <<message, allowRecalculation, timer, routeVars, routeFromLoc, alive>>
          \/ /\ away /\ ~message /\ allowRecalculation
             /\ message' = TRUE
             /\ UNCHANGED <<allowRecalculation, timer, routeVars, routeFromLoc, rendering, alive>>
          \/ /\ Due
             /\ Recalculate /\ Recalculated
          \/ /\ away \/ message
             /\ ~allowRecalculation \/ (message /\ rendering)
             /\ UNCHANGED <<message, allowRecalculation, timer, routeVars, routeFromLoc, rendering,
                            alive>>
  /\ router' = IF routeSteps # NoRoute \/ (Due /\ routeToLoc # NoPlace) THEN Assured.router ELSE router
  /\ UNCHANGED <<position, openMap, vehicle, routeToLoc, windowVars, counters>>

TimerExpires ==
  /\ alive /\ timer
  /\ timer' = FALSE /\ allowRecalculation' = TRUE
  /\ UNCHANGED <<position, mapVars, routeVars, targetVars, awayCounter, message, masked, windowVars,
                 rendering, alive, counters>>

Click == alive /\ clicks < MaxClicks /\ clicks' = clicks + 1

\* "Navigate here": from the position to a place on the map.
NavigateHere(place) ==
  /\ Click /\ dialog = "none"
  /\ routeFromLoc' = position /\ routeToLoc' = place
  /\ ShowRoute(Calculated(State, position, place))
  /\ router' = Assured.router
  /\ alive' = ~Aborts(place)
  /\ processUpdateEvents' = TRUE
  /\ UNCHANGED <<position, openMap, vehicle, awayVars, dialog, moves, gestures>>

OpenDialog(name) ==
  /\ Click /\ dialog = "none"
  /\ dialog' = name
  /\ processUpdateEvents' = FALSE
  /\ UNCHANGED <<position, mapVars, routeVars, targetVars, awayVars, rendering, alive, moves,
                 gestures>>

\* "Route" in the routing dialog, where a place may not have been found.
ClickRoute(from, to) ==
  /\ Click /\ dialog = "routing"
  /\ IF from # NoPlace /\ to # NoPlace
     THEN ShowRoute(Calculated(State, from, to)) /\ router' = Assured.router /\ alive' = ~Aborts(to)
     ELSE UNCHANGED <<routeVars, rendering, router, alive>>
  /\ routeFromLoc' = from /\ routeToLoc' = to
  /\ UNCHANGED <<position, openMap, vehicle, awayVars, windowVars, moves, gestures>>

ChooseVehicle(v) ==
  /\ Click /\ dialog = "routing"
  /\ vehicle' = v
  /\ UNCHANGED <<position, openMap, router, routeVars, targetVars, awayVars, windowVars, rendering,
                 alive, moves, gestures>>

\* The routing, settings, favourites and about dialogs tell that they are closed.
CloseDialog ==
  /\ alive /\ dialog \in {"routing", "other"}
  /\ dialog' = "none" /\ processUpdateEvents' = TRUE
  /\ UNCHANGED <<position, mapVars, routeVars, targetVars, awayVars, rendering, alive, counters>>

\* The download dialog opens the map again, or another, and tells nobody.
CloseDownloadDialog ==
  /\ alive /\ dialog = "download"
  /\ dialog' = "none"
  /\ openMap' \in Maps \union {NoMap}
  /\ router' = RouterClosed
  /\ rendering' = TRUE
  /\ UNCHANGED <<position, vehicle, routeVars, targetVars, awayVars, processUpdateEvents, alive,
                 counters>>

\* The user is somewhere else.
Move ==
  /\ alive /\ moves < MaxMoves /\ moves' = moves + 1
  /\ position' \in Places \ {position}
  /\ UNCHANGED <<mapVars, routeVars, targetVars, awayVars, windowVars, rendering, alive, clicks,
                 gestures>>

Gesture ==
  /\ alive /\ gestures < MaxGestures /\ gestures' = gestures + 1
  /\ rendering' = TRUE
  /\ UNCHANGED <<position, mapVars, routeVars, targetVars, awayVars, windowVars, alive, moves, clicks>>

RenderingEnds ==
  /\ alive /\ rendering
  /\ rendering' = FALSE
  /\ UNCHANGED <<position, mapVars, routeVars, targetVars, awayVars, windowVars, alive, counters>>

User ==
  \/ \E place \in Places : NavigateHere(place)
  \/ \E name \in {"routing", "download", "other"} : OpenDialog(name)
  \/ \E from, to \in Places \union {NoPlace} : ClickRoute(from, to)
  \/ \E v \in Vehicles : ChooseVehicle(v)
  \/ CloseDialog \/ CloseDownloadDialog \/ Move \/ Gesture

Next == PositionUpdate \/ TimerExpires \/ RenderingEnds \/ User

Spec == Init /\ [][Next]_vars

\* Positions keep coming, timers expire, renderings end and dialogs are closed.
FairSpec ==
  /\ Spec
  /\ WF_vars(PositionUpdate) /\ WF_vars(TimerExpires) /\ WF_vars(RenderingEnds)
  /\ WF_vars(CloseDialog)

------------------------------------------------------------------------------

(* The instructions, the route against which the position is checked and   *)
(* the line on the map are one route, whatever was asked for, recalculated *)
(* or could not be calculated; without instructions there may be a line    *)
(* left.                                                                   *)
GuidesWhatIsDrawn ==
  routeSteps # NoRoute => routeData = routeSteps /\ poiWays = routeSteps

(* No router reads the graph of one map for the roads of another.          *)
RouterFitsMap ==
  router # NoRouter /\ router.open => router.map = openMap

\* The route that is followed was calculated for what is set now.
RouteFits ==
  /\ routeSteps # NoRoute
  /\ routeSteps = [map |-> openMap, vehicle |-> vehicle, from |-> routeFromLoc, to |-> routeToLoc]
  /\ router # NoRouter /\ router.vehicle = vehicle /\ router.open

(* A recalculation never costs the user the route: when there is none from *)
(* where he is, the old one is there again, unless map, vehicle or places  *)
(* have been changed since it was calculated, or the map was opened anew.  *)
RouteSurvives ==
  [][PositionUpdate /\ RouteFits
     => alive' /\ routeSteps' # NoRoute /\ routeSteps'.to = routeToLoc]_vars

\* The download dialog switches the position updates off, also for when it is
\* closed again.
Deaf == dialog \in {"none", "download"} /\ ~processUpdateEvents

\* The user is off his route, and there is one from where he is.
Lost ==
  /\ alive /\ ~Deaf /\ ~masked
  /\ routeSteps # NoRoute /\ routeSteps.map = openMap /\ routeToLoc # NoPlace
  /\ \A near \in OnTheRoute : ~near
  /\ Answered(position, routeToLoc) /\ HasRoute(position, routeToLoc)

(* A user who has left the route gets a new one from where he is.          *)
EventuallyGuided == []<>~Lost

==============================================================================
