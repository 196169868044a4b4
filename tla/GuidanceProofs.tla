---------------------------- MODULE GuidanceProofs ----------------------------
(***************************************************************************)
(* For any maps, roads, places and vehicles, and any number of moves,      *)
(* clicks and gestures: the types, that no router reads the graph of       *)
(* another map, that the instructions, the checked route and the drawn one *)
(* are the same, and that a recalculation does not lose the route.         *)
(***************************************************************************)
EXTENDS Guidance, TLAPS

\* A route of the model is one that could be calculated.
Calculable(route) ==
  /\ OnRoad(route.map, route.from) /\ OnRoad(route.map, route.to)
  /\ Path(route.map, route.vehicle, route.from, route.to) # <<>>

\* Without it an old route need not be found again: RouteSurvives rests on it.
FollowsCalculated == routeSteps # NoRoute => Calculable(routeSteps)

Inv == TypeOK /\ RouterFitsMap /\ GuidesWhatIsDrawn /\ FollowsCalculated

\* The states of the RoutingListModel and the map that agree.
Fits(state) ==
  /\ state.data \in Route \union {NoRoute}
  /\ state.steps \in Route \union {NoRoute}
  /\ state.drawn \in Route \union {NoRoute}
  /\ state.steps # NoRoute =>
       state.data = state.steps /\ state.drawn = state.steps /\ Calculable(state.steps)

------------------------------------------------------------------------------
(* The router and the calculation                                          *)

LEMMA AssuredFits ==
  ASSUME TypeOK, RouterFitsMap
  PROVE  /\ Assured.ok \in BOOLEAN
         /\ Assured.router \in Router \union {NoRouter}
         /\ Assured.ok => openMap \in Maps /\ Assured.router \in Router
         /\ Assured.router # NoRouter /\ Assured.router.open => Assured.router.map = openMap
<1>1. CASE openMap = NoMap
  BY <1>1 DEF Assured, TypeOK, RouterFitsMap
<1>2. CASE openMap # NoMap /\ router # NoRouter /\ router.vehicle = vehicle
  BY <1>2 DEF Assured, TypeOK, RouterFitsMap
<1>3. CASE openMap # NoMap /\ ~(router # NoRouter /\ router.vehicle = vehicle)
  <2>1. openMap \in Maps /\ vehicle \in Vehicles /\ RouterOpens(openMap, vehicle) \in BOOLEAN
    BY <1>3, GuidanceAssumption DEF TypeOK
  <2>2. Assured = [ok |-> RouterOpens(openMap, vehicle),
                   router |-> [map |-> openMap, vehicle |-> vehicle,
                               open |-> RouterOpens(openMap, vehicle)]]
    BY <1>3 DEF Assured
  <2> QED BY <2>1, <2>2 DEF Router
<1> QED BY <1>1, <1>2, <1>3

\* An answer takes a map, and what it finds is a route on it.
LEMMA CalculatedFits ==
  ASSUME TypeOK, RouterFitsMap,
         NEW state, Fits(state), NEW from \in Places, NEW to \in Places
  PROVE  Fits(Calculated(state, from, to))
<1> DEFINE route == [map |-> openMap, vehicle |-> vehicle, from |-> from, to |-> to]
<1>1. CASE Answered(from, to)
  <2>1. openMap \in Maps /\ vehicle \in Vehicles
    BY <1>1, AssuredFits DEF Answered, TypeOK
  <2>2. route \in Route
    BY <2>1 DEF Route
  <2>3. CASE HasRoute(from, to)
    <3>1. Calculated(state, from, to) = [data |-> route, steps |-> route, drawn |-> route]
      BY <1>1, <2>3 DEF Calculated
    <3>2. Calculable(route)
      BY <1>1, <2>3 DEF Calculable, Answered, HasRoute
    <3> QED BY <2>2, <3>1, <3>2 DEF Fits
  <2>4. CASE ~HasRoute(from, to)
    BY <1>1, <2>4 DEF Calculated, Fits
  <2> QED BY <2>3, <2>4
<1>2. CASE ~Answered(from, to)
  BY <1>2 DEF Calculated, Fits
<1> QED BY <1>1, <1>2

LEMMA StateFits ==
  ASSUME Inv
  PROVE  Fits(State)
BY DEF Inv, TypeOK, GuidesWhatIsDrawn, FollowsCalculated, Fits, State

\* What is shown is what the invariant says of the three routes.
RoutesFit ==
  /\ routeData \in Route \union {NoRoute} /\ routeSteps \in Route \union {NoRoute}
  /\ poiWays \in Route \union {NoRoute}
  /\ GuidesWhatIsDrawn /\ FollowsCalculated

LEMMA ShowRouteFits ==
  ASSUME NEW state, Fits(state), ShowRoute(state), rendering \in BOOLEAN
  PROVE  RoutesFit' /\ rendering' \in BOOLEAN
BY DEF Fits, ShowRoute, RoutesFit, GuidesWhatIsDrawn, FollowsCalculated, Calculable

LEMMA RoutesKept ==
  ASSUME Inv, UNCHANGED routeVars
  PROVE  RoutesFit'
BY DEF Inv, TypeOK, RoutesFit, routeVars, GuidesWhatIsDrawn, FollowsCalculated, Calculable

------------------------------------------------------------------------------
(* The steps                                                               *)

LEMMA RecalculateFits ==
  ASSUME Inv, Recalculate
  PROVE  /\ RoutesFit' /\ rendering' \in BOOLEAN /\ alive' \in BOOLEAN
         /\ routeFromLoc' \in Places \union {NoPlace}
<1> DEFINE new == Calculated(State, position, routeToLoc)
<1> USE DEF Inv
<1>1. position \in Places /\ rendering \in BOOLEAN /\ alive \in BOOLEAN
      /\ routeFromLoc \in Places \union {NoPlace} /\ routeToLoc \in Places \union {NoPlace}
  BY DEF TypeOK
<1>2. CASE UNCHANGED routeVars /\ UNCHANGED rendering
  BY <1>1, <1>2, RoutesKept DEF Recalculate, ShowRoute
<1>3. CASE routeToLoc # NoPlace /\ Aborts(routeToLoc)
  <2>1. Fits(new)
    BY <1>1, <1>3, StateFits, CalculatedFits
  <2>2. ShowRoute(new) /\ alive' = FALSE /\ UNCHANGED routeFromLoc
    BY <1>3 DEF Recalculate
  <2> HIDE DEF new
  <2> QED BY <1>1, <2>1, <2>2, ShowRouteFits
<1>4. CASE routeToLoc # NoPlace /\ ~Aborts(routeToLoc) /\ new.steps # NoRoute
  <2>1. Fits(new)
    BY <1>1, <1>4, StateFits, CalculatedFits
  <2>2. ShowRoute(new) /\ routeFromLoc' = position /\ UNCHANGED alive
    BY <1>4 DEF Recalculate
  <2> HIDE DEF new
  <2> QED BY <1>1, <2>1, <2>2, ShowRouteFits
<1>5. CASE /\ routeToLoc # NoPlace /\ ~Aborts(routeToLoc)
           /\ new.steps = NoRoute /\ routeFromLoc # NoPlace
  <2>1. Fits(new)
    BY <1>1, <1>5, StateFits, CalculatedFits
  <2>2. ShowRoute(Calculated(new, routeFromLoc, routeToLoc)) /\ UNCHANGED <<routeFromLoc, alive>>
    BY <1>5 DEF Recalculate
  <2> HIDE DEF new
  <2>3. Fits(Calculated(new, routeFromLoc, routeToLoc))
    BY <1>1, <1>5, <2>1, CalculatedFits
  <2> QED BY <1>1, <2>2, <2>3, ShowRouteFits
<1> QED BY <1>2, <1>3, <1>4, <1>5 DEF Recalculate

LEMMA GetNextTypes ==
  ASSUME TypeOK, NEW away, GetNext(away)
  PROVE  awayCounter' \in 0..AwayLimit /\ masked' \in BOOLEAN
<1>1. CASE routeSteps = NoRoute
  BY <1>1 DEF GetNext, TypeOK
<1>2. CASE routeSteps # NoRoute
  <2>1. PICK near, garbage \in BOOLEAN :
          /\ awayCounter' = IF near \/ garbage \/ awayCounter = AwayLimit THEN 0
                            ELSE awayCounter + 1
          /\ masked' = (garbage /\ ~near)
    <3>1. OnTheRoute \subseteq BOOLEAN
      BY DEF OnTheRoute
    <3>2. (IF Assured.ok THEN GarbageIsNear ELSE {FALSE}) \subseteq BOOLEAN
      BY GuidanceAssumption
    <3> QED BY <1>2, <3>1, <3>2 DEF GetNext
  <2>2. awayCounter \in 0..AwayLimit /\ AwayLimit \in Nat
    BY GuidanceAssumption DEF TypeOK
  <2> QED BY <2>1, <2>2
<1> QED BY <1>1, <1>2

\* Only the database of a map that was open can be read.
LEMMA RouterKept ==
  ASSUME Inv, UNCHANGED openMap, router' \in {router, Assured.router}
  PROVE  router' \in Router \union {NoRouter} /\ RouterFitsMap'
<1>1. TypeOK /\ RouterFitsMap
  BY DEF Inv
<1>2. CASE router' = router
  BY <1>1, <1>2 DEF TypeOK, RouterFitsMap
<1>3. CASE router' = Assured.router
  BY <1>1, <1>3, AssuredFits DEF RouterFitsMap
<1> QED BY <1>2, <1>3

LEMMA PositionUpdateStep ==
  ASSUME Inv, PositionUpdate
  PROVE  Inv'
<1> USE DEF Inv
<1>1. PICK away \in BOOLEAN : GetNext(away)
  BY DEF PositionUpdate
<1>2. awayCounter' \in 0..AwayLimit /\ masked' \in BOOLEAN
  BY <1>1, GetNextTypes
<1>3. /\ RoutesFit' /\ rendering' \in BOOLEAN /\ alive' \in BOOLEAN
      /\ routeFromLoc' \in Places \union {NoPlace}
  <2>1. CASE Recalculate
    BY <2>1, RecalculateFits
  <2>2. CASE UNCHANGED <<routeVars, routeFromLoc, alive>> /\ rendering' \in {rendering, TRUE}
    BY <2>2, RoutesKept DEF TypeOK
  <2> QED BY <2>1, <2>2 DEF PositionUpdate
<1>4. message' \in BOOLEAN /\ allowRecalculation' \in BOOLEAN /\ timer' \in BOOLEAN
  BY DEF PositionUpdate, Recalculated, TypeOK
<1>5. router' \in Router \union {NoRouter} /\ RouterFitsMap'
  BY RouterKept DEF PositionUpdate
<1>6. UNCHANGED <<position, openMap, vehicle, routeToLoc, windowVars, counters>>
  BY DEF PositionUpdate
<1> QED
  BY <1>2, <1>3, <1>4, <1>5, <1>6 DEF TypeOK, RoutesFit, windowVars, counters

\* Both buttons that ask for a route.
LEMMA CalculationStep ==
  ASSUME Inv, NEW from \in Places, NEW to \in Places,
         ShowRoute(Calculated(State, from, to)), router' = Assured.router,
         UNCHANGED <<position, openMap, vehicle, awayVars, moves, gestures>>, alive' \in BOOLEAN,
         routeFromLoc' = from, routeToLoc' = to, clicks' \in 0..MaxClicks,
         processUpdateEvents' \in BOOLEAN, UNCHANGED dialog
  PROVE  Inv'
<1> USE DEF Inv
<1>1. Fits(Calculated(State, from, to))
  BY StateFits, CalculatedFits
<1>2. RoutesFit' /\ rendering' \in BOOLEAN
  BY <1>1, ShowRouteFits DEF TypeOK
<1>3. router' \in Router \union {NoRouter} /\ RouterFitsMap'
  BY RouterKept
<1> QED BY <1>2, <1>3 DEF TypeOK, RoutesFit, awayVars

LEMMA ClickCounts ==
  ASSUME TypeOK, Click
  PROVE  alive /\ clicks' \in 0..MaxClicks /\ clicks < MaxClicks
BY GuidanceAssumption DEF Click, TypeOK

LEMMA NavigateHereStep ==
  ASSUME Inv, NEW place \in Places, NavigateHere(place)
  PROVE  Inv'
<1>1. position \in Places /\ clicks' \in 0..MaxClicks
  BY ClickCounts DEF Inv, TypeOK, NavigateHere
<1>2. alive' \in BOOLEAN
  BY DEF NavigateHere
<1> QED BY <1>1, <1>2, CalculationStep DEF NavigateHere

LEMMA ClickRouteStep ==
  ASSUME Inv, NEW from \in Places \union {NoPlace}, NEW to \in Places \union {NoPlace},
         ClickRoute(from, to)
  PROVE  Inv'
<1>1. clicks' \in 0..MaxClicks
  BY ClickCounts DEF Inv, ClickRoute
<1>2. CASE from # NoPlace /\ to # NoPlace
  <2>1. from \in Places /\ to \in Places
    BY <1>2
  <2>2. processUpdateEvents' \in BOOLEAN /\ UNCHANGED dialog /\ alive' \in BOOLEAN
    BY <1>2 DEF ClickRoute, windowVars, Inv, TypeOK
  <2> QED BY <1>1, <1>2, <2>1, <2>2, CalculationStep DEF ClickRoute
<1>3. CASE ~(from # NoPlace /\ to # NoPlace)
  <2>1. UNCHANGED <<routeVars, rendering, router, alive>>
    BY <1>3 DEF ClickRoute
  <2>2. RoutesFit'
    BY <2>1, RoutesKept
  <2> QED BY <1>1, <2>1, <2>2 DEF Inv, TypeOK, RoutesFit, RouterFitsMap, ClickRoute, awayVars, windowVars
<1> QED BY <1>2, <1>3

\* The router of the map before is closed, so it reads nothing any more.
LEMMA CloseDownloadDialogStep ==
  ASSUME Inv, CloseDownloadDialog
  PROVE  Inv'
<1> USE DEF Inv
<1>1. RouterClosed \in Router \union {NoRouter} /\ (RouterClosed # NoRouter => ~RouterClosed.open)
  <2>1. CASE router = NoRouter
    BY <2>1 DEF RouterClosed
  <2>2. CASE router # NoRouter
    <3>1. router \in [map : Maps, vehicle : Vehicles, open : BOOLEAN]
      BY <2>2 DEF TypeOK, Router
    <3>2. RouterClosed = [router EXCEPT !.open = FALSE]
      BY <2>2 DEF RouterClosed
    <3>3. /\ [router EXCEPT !.open = FALSE] \in [map : Maps, vehicle : Vehicles, open : BOOLEAN]
          /\ ~[router EXCEPT !.open = FALSE].open
      BY <3>1
    <3> QED BY <3>2, <3>3 DEF Router
  <2> QED BY <2>1, <2>2
<1>2. RouterFitsMap'
  BY <1>1 DEF CloseDownloadDialog, RouterFitsMap
<1>3. RoutesFit'
  BY RoutesKept DEF CloseDownloadDialog
<1> QED BY <1>1, <1>2, <1>3 DEF TypeOK, RoutesFit, CloseDownloadDialog, targetVars, awayVars, counters

\* What touches neither the map nor the routes.
LEMMA OtherSteps ==
  ASSUME Inv,
         \/ TimerExpires \/ RenderingEnds \/ CloseDialog \/ Move \/ Gesture
         \/ \E name \in {"routing", "download", "other"} : OpenDialog(name)
         \/ \E v \in Vehicles : ChooseVehicle(v)
  PROVE  Inv'
<1> USE DEF Inv
<1>1. UNCHANGED routeVars /\ UNCHANGED <<openMap, router>>
  BY DEF TimerExpires, RenderingEnds, CloseDialog, Move, Gesture, OpenDialog, ChooseVehicle, mapVars
<1>2. RoutesFit' /\ RouterFitsMap'
  BY <1>1, RoutesKept DEF RouterFitsMap
<1>3. TypeOK'
  <2> USE DEF TypeOK, RoutesFit, mapVars, targetVars, awayVars, windowVars, counters
  <2>1. CASE TimerExpires
    BY <1>2, <2>1 DEF TimerExpires
  <2>2. CASE RenderingEnds
    BY <1>2, <2>2 DEF RenderingEnds
  <2>3. CASE CloseDialog
    BY <1>2, <2>3 DEF CloseDialog
  <2>4. CASE Move
    BY <1>2, <2>4, GuidanceAssumption DEF Move
  <2>5. CASE Gesture
    BY <1>2, <2>5, GuidanceAssumption DEF Gesture
  <2>6. ASSUME NEW name \in {"routing", "download", "other"}, OpenDialog(name)
        PROVE  TypeOK'
    BY <1>2, <2>6, ClickCounts DEF OpenDialog
  <2>7. ASSUME NEW v \in Vehicles, ChooseVehicle(v)
        PROVE  TypeOK'
    BY <1>2, <2>7, ClickCounts DEF ChooseVehicle
  <2> QED BY <2>1, <2>2, <2>3, <2>4, <2>5, <2>6, <2>7
<1> QED BY <1>2, <1>3 DEF RoutesFit

------------------------------------------------------------------------------
(* The theorems                                                            *)

\* Inv holds at first, and no step breaks it.
THEOREM Invariance == Spec => []Inv
<1>1. Init => Inv
  <2> SUFFICES ASSUME Init PROVE Inv
    OBVIOUS
  <2>1. awayCounter \in 0..AwayLimit /\ moves \in 0..MaxMoves /\ clicks \in 0..MaxClicks
        /\ gestures \in 0..MaxGestures
    BY GuidanceAssumption DEF Init
  <2>2. TypeOK
    BY <2>1 DEF Init, TypeOK
  <2>3. RouterFitsMap /\ GuidesWhatIsDrawn /\ FollowsCalculated
    BY DEF Init, RouterFitsMap, GuidesWhatIsDrawn, FollowsCalculated
  <2> QED BY <2>2, <2>3 DEF Inv
<1>2. Inv /\ [Next]_vars => Inv'
  <2> SUFFICES ASSUME Inv, [Next]_vars PROVE Inv'
    OBVIOUS
  <2>1. CASE UNCHANGED vars
    BY <2>1 DEF Inv, TypeOK, RouterFitsMap, GuidesWhatIsDrawn, FollowsCalculated, Calculable, vars,
                mapVars, routeVars, targetVars, awayVars, windowVars, counters
  <2>2. CASE PositionUpdate
    BY <2>2, PositionUpdateStep
  <2>3. ASSUME NEW place \in Places, NavigateHere(place)
        PROVE  Inv'
    BY <2>3, NavigateHereStep
  <2>4. ASSUME NEW from \in Places \union {NoPlace}, NEW to \in Places \union {NoPlace},
               ClickRoute(from, to)
        PROVE  Inv'
    BY <2>4, ClickRouteStep
  <2>5. CASE CloseDownloadDialog
    BY <2>5, CloseDownloadDialogStep
  <2> QED BY <2>1, <2>2, <2>3, <2>4, <2>5, OtherSteps DEF Next, User
<1> QED BY <1>1, <1>2, PTL DEF Spec

\* The variables have their types.
THEOREM TypeCorrect == Spec => []TypeOK
<1>1. Inv => TypeOK
  BY DEF Inv
<1> QED BY <1>1, Invariance, PTL

\* No router that is open reads the graph of another map than the one that is open:
\* AssureRouter() opens it for that map, and Finalize() closes it with the map.
THEOREM RouterNeverStale == Spec => []RouterFitsMap
<1>1. Inv => RouterFitsMap
  BY DEF Inv
<1> QED BY <1>1, Invariance, PTL

\* setStartAndTarget() never leaves instructions for another route than the one that
\* is checked and drawn, however many calculations fail in between.
THEOREM OneRouteGuides == Spec => []GuidesWhatIsDrawn
<1>1. Inv => GuidesWhatIsDrawn
  BY DEF Inv
<1> QED BY <1>1, Invariance, PTL

LEMMA RouteIsFoundAgain ==
  ASSUME Inv, RouteFits, NEW state
  PROVE  LET again == Calculated(state, routeFromLoc, routeToLoc)
         IN  again.steps # NoRoute /\ again.steps.to = routeToLoc
<1> DEFINE route == [map |-> openMap, vehicle |-> vehicle, from |-> routeFromLoc, to |-> routeToLoc]
<1>1. routeSteps = route /\ route \in Route
  BY DEF RouteFits, Inv, TypeOK
<1>2. openMap \in Maps
  BY <1>1 DEF Route
<1>3. Assured = [ok |-> TRUE, router |-> router]
  BY <1>2, GuidanceAssumption DEF Assured, RouteFits
<1>4. Answered(routeFromLoc, routeToLoc) /\ HasRoute(routeFromLoc, routeToLoc)
  BY <1>1, <1>3 DEF Answered, HasRoute, RouteFits, Inv, FollowsCalculated, Calculable
<1>5. Calculated(state, routeFromLoc, routeToLoc) = [data |-> route, steps |-> route, drawn |-> route]
  BY <1>4 DEF Calculated
<1> QED BY <1>1, <1>5, NoRouteAssumption

\* A recalculation that finds nothing calculates the route of before again, and finds
\* it: it was found once, with the same map, vehicle and places.
THEOREM RecalculationKeepsRoute == Spec => RouteSurvives
<1>1. Inv /\ PositionUpdate /\ RouteFits
        => alive' /\ routeSteps' # NoRoute /\ routeSteps'.to = routeToLoc
  <2> SUFFICES ASSUME Inv, PositionUpdate, RouteFits
               PROVE  alive' /\ routeSteps' # NoRoute /\ routeSteps'.to = routeToLoc
    OBVIOUS
  <2>1. /\ alive /\ routeSteps.to = routeToLoc
        /\ routeSteps \in Route /\ routeFromLoc \in Places /\ routeToLoc \in Places
    BY DEF RouteFits, PositionUpdate, Inv, TypeOK, Route
  <2>2. CASE UNCHANGED <<routeVars, alive>>
    BY <2>1, <2>2, NoRouteAssumption DEF routeVars
  <2>3. CASE Recalculate
    <3> DEFINE new == Calculated(State, position, routeToLoc)
    <3>1. routeFromLoc # NoPlace /\ routeToLoc # NoPlace /\ ~Aborts(routeToLoc)
      <4>1. routeFromLoc # NoPlace /\ routeToLoc # NoPlace
        BY <2>1, GuidanceAssumption
      <4>2. Aborts(routeToLoc) => Assured.router = router
        BY DEF Aborts, Assured, RouteFits
      <4> QED BY <4>1, <4>2 DEF Aborts, RouteFits
    <3>2. CASE new.steps # NoRoute
      <4>1. new.steps.to = routeToLoc
        BY <3>2 DEF Calculated
      <4>2. routeSteps' = new.steps /\ UNCHANGED alive
        BY <2>3, <3>1, <3>2 DEF Recalculate, ShowRoute
      <4> QED BY <2>1, <3>2, <4>1, <4>2
    <3>3. CASE new.steps = NoRoute
      <4>1. routeSteps' = Calculated(new, routeFromLoc, routeToLoc).steps /\ UNCHANGED alive
        BY <2>3, <3>1, <3>3 DEF Recalculate, ShowRoute
      <4> QED BY <2>1, <4>1, RouteIsFoundAgain
    <3> QED BY <3>2, <3>3
  <2> QED BY <2>2, <2>3 DEF PositionUpdate
<1> QED BY <1>1, Invariance, PTL DEF Spec, RouteSurvives

==============================================================================
