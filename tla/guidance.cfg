SPECIFICATION FairSpec
CONSTANTS
  m1 = m1
  m2 = m2
  NoPlace = NoPlace
  NoMap = NoMap
  NoRoute = NoRoute
  NoRouter = NoRouter
  Places <- MCPlaces
  Maps <- MCMaps
  Vehicles <- MCVehicles
  Path <- MCPath
  OnRoad <- MCOnRoad
  RouterOpens <- MCRouterOpens
  GarbageIsNear = {TRUE, FALSE}
  AwayLimit = 1
  MaxMoves = 2
  MaxClicks = 3
  MaxGestures = 1
INVARIANTS GuidesWhatIsDrawn RouterFitsMap
PROPERTIES RouteSurvives EventuallyGuided
CHECK_DEADLOCK FALSE
