SPECIFICATION DescribeSpec
CONSTANTS
  Points <- MCPoints
  Distance <- MCDistance
  Networks <- MCNetworks
  EstimateFactor = 1
  Bearing <- MCBearing
  CurveMaxNodeDistance = 1
  CurveMaxDistance = 3
INVARIANTS RouteIsLegal AroundClosedWays FindsCheapest ManoeuvresAreTold TurnsAreTold DescriptionFitsRoute
PROPERTY Ends
CHECK_DEADLOCK FALSE
