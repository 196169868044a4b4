CONSTANTS
  RegionTypes <- MCRegionTypes
  LocationTypes <- MCLocationTypes
  POITypes <- MCPOITypes
  ShortWords = {8, 12}
  CellSize = 4
  IgnoreMinimum = 3
  Maps <- MCMaps
  Patterns <- MCPatterns
  Limits = {0, 2, 50}
SPECIFICATION Spec
INVARIANTS FindsEveryPlace FindsOnlyWhatFits
CHECK_DEADLOCK FALSE
