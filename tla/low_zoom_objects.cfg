SPECIFICATION Spec
CONSTANTS
  ByteValues = 4
  OffsetByteValues = 8
  MaxLevel = 3
  FirstLevel <- MCFirstLevel
  MinFillRate = 5
  CellSizeMax = 2
  CellSizeAverage = 2
  HighFill = 3
  OptimizationCellSizeMax = 4
  OptimizationCellSizeAverage = 2
  AreaAreaIndexMaxMag = 2
  OptimizedTypes <- MCOptimizedTypes
  OptimizationMinMag = 0
  OptimizationMaxMag = 1
  OptimizationMaxWayCount = 2
  PixelSize <- MCPixelSize
  StyledTypes = {1, 2, 3}
  NodeTypes <- MCNodeTypes
  WayTypes <- MCWayTypes
  AreaTypes <- MCAreaTypes
  NoMaxLevel = 1000
  NoSize = NoSize
  Contents <- MCContents
  Boxes <- MCBoxes
  Magnifications = {0, 2, 3, 4, 7}
  MaximumAreaLevel = 1
  Scale <- MCScale
  Families = {"ways"}
  FewRules = 3
  WorldWidth = 64
  PointWidth = 8
  WaterIndexMinMag = 1
  WaterIndexMaxMag = 3
  MagnificationGap = 1
  FillRounds = 20
  GroundPixel <- MCGroundPixel
  IgnoreSeaLand = {}
  Places <- MCPlaces
INVARIANT FindsOptimizedObjects
CHECK_DEADLOCK FALSE
