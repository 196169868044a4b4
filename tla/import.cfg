SPECIFICATION Spec
CONSTANTS
  Inputs <- MCInputs
  Reads <- StepReads
  Writes <- StepWrites
  Run <- RunStep
  CallLimit <- MCCallLimit
  EndSteps <- MCEndSteps
  Missing = Missing
  Broken = Broken
  Types <- MCTypes
  TypeInfo <- MCTypeInfo
  CoordPageSize = 4
  MapSize = 16
INVARIANTS
  FilesFitTogether
  EveryObjectOnce
  WaysKeepTheirForm
  GraphFollowsMap
  RestrictionsFollowWays
  AreasCoverTheSame
CHECK_DEADLOCK FALSE
