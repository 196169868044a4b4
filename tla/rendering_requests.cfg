SPECIFICATION Spec
CONSTANTS
  v1 = v1
  v2 = v2
  m1 = m1
  m2 = m2
  Views = {v1, v2}
  Maps = {m1, m2}
  HomeView <- SameView
  NoView = NoView
  NoMap = NoMap
  NoImage = NoImage
  ExactReturn = TRUE
  StyleLoads = {TRUE, FALSE}
  MaxInputs = 1
  MaxRoutes = 1
  MaxReopens = 1
INVARIANT RequestNeverLost
INVARIANT RenderingIsReported
INVARIANT RendersNewestOrCancelled
INVARIANT MapUpToDate
PROPERTY ImplementsService
CHECK_DEADLOCK FALSE
