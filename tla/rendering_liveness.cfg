SPECIFICATION FairSpec
CONSTANTS
  v1 = v1
  v2 = v2
  m1 = m1
  m2 = m2
  Views = {v1, v2}
  Maps = {m1, m2}
  HomeView <- SameView
  NoView = NoView
  NoMap = NoMap
  NoImage = NoImage
  ExactReturn = FALSE
  StyleLoads = {TRUE, FALSE}
  MaxInputs = 2
  MaxRoutes = 1
  MaxReopens = 0
PROPERTY EventuallyUpToDate
INVARIANT ScreenUpToDate
CHECK_DEADLOCK FALSE
