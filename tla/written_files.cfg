CONSTANTS
  Texts <- MCTexts
  NumberIn <- MCNumberIn
  MeterIn <- MCMeterIn
  SpeedIn <- MCSpeedIn
  Config <- MCConfig
  Items <- MCItems
  Followers <- MCFollowers
  MaxItems = 2
  MaxLost = 3
  MaxSeeks = 1
SPECIFICATION Spec
INVARIANTS ReadBack AccessFollowsTags
CHECK_DEADLOCK FALSE
