CONSTANTS
  NumFiles = 2
  Size = 2
  Ranges = {TRUE, FALSE}
  MaxVersion = 2
  MaxSelects = 1
  MaxPauses = 2
  MaxFailures = 1
  MaxStops = 1
SPECIFICATION FairSpec
INVARIANTS VerifiedIntact NoGapNoOverlap
PROPERTY EventuallyInstalled
