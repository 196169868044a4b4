CONSTANTS
  PageSize = 8
  ByteValues = 8
  MaxBytes = 3
  MaxLevels = 4
  Ids = {1, 2, 4, 8, 9, 10, 30}
  Files = {{}, {9}, {1, 4, 10}, {2, 9, 10, 30}, {1, 2, 4, 8, 9, 10, 30}}
  RecordSize = 3
  IndexCaches = {0, 1, 3}
  DataCaches = {0, 1}
  MaxRequests = 2
  MaxRequestSize = 2
  MaxOpens = 2
  MaxFailures = 1
SPECIFICATION Spec
INVARIANTS GetsWhatIsThere
CHECK_DEADLOCK FALSE
