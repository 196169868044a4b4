CONSTANTS
  Keys = {k1, k2, k3, k4}
  Values = {v1, v2}
  MaxSizes = {0, 1, 2, 3}
SPECIFICATION Spec
INVARIANTS Consistent KeepsMostRecent
PROPERTY ImplementsBoundedMap
