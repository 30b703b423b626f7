CONSTANTS
  Instances = {i1, i2}
  Drivers = {d1, d2}
  None = null
SPECIFICATION Spec
INVARIANT UserIsCurrent
