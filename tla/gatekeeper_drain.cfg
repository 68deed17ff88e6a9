CONSTANTS
  k1 = k1
  k2 = k2
  z1 = z1
  b1 = b1
  r1 = r1
  r2 = r2
  Reqs = {r1, r2}
  Ask <- TwoKeys
  KeyIds = {k1, k2}
  Zones = {z1}
  Bodies = {b1}
  Classes <- BothClasses
  Configs <- ThreeConfigs
  RowLimits <- NoLimits
  Null = Null
  NoRow = NoRow
  NoBuckets = NoBuckets
  NoFlight = NoFlight
  Grace = 0
  MaxKeyBuckets = 1
  MaxClock = 0
  MaxEpoch = 1
  Grain = 2
  Second = 1
SPECIFICATION Spec
CHECK_DEADLOCK FALSE
PROPERTIES
  ThrottleDrains
