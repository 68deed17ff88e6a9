CONSTANTS
  k1 = k1
  k2 = k2
  z1 = z1
  z2 = z2
  b1 = b1
  r1 = r1
  r2 = r2
  Reqs = {r1, r2}
  Isolates = {1}
  Home <- OneHome
  Ask <- TwoZones
  KeyIds = {k1}
  Zones = {z1, z2}
  Bodies = {b1}
  Classes <- OneClass
  Configs <- SmallConfig
  RowLimits <- NoLimits
  Null = Null
  NoRow = NoRow
  NoBuckets = NoBuckets
  NoFlight = NoFlight
  Grace = 0
  MaxKeyBuckets = 1
  MaxClock = 1
  MaxEpoch = 1
  Grain = 2
  Second = 1
SPECIFICATION RouteSpec
CHECK_DEADLOCK FALSE
INVARIANTS
  RouteTypeOK
  AnsweredForOwnRequest
