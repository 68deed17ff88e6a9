CONSTANTS
  k1 = k1
  k2 = k2
  k3 = k3
  z1 = z1
  z2 = z2
  c1 = c1
  Ids = {k1, k2, k3}
  AnyZone = AnyZone
  Never = Never
  Keep = Keep
  NoRow = NoRow
  NoEntry = NoEntry
  Zones = {z1, z2}
  Scopes = {z1, AnyZone}
  Contexts = {c1}
  Policies = {{}, {c1}}
  Upstreams = {"unbound", "u1"}
  Limits = {"none"}
  Lifetimes = {1}
  TTL = 1
  MaxClock = 2
SPECIFICATION Spec
SYMMETRY Symmetry
INVARIANTS
  TypeOK
  CacheCoherent
  OneLivePerLineage
  RotationKeepsAuthority
PROPERTIES
  ImplementsDirectory
CONSTRAINT TwoAuthorities
