SPECIFICATION MCSpec
CONSTANTS
  MaxConditionDepth = 2
  Missing = Missing
  NoKey = NoKey
  Callers = {r1}
  KeyIds = {k1, k2}
  LegacyKeys = {k2}
  UpstreamIds = {u1, u2}
  a = a
  b = b
  Targets = {a, b}
  Extents <- MCExtents
  Unpinned = Unpinned
  NoRow = NoRow
  NoCall = NoCall
  NoChoice = NoChoice
  NoDraft = NoDraft
  Capacity = 1
  Isolates = {i1, i2}
  Readers = {r1}
  NoCopy = NoCopy
  NoRead = NoRead
  NoAnswer = NoAnswer
  CacheTTL = 2
  MaxChanges = 2
  MaxTime = 3
  AdminKey = AdminKey
  Stranger = Stranger
  NoRequest = NoRequest
  NoHandler = NoHandler
  Grain = 4
  Second = 3
  Size = 3
  Drip = 1
  Requests = {0, 1, 2, 3, 4}
  NoPromise = NoPromise
  MaxClock = 14
INVARIANT ExpiryAsAsked
