CONSTANTS
  c1 = c1
  c2 = c2
  c3 = c3
  k1 = k1
  k2 = k2
  Calls <- ThreeCalls
  Keys <- TwoKeys
  NoFlight = NoFlight
  Grace = 1
  MaxClock = 2
SPECIFICATION FairSpec
CHECK_DEADLOCK FALSE
INVARIANTS
  TypeOK
  EndsWithItsDue
  OneFlightPerWindow
PROPERTIES
  EntryKeptForGrace
  EveryCallEnds
