CONSTANTS
  c1 = c1
  c2 = c2
  c3 = c3
  k1 = k1
  k2 = k2
  Calls <- ThreeCalls
  Keys <- OneKey
  NoFlight = NoFlight
  Grace = 1
  MaxClock = 3
SPECIFICATION Spec
CHECK_DEADLOCK FALSE
INVARIANTS
  SingleFlight
