CONSTANTS
  u1 = u1
  u2 = u2
  n1 = n1
  Ids <- TwoIds
  Names <- AllNames
  AnyName = AnyName
  Coverage <- ExactOrAny
  Lookups <- EachLookup
  Lifetimes = {1}
  Never = Never
  Keep = Keep
  NoRow = NoRow
  NoEntry = NoEntry
  NoAnswer = NoAnswer
  Nobody = Nobody
  TTL = 1
  MaxClock = 2
SPECIFICATION Spec
INVARIANTS
  TypeOK
  CacheAsOfItsTime
  AnswersRecent
