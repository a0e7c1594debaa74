SPECIFICATION FairSpec
CONSTANTS
  Calls = {c1, c2, c3}
  NoCall = NoCall
  PoolSize = 1
  MaxOverflow = 1
INVARIANTS
  TypeOK
  ConnectionsBounded
  NobodyWaitsForNothing
PROPERTIES
  AnswersTellTheTruth
  FailuresExplained
  EveryRequestAnswered
