SPECIFICATION Spec
CONSTANTS
  a1 = a1
  a2 = a2
  a3 = a3
  r1 = r1
  r2 = r2
  t1 = t1
  t2 = t2
  t3 = t3
  NoAttempt = NoAttempt
  NoRecord = NoRecord
  Attempts <- TwoAttempts
  Records <- TwoRecords
  Tokens <- ThreeTokens
  FirstToken = t1
  Reusable = FALSE
  MaxPublish = 2
  MaxImports = 0
CHECK_DEADLOCK FALSE
SYMMETRY Symmetry
INVARIANT NoReplay
INVARIANT OneIntent
INVARIANT JournalKnowsConsumed
PROPERTY ImplementsOneTimeToken
