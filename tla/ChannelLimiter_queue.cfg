SPECIFICATION FairSpec
CONSTANTS
  c1 = c1
  c2 = c2
  c3 = c3
  ch1 = ch1
  ch2 = ch2
  Callers <- ThreeCallers
  Channels <- OneChannel
  Configs <- QueueConfigs
  Usages <- NoUsages
  MaxInt64 = 3
  MaxMinute = 1
  MaxUnknown = 1
INVARIANT SlotAccounting
INVARIANT WorkConserving
PROPERTY FifoPerChannel
PROPERTY WaitersServed
