SPECIFICATION FairSpec
CONSTANTS
  r1 = r1
  r2 = r2
  a1 = a1
  a2 = a2
  b1 = b1
  s1 = s1
  chA = chA
  chB = chB
  key = key
  site = site
  NoCandidate = NoCandidate
  NoChannel = NoChannel
  Requests <- TwoRequests
  Candidates <- FourCandidates
  Routes <- RouteMap
  Forcible = {a1}
  Channels <- TwoChannels
  Scopes <- TwoScopes
  ChannelOf <- ChannelMap
  ScopeOf <- ScopeMap
  Permits <- PermitMap
  Slots <- SlotMap
  Endpoints <- EndpointMap
  MaxRetries = 1
CHECK_DEADLOCK FALSE
INVARIANT SlotsExact
INVARIANT OutcomesHonest
PROPERTY NothingAfterOutput
INVARIANT RejectedStaysOut
PROPERTY EveryRequestEnds
