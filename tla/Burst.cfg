CONSTANTS
  p1 = p1
  p2 = p2
  Senders = {s1}
  Ids = {1, 2, 3, 4}
  Partitions = {p1, p2}
  Home <- Mostly
  MaxWebhookIDs = 5
  ChanCap = 1
  BatchSize = 2
  EdgeLimit = 4
  MaxFailures = 1
SPECIFICATION FairSpec
INVARIANTS
  DrainedIsInHand
  DrainedWithin
  
PROPERTIES
  BenchmarkEnds
CHECK_DEADLOCK FALSE
