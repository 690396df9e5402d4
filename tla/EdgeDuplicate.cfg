CONSTANTS
  i1 = i1
  i2 = i2
  p1 = p1
  p2 = p2
  Senders = {s1, s2}
  Ids = {i1, i2}
  Partitions = {p1, p2}
  Home <- Apart
  MaxWebhookIDs = 2
  ChanCap = 1
  BatchSize = 2
  EdgeLimit = 2
  Limit <- Failures
  MaxFailures = 0
SPECIFICATION Spec
PROPERTIES
  DuplicateIsOnItsWay
