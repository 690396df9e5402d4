CONSTANTS
  i1 = i1
  i2 = i2
  i3 = i3
  p1 = p1
  p2 = p2
  Senders = {s1}
  Ids = {i1, i2, i3}
  Partitions = {p1, p2}
  Home <- Placed
  MaxWebhookIDs = 3
  EdgeLimit = 6
  MaxRetries = 2
SPECIFICATION Spec
INVARIANTS
  EdgeAgreesWithReference
  VerdictIsFair
CHECK_DEADLOCK FALSE
