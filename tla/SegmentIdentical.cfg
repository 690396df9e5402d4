CONSTANTS
  p1 = p1
  p2 = p2
  a = a
  b = b
  NoCategory = NoCategory
  Profiles = {p1, p2}
  Categories = {a, b}
  Segments <- OneEach
  Second = 2
  Hour = 2
  Day = 4
  RetentionDays = 2
  Events <- Purchases
  CorpusSize = 3
  Shuffled = FALSE
  BatchSize = 2
  Limit <- NoFailures
  MaxFailures = 0
SPECIFICATION Spec
PROPERTY IdenticalToRecompute
CHECK_DEADLOCK FALSE
