CONSTANTS
  p1 = p1
  p2 = p2
  a = a
  b = b
  NoCategory = NoCategory
  Profiles = {p1, p2}
  Categories = {a, b}
  Segments <- OneEach
  Second = 2
  Hour = 2
  Day = 4
  RetentionDays = 2
  Events <- Streams
  CorpusSize = 3
  Shuffled = TRUE
  BatchSize = 2
  Limit <- Failures
  MaxFailures = 1
SPECIFICATION Spec
INVARIANTS
  TypeOK
  
  UntimedNeverLag
PROPERTIES
  
  FinalizeResolves
CHECK_DEADLOCK FALSE
