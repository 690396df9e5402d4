CONSTANTS
  sent = sent
  failed = failed
  Workers = {w1, w2}
  Total = 5
  BatchSize = 2
  Groups = {sent, failed}
  Stamps = {0, 1, 2, 3}
  Steps = 2
  windowStart = 1
  Drawn <- DrawnRows
  MaxFailures = 2
SPECIFICATION Spec
INVARIANTS
  LoadedOnce
  ExactAfterLoad
  
CHECK_DEADLOCK FALSE
