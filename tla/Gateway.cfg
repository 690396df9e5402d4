CONSTANTS
  Conns = {c1, c2}
  Devices = {d1}
  SeqNos = {1, 2}
  MaxSequencesPerDevice = 2
  DrainConcurrency = 2
  Limit <- FaultLimits
SPECIFICATION FairSpec
INVARIANTS
  TypeOK
  NoLoss
  NoExtraCopies
  TwiceOnlyAfterTimeoutOrRestart
PROPERTIES
  DuplicateIsOnItsWay
  SpooledSurvives
  ImplementsForwarding
  EventuallyForwarded
  DrainAttemptEnds
