CONSTANTS
  c1 = c1
  c2 = c2
  d1 = d1
  d2 = d2
  Conns = {c1, c2}
  Devices = {d1, d2}
  SeqNos = {1, 2}
  DeviceOf <- Own
  PerDevice <- TwoAndOne
  MaxDuplicates = 1
  MaxSequencesPerDevice = 2
  DrainConcurrency = 1
  Limit <- BenchLimits
SPECIFICATION BenchSpec
INVARIANTS
  GoodMeansLanded
  LostIsOnItsWay
