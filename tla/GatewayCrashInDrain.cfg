CONSTANTS
  Conns = {c1, c2}
  Devices = {d1}
  SeqNos = {1, 2}
  MaxSequencesPerDevice = 2
  DrainConcurrency = 2
  Limit <- RestartLimits
SPECIFICATION Spec
PROPERTIES
  NeverLostBetweenDrains
