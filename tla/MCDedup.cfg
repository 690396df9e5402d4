CONSTANTS
  Devices = {d1, d2}
  SeqNos <- MCSeqNos
  MaxSequencesPerDevice = 2
  MaxAdmits = 4
SPECIFICATION Spec
INVARIANTS
  TypeOK
  SetMatchesOrder
  NoEarlyReadmission
PROPERTIES
  ImplementsWindow
